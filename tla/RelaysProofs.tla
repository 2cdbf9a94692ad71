---------------------------- MODULE RelaysProofs ----------------------------
(***************************************************************************)
(* Proofs about relays, for any number of them, of administrators and of   *)
(* listeners: _RelayProcess finds the source and the client it follows,    *)
(* no client of a relay nobody stops or resets is left open, a relay an    *)
(* administrator holds is not freed, and errors leave no source behind.    *)
(* And about the pool of threads that process them, for any number of      *)
(* those: what is processed, or in somebody's hands, stays there, and      *)
(* nobody counted is left when RelayDone returns.                          *)
(***************************************************************************)
EXTENDS Relays, RelayPool, FiniteSetTheorems, WellFoundedInduction, TLAPS

(* A relay nobody but the network and the clock interferes with            *)
LeftAlone(r) == r \notin Stopped \cup Reset

(* What holds of a relay at every point of _RelayProcess.                  *)
Sane(r, x) ==
  /\ x \in RelayRecords
  /\ x.ulState \in {"WAIT_CLIENTS", "TRANSMIT"} => x.source
  /\ x.ulState = "CONNECT" /\ x.psHTTPClnt = "READ_BODY" => x.psURLFile # "NULL"
  /\ x.lookup # "none" => x.psHTTPClnt = "SEARCH_NAME"
  /\ x.psURLFile # "NULL" => r \in Playlists
  /\ x.bStop => r \in Stopped
  /\ x.orphans => ~LeftAlone(r)

(* What holds of it between two calls of _RelayProcess.                    *)
AtRest(r, x) ==
  /\ x.ulState \in Live => x.psHTTPClnt # "NULL"
  /\ x.psHTTPClnt # "NULL" /\ LeftAlone(r) => x.ulState \in Live \cup {"LOCATION_FAILED"}
  /\ x.ulState \in Errors /\ r \notin Playlists => ~x.source
  /\ x.freed => ~x.linked

(* Inside HTTPClntProcess: the client is there, and gets a body only after *)
(* a header that made a place for it.                                      *)
Busy(r, x) ==
  /\ Sane(r, x)
  /\ x.psHTTPClnt # "NULL"
  /\ x.psHTTPClnt = "READ_BODY" => x.psURLFile # "NULL" \/ x.ulState = "TRANSMIT"

(* _RelayProcess neither links nor frees the relay.                        *)
SamePlace(x, y) == y.linked = x.linked /\ y.freed = x.freed

HeldAreThere ==
  \A a \in Admins : resetting[a] # NoRelay =>
    resetting[a] \in Reset /\ ~rel[resetting[a]].freed

RelayInv ==
  /\ TypeOK
  /\ \A r \in Relays : Sane(r, rel[r]) /\ AtRest(r, rel[r])
  /\ HeldAreThere

----------------------------------------------------------------------------
(* HTTPClntProcess, stage by stage *)

(* The values the steps below write are values of their fields.            *)
LEMMA Values ==
  /\ {"IDLE", "WAIT_CLIENTS", "TRANSMIT", "URL_RECEIVED", "CONNECT", "ERROR",
      "LOCATION_FAILED", "NO_TEMPLATE"} \subseteq RelayStates
  /\ {"NULL", "SEARCH_NAME", "CONNECTING", "SEND_HEADER", "READ_HEADER", "READ_BODY",
      "DONE", "ERROR"} \subseteq ClientStates
  /\ {"NULL", "empty", "part", "full"} \subseteq FileStates
  /\ 0 \in 0..MaxListeners
BY RelaysAssumption DEF RelayStates, ClientStates, FileStates, Errors

(* A client that connects leaves its relay alone.                          *)
LEMMA ConnectingIsBusy ==
  ASSUME NEW r \in Relays, NEW x, Busy(r, x), NEW y \in Connecting(x)
  PROVE  Busy(r, y) /\ SamePlace(x, y)
BY DEF Connecting, Closed, Busy, Sane, SamePlace, RelayRecords, ClientStates, LeftAlone

(* So does one that sends its request.                                     *)
LEMMA SendHeaderIsBusy ==
  ASSUME NEW r \in Relays, NEW x, Busy(r, x), NEW y \in SendHeader(x)
  PROVE  Busy(r, y) /\ SamePlace(x, y)
BY DEF SendHeader, Closed, Busy, Sane, SamePlace, RelayRecords, ClientStates, LeftAlone

(* The callbacks of the header and of the data leave a relay as it should  *)
(* be, whatever the network says.                                          *)
LEMMA ReadHeaderIsBusy ==
  ASSUME NEW r \in Relays, NEW x, Busy(r, x), NEW y \in ReadHeader(r, x)
  PROVE  Busy(r, y) /\ SamePlace(x, y)
<1> USE Values DEF Busy, Sane, SamePlace, RelayRecords, LeftAlone
<1>0. x.psHTTPClnt = "READ_HEADER" \/ y = x
  BY DEF ReadHeader
<1> SUFFICES ASSUME x.psHTTPClnt = "READ_HEADER" PROVE Busy(r, y) /\ SamePlace(x, y)
  BY <1>0
<1>1. CASE y \in {x, Closed(x)}
  BY <1>1 DEF Closed
<1>2. CASE y \in HeaderPlaylist(r, x)
  <2>1. r \in Playlists /\ y = [x EXCEPT !.psURLFile = "empty", !.psHTTPClnt = "READ_BODY"]
    BY <1>2 DEF HeaderPlaylist
  <2> QED
    BY <2>1
<1>3. CASE y \in HeaderStream(r, x)
  <2>1. CASE x.source
    <3>1. y = [x EXCEPT !.ulState = "TRANSMIT", !.psHTTPClnt = "READ_BODY"]
      BY <1>3, <2>1 DEF HeaderStream
    <3> QED
      BY <2>1, <3>1
  <2>2. CASE ~x.source /\ y = [x EXCEPT !.ulState = "ERROR", !.psHTTPClnt = "DONE"]
    BY <2>2
  <2>3. CASE y = [SourceCreated(x) EXCEPT !.ulState = "TRANSMIT", !.psHTTPClnt = "READ_BODY"]
    BY <2>3 DEF SourceCreated
  <2>4. CASE y = [SourceCreated(x) EXCEPT !.ulState = "WAIT_CLIENTS", !.psHTTPClnt = "DONE"]
    BY <2>4 DEF SourceCreated
  <2> QED
    BY <1>3, <2>1, <2>2, <2>3, <2>4 DEF HeaderStream
<1>4. CASE y \in HeaderRefused(x)
  <2>1. CASE y = [x EXCEPT !.ulState = "ERROR", !.psHTTPClnt = "DONE"]
    BY <2>1
  <2>2. CASE y = [x EXCEPT !.ulState = "LOCATION_FAILED", !.psHTTPClnt = "DONE"]
    BY <2>2
  <2> QED
    BY <1>4, <2>1, <2>2 DEF HeaderRefused
<1> QED
  BY <1>1, <1>2, <1>3, <1>4 DEF ReadHeader, HTTPHeader

(* The callback of the data stores them or fails, and leaves the relay as  *)
(* it should be.                                                           *)
LEMMA WriteIsBusy ==
  ASSUME NEW r \in Relays, NEW x, Busy(r, x), x.psHTTPClnt = "READ_BODY",
         NEW last \in BOOLEAN, NEW y \in HTTPWrite(r, x, last)
  PROVE  Busy(r, y) /\ SamePlace(x, y) /\ y.psHTTPClnt \in {"READ_BODY", "DONE"}
<1> USE Values DEF Busy, Sane, SamePlace, RelayRecords, LeftAlone
<1> DEFINE w == [x EXCEPT !.due = FALSE]
<1>1. Busy(r, w) /\ SamePlace(x, w) /\ w.psHTTPClnt = "READ_BODY"
  OBVIOUS
<1>2. CASE w.psURLFile # "NULL"
  <2>1. y \in FileWrite(w, last)
    BY <1>2 DEF HTTPWrite
  <2> HIDE DEF w
  <2> QED
    BY <1>1, <1>2, <2>1 DEF FileWrite
<1>3. CASE w.psURLFile = "NULL"
  <2>1. y \in StreamWrite(r, w, last)
    BY <1>3 DEF HTTPWrite
  <2> HIDE DEF w
  <2>2. CASE y = Written(r, w)
    BY <1>1, <1>3, <2>2 DEF Written
  <2>3. CASE y = [w EXCEPT !.ulState = "IDLE", !.psHTTPClnt = "DONE"]
    BY <1>1, <1>3, <2>3
  <2>4. CASE y = [w EXCEPT !.psHTTPClnt = "DONE"]
    BY <1>1, <1>3, <2>4
  <2> QED
    BY <2>1, <2>2, <2>3, <2>4 DEF StreamWrite
<1> QED
  BY <1>2, <1>3

(* A client that is done leaves its relay alone.                           *)
LEMMA DoneIsBusy ==
  ASSUME NEW r \in Relays, NEW x, Busy(r, x), x.psHTTPClnt # "SEARCH_NAME",
         NEW y, y = [x EXCEPT !.psHTTPClnt = "DONE"]
  PROVE  Busy(r, y) /\ SamePlace(x, y)
BY Values DEF Busy, Sane, SamePlace, RelayRecords, LeftAlone

(* What the body brings, to its end or to an error.                        *)
LEMMA ReadBodyIsBusy ==
  ASSUME NEW r \in Relays, NEW x, Busy(r, x), NEW y \in ReadBody(r, x)
  PROVE  Busy(r, y) /\ SamePlace(x, y)
<1>1. CASE x.psHTTPClnt # "READ_BODY"
  BY <1>1 DEF ReadBody, SamePlace
<1>2. CASE x.psHTTPClnt = "READ_BODY"
  <2> DEFINE data == HTTPWrite(r, x, FALSE)
  <2>1. \A z \in data : Busy(r, z) /\ SamePlace(x, z) /\ z.psHTTPClnt # "SEARCH_NAME"
    BY <1>2, WriteIsBusy
  <2>2. ASSUME NEW z \in {x} \cup data, NEW e \in ConnectionEnds(r, z)
        PROVE  Busy(r, e) /\ SamePlace(x, e)
    <3>1. Busy(r, z) /\ SamePlace(x, z)
      BY <2>1 DEF SamePlace
    <3>2. z.psHTTPClnt = "READ_BODY" /\ e \in Done(HTTPWrite(r, z, TRUE))
      BY <2>2 DEF ConnectionEnds
    <3>3. PICK d \in HTTPWrite(r, z, TRUE) : e = [d EXCEPT !.psHTTPClnt = "DONE"]
      BY <3>2 DEF Done
    <3>4. Busy(r, d) /\ SamePlace(z, d) /\ d.psHTTPClnt # "SEARCH_NAME"
      BY <3>1, <3>2, WriteIsBusy
    <3> QED
      BY <3>1, <3>3, <3>4, DoneIsBusy DEF SamePlace
  <2>3. CASE y \in {x, Closed(x)}
    BY <1>2, <2>3, Values DEF Closed, Busy, Sane, SamePlace, RelayRecords, LeftAlone
  <2>4. CASE y \in Done(data)
    <3>1. PICK z \in data : y = [z EXCEPT !.psHTTPClnt = "DONE"]
      BY <2>4 DEF Done
    <3> HIDE DEF data
    <3> QED
      BY <2>1, <3>1, DoneIsBusy DEF SamePlace
  <2> QED
    BY <1>2, <2>1, <2>2, <2>3, <2>4 DEF ReadBody, Then
<1> QED
  BY <1>1, <1>2

(* All four stages of HTTPClntProcess.                                     *)
LEMMA ClientIsBusy ==
  ASSUME NEW r \in Relays, NEW x, Busy(r, x), NEW y \in HTTPClntProcess(r, x)
  PROVE  Busy(r, y) /\ SamePlace(x, y)
<1>1. PICK b \in Connecting(x) : \E c \in SendHeader(b) : \E d \in ReadHeader(r, c) : y \in ReadBody(r, d)
  BY DEF HTTPClntProcess, Then
<1>2. Busy(r, b) /\ SamePlace(x, b)
  BY ConnectingIsBusy
<1>3. PICK c \in SendHeader(b) : \E d \in ReadHeader(r, c) : y \in ReadBody(r, d)
  BY <1>1
<1>4. Busy(r, c) /\ SamePlace(b, c)
  BY <1>2, SendHeaderIsBusy
<1>5. PICK d \in ReadHeader(r, c) : y \in ReadBody(r, d)
  BY <1>3
<1>6. Busy(r, d) /\ SamePlace(c, d)
  BY <1>4, ReadHeaderIsBusy
<1>7. Busy(r, y) /\ SamePlace(d, y)
  BY <1>5, <1>6, ReadBodyIsBusy
<1> QED
  BY <1>2, <1>4, <1>6, <1>7 DEF SamePlace

----------------------------------------------------------------------------
(* _RelayProcess *)

(* A new request is made with a client that is done.                       *)
LEMMA RequestIsBusy ==
  ASSUME NEW r \in Relays, NEW x, Busy(r, x), x.psHTTPClnt = "DONE", NEW y \in Request(r, x)
  PROVE  Busy(r, y) /\ SamePlace(x, y) /\ y.psHTTPClnt # "READ_BODY"
<1> USE Values DEF Busy, Sane, SamePlace, RelayRecords, LeftAlone
<1>1. CASE y = x
  BY <1>1
<1>2. CASE \E c \in Connected : y = [x EXCEPT !.psHTTPClnt = c]
  BY <1>2 DEF Connected
<1>3. CASE \E l \in {"queued", "none"} : y = [x EXCEPT !.psHTTPClnt = "SEARCH_NAME", !.lookup = l]
  BY <1>3
<1> QED
  BY <1>1, <1>2, <1>3 DEF Request

(* An attempt to connect ends in CONNECT with a client, or in an error     *)
(* without a source.                                                       *)
LEMMA ConnectIsSound ==
  ASSUME NEW r \in Relays, NEW x, Sane(r, x), AtRest(r, x), WantsConnection(x),
         NEW y \in Connect(r, x)
  PROVE  Sane(r, y) /\ AtRest(r, y) /\ SamePlace(x, y)
<1> USE Values DEF Sane, SamePlace, RelayRecords, LeftAlone
<1> DEFINE n == HTTPClntCreate(x)
<1>1. x.ulState \in {"IDLE", "URL_RECEIVED", "WAIT_CLIENTS"}
  BY DEF WantsConnection
<1>2. LeftAlone(r) => x.psHTTPClnt = "NULL"
  BY <1>1 DEF AtRest, Live
<1>3. Busy(r, n) /\ SamePlace(x, n) /\ n.psHTTPClnt = "DONE" /\ n.ulState = x.ulState
  BY <1>1, <1>2 DEF HTTPClntCreate, Busy
<1> HIDE DEF n
<1>4. PICK z \in Requested(r, x) \cup {[x EXCEPT !.ulState = "NO_TEMPLATE"]} :
        y = IF z.ulState = "CONNECT" THEN z ELSE SourceDestroyed(z)
  BY DEF Connect
<1>5. CASE z = [x EXCEPT !.ulState = "NO_TEMPLATE"]
  <2>1. y = SourceDestroyed(z)
    BY <1>4, <1>5
  <2> QED
    BY <1>2, <1>5, <2>1 DEF SourceDestroyed, AtRest, Live
<1>6. CASE z \in Requested(r, x)
  <2>1. PICK q \in Request(r, n) :
          z = [q EXCEPT !.psURLFile = "NULL",
                        !.ulState = IF RequestOK(q) THEN "CONNECT" ELSE "LOCATION_FAILED",
                        !.due = @ /\ ~RequestOK(q)]
    BY <1>6 DEF Requested, n
  <2>2. Busy(r, q) /\ SamePlace(n, q) /\ q.psHTTPClnt # "READ_BODY"
    BY <1>3, RequestIsBusy
  <2>3. CASE RequestOK(q)
    <3>1. y = [q EXCEPT !.psURLFile = "NULL", !.ulState = "CONNECT", !.due = FALSE]
      <4>1. q \in RelayRecords
        BY <2>2 DEF Busy
      <4>2. z = [q EXCEPT !.psURLFile = "NULL", !.ulState = "CONNECT", !.due = FALSE]
        BY <2>1, <2>3, <4>1
      <4>3. z.ulState = "CONNECT"
        BY <4>1, <4>2
      <4>4. y = z
        BY <1>4, <4>3
      <4> QED
        BY <4>2, <4>4
    <3> QED
      <4>1. Sane(r, y)
        BY <2>2, <3>1 DEF Busy
      <4>2. SamePlace(x, y) /\ y.ulState = "CONNECT" /\ y.psHTTPClnt # "NULL"
        BY <1>3, <2>2, <3>1 DEF Busy
      <4> QED
        BY <4>1, <4>2 DEF AtRest, Live, Errors
  <2>4. CASE ~RequestOK(q)
    <3>1. y = SourceDestroyed([q EXCEPT !.psURLFile = "NULL", !.ulState = "LOCATION_FAILED"])
      <4>1. q \in RelayRecords
        BY <2>2 DEF Busy
      <4>2. z = [q EXCEPT !.psURLFile = "NULL", !.ulState = "LOCATION_FAILED"]
        BY <2>1, <2>4, <4>1
      <4>3. z.ulState = "LOCATION_FAILED"
        BY <4>1, <4>2
      <4>4. y = SourceDestroyed(z)
        BY <1>4, <4>3
      <4> QED
        BY <4>2, <4>4
    <3> QED
      <4>1. Sane(r, y)
        BY <2>2, <3>1 DEF SourceDestroyed, Busy
      <4>2. SamePlace(x, y) /\ y.ulState = "LOCATION_FAILED" /\ ~y.source
        BY <1>3, <2>2, <3>1 DEF SourceDestroyed, Busy
      <4> QED
        BY <4>1, <4>2 DEF AtRest, Live, Errors
  <2> QED
    BY <2>3, <2>4
<1> QED
  BY <1>4, <1>5, <1>6

(* A relay that obeys the end of its source is at rest, with no source.    *)
LEMMA ObeyStopIsSound ==
  ASSUME NEW r \in Relays, NEW x, Sane(r, x), AtRest(r, x)
  PROVE  Sane(r, ObeyStop(x)) /\ AtRest(r, ObeyStop(x)) /\ SamePlace(x, ObeyStop(x))
<1> USE Values DEF Sane, SamePlace, RelayRecords, LeftAlone
<1>1. CASE ObeyStop(x) = x
  BY <1>1
<1>2. CASE ObeyStop(x) # x
  <2>1. /\ x.ulState \in {"WAIT_CLIENTS", "TRANSMIT"} /\ x.bStop
        /\ ObeyStop(x) = [SourceDestroyed(x) EXCEPT !.ulState = "IDLE"]
    BY <1>2 DEF ObeyStop
  <2> DEFINE y == ObeyStop(x)
  <2>3. y = [x EXCEPT !.ulState = "IDLE", !.source = FALSE, !.bStop = FALSE, !.clients = 0]
    BY <2>1 DEF SourceDestroyed
  <2> HIDE DEF y
  <2>4. y \in RelayRecords
    BY <2>3
  <2>5. SamePlace(x, y) /\ y.ulState = "IDLE"
    BY <2>3
  <2>2. Sane(r, y)
    BY <2>3, <2>4, <2>5
  <2> QED
    BY <2>1, <2>2, <2>5 DEF AtRest, Live, Errors, y
<1> QED
  BY <1>1, <1>2

(* Time-outs and errors, and what Finish drops after them.                 *)
LEMMA TransferIsSound ==
  ASSUME NEW r \in Relays, NEW x, Sane(r, x), AtRest(r, x), NEW y \in Transfer(r, x)
  PROVE  Sane(r, y) /\ AtRest(r, y) /\ SamePlace(x, y)
<1> USE Values
<1>1. CASE x.ulState \notin Live
  BY <1>1 DEF Transfer, SamePlace
<1>2. CASE x.ulState \in Live
  <2>1. PICK z \in HTTPClntProcess(r, x) : y = Finish(Failed(TimedOut(z)))
    BY <1>2 DEF Transfer
  <2>2. Busy(r, z) /\ SamePlace(x, z)
    <3>1. Busy(r, x)
      BY <1>2 DEF Busy, Sane, AtRest, Live
    <3> QED
      BY <3>1, ClientIsBusy
  <2> DEFINE t == TimedOut(z)
  <2>3. Sane(r, t) /\ t.psHTTPClnt # "NULL" /\ SamePlace(x, t)
    BY <2>2 DEF TimedOut, Busy, Sane, SamePlace, RelayRecords, LeftAlone
  <2> HIDE DEF t
  <2> DEFINE f == Failed(t)
  <2>4. Sane(r, f) /\ f.psHTTPClnt # "NULL" /\ SamePlace(x, f)
    BY <2>3 DEF Failed, Sane, SamePlace, RelayRecords, LeftAlone
  <2> HIDE DEF f
  <2>5. y = Finish(f)
    BY <2>1 DEF f, t
  <2>6. f.freed => ~f.linked
    BY <2>4 DEF AtRest, SamePlace
  <2>7. CASE f.ulState \in Live
    BY <2>4, <2>5, <2>6, <2>7 DEF Finish, AtRest, Live, Errors
  <2>8. CASE f.ulState \notin Live
    <3> DEFINE d == DropFile(DropSource(f))
    <3>1. /\ Sane(r, d) /\ SamePlace(x, d) /\ d.ulState = f.ulState
          /\ d.ulState \in Errors /\ r \notin Playlists => ~d.source
      <4> DEFINE e == DropSource(f)
      <4>1. /\ Sane(r, e) /\ SamePlace(x, e) /\ e.ulState = f.ulState
            /\ e.ulState # "WAIT_CLIENTS" /\ r \notin Playlists => ~e.source
        <5>1. CASE e = f /\ (f.ulState = "WAIT_CLIENTS" \/ f.psURLFile # "NULL")
          BY <2>4, <5>1 DEF Sane
        <5>2. CASE e = SourceDestroyed(f) /\ f.ulState # "WAIT_CLIENTS"
          <6>1. /\ e.ulState = f.ulState /\ ~e.source /\ SamePlace(x, e)
            BY <2>4, <5>2 DEF SourceDestroyed, Sane, SamePlace, RelayRecords
          <6>2. Sane(r, e)
            <7>1. e \in RelayRecords
              BY <2>4, <5>2 DEF SourceDestroyed, Sane, RelayRecords
            <7>2. /\ e.psHTTPClnt = f.psHTTPClnt /\ e.psURLFile = f.psURLFile /\ e.lookup = f.lookup
                  /\ e.orphans = f.orphans /\ ~e.bStop
              BY <2>4, <5>2 DEF SourceDestroyed, Sane, RelayRecords
            <7> QED
              BY <2>4, <2>8, <5>2, <6>1, <7>1, <7>2 DEF Sane, LeftAlone, Live
          <6> QED
            BY <6>1, <6>2
        <5> QED
          BY <5>1, <5>2 DEF DropSource
      <4> HIDE DEF e
      <4>2. /\ Sane(r, d) /\ SamePlace(x, d) /\ d.ulState = f.ulState
            /\ d.source = e.source
        BY <2>8, <4>1 DEF DropFile, e, Sane, SamePlace, RelayRecords, LeftAlone, Live
      <4> QED
        BY <4>1, <4>2 DEF Errors
    <3> HIDE DEF d
    <3>2. y = [HTTPClntDestroy(d) EXCEPT !.due = FALSE]
      BY <2>5, <2>8 DEF Finish, d
    <3>3. /\ y.ulState = d.ulState /\ y.source = d.source /\ y.psHTTPClnt = "NULL"
          /\ SamePlace(x, y)
      BY <3>1, <3>2 DEF HTTPClntDestroy, Sane, SamePlace, RelayRecords
    <3>4. Sane(r, y)
      <4>1. y \in RelayRecords
        BY <3>1, <3>2 DEF HTTPClntDestroy, Sane, RelayRecords
      <4> QED
        BY <2>8, <3>1, <3>2, <4>1 DEF HTTPClntDestroy, Sane, RelayRecords, LeftAlone, Live
    <3> QED
      BY <2>4, <2>6, <2>8, <3>1, <3>3, <3>4 DEF AtRest, SamePlace
  <2> QED
    BY <2>7, <2>8
<1> QED
  BY <1>1, <1>2

(* One pass of _RelayProcess over a relay at rest leaves it at rest,       *)
(* whatever comes from the network.                                        *)
LEMMA ProcessIsSound ==
  ASSUME NEW r \in Relays, NEW x, Sane(r, x), AtRest(r, x), NEW y \in RelayProcess(r, x)
  PROVE  Sane(r, y) /\ AtRest(r, y) /\ SamePlace(x, y)
<1>1. CASE x.ulState \in Errors
  <2>1. y = AfterError(x)
    BY <1>1 DEF RelayProcess
  <2> QED
    BY <1>1, <2>1, Values
       DEF AfterError, Sane, AtRest, SamePlace, RelayRecords, LeftAlone, Live, Errors
<1>2. CASE x.ulState \notin Errors
  <2>1. PICK c \in (IF WantsConnection(x) THEN Connect(r, x) ELSE {x}) :
          y \in Transfer(r, ObeyStop(c))
    BY <1>2 DEF RelayProcess, Then
  <2>2. Sane(r, c) /\ AtRest(r, c) /\ SamePlace(x, c)
    BY <2>1, ConnectIsSound DEF SamePlace
  <2>3. /\ Sane(r, ObeyStop(c)) /\ AtRest(r, ObeyStop(c))
        /\ SamePlace(c, ObeyStop(c))
    BY <2>2, ObeyStopIsSound
  <2>4. Sane(r, y) /\ AtRest(r, y) /\ SamePlace(ObeyStop(c), y)
    BY <2>1, <2>3, TransferIsSound
  <2> QED
    BY <2>2, <2>3, <2>4 DEF SamePlace
<1> QED
  BY <1>1, <1>2

----------------------------------------------------------------------------
(* The invariant *)

(* The invariant holds at first: there are no relays.                      *)
LEMMA InitRelayInv == Init => RelayInv
<1> SUFFICES ASSUME Init PROVE RelayInv
  OBVIOUS
<1>1. NoRelayHere \in RelayRecords
  BY Values DEF NoRelayHere, RelayNew, RelayRecords
<1> QED
  BY <1>1 DEF Init, RelayInv, TypeOK, Sane, AtRest, HeldAreThere, NoRelayHere, RelayNew,
              Live, Errors

(* A step that changes one relay only, to a sound record, and nobody's     *)
(* hold on it.                                                             *)
LEMMA OneRelayChanges ==
  ASSUME RelayInv, NEW r \in Relays, NEW y, rel' = [rel EXCEPT ![r] = y],
         Sane(r, y), AtRest(r, y), resetting' = resetting, resolving' \in Relays \cup {NoRelay},
         y.freed => rel[r].freed \/ \A a \in Admins : resetting[a] # r
  PROVE  RelayInv'
<1>1. TypeOK'
  BY DEF RelayInv, TypeOK, Sane
<1>2. \A q \in Relays : rel'[q] = IF q = r THEN y ELSE rel[q]
  BY DEF RelayInv, TypeOK
<1>3. \A q \in Relays : Sane(q, rel'[q]) /\ AtRest(q, rel'[q])
  BY <1>2 DEF RelayInv
<1>4. HeldAreThere'
  BY <1>2 DEF RelayInv, TypeOK, HeldAreThere
<1> QED
  BY <1>1, <1>3, <1>4 DEF RelayInv

(* A pass of a relay thread keeps it.                                      *)
LEMMA ProcessKeeps ==
  ASSUME RelayInv, NEW r \in Relays, Process(r)
  PROVE  RelayInv'
<1>1. PICK y \in RelayProcess(r, rel[r]) : rel' = [rel EXCEPT ![r] = y]
  BY DEF Process
<1>2. Sane(r, y) /\ AtRest(r, y) /\ SamePlace(rel[r], y)
  BY ProcessIsSound DEF RelayInv
<1> QED
  BY <1>1, <1>2, OneRelayChanges DEF Process, RelayInv, TypeOK, SamePlace

(* So does the resolver, which calls back a client that is there and       *)
(* asked.                                                                  *)
LEMMA ResolverKeeps ==
  ASSUME RelayInv, NEW r \in Relays, TakeItem(r) \/ HTTPClntCBResolv(r)
  PROVE  RelayInv'
<1> USE Values DEF Sane, AtRest, RelayRecords, Live, LeftAlone
<1> DEFINE x == rel[r]
<1>0. Sane(r, x) /\ AtRest(r, x)
  BY DEF RelayInv
<1>1. CASE TakeItem(r)
  <2> DEFINE y == [x EXCEPT !.lookup = "taken"]
  <2>1. rel' = [rel EXCEPT ![r] = y] /\ Sane(r, y) /\ AtRest(r, y) /\ y.freed = x.freed
    BY <1>0, <1>1 DEF TakeItem, RelayInv, TypeOK
  <2> HIDE DEF y, Sane, AtRest
  <2> QED
    BY <1>1, <2>1, OneRelayChanges DEF TakeItem
<1>2. CASE HTTPClntCBResolv(r) /\ x.late
  <2> DEFINE y == [x EXCEPT !.late = FALSE]
  <2>1. rel' = [rel EXCEPT ![r] = y]
    BY <1>2 DEF HTTPClntCBResolv
  <2>2. y \in RelayRecords /\ y.freed = x.freed
    BY <1>0
  <2>3. Sane(r, y) /\ AtRest(r, y)
    BY <1>0, <2>2
  <2> HIDE DEF y, Sane, AtRest
  <2> QED
    BY <1>2, <2>1, <2>2, <2>3, OneRelayChanges DEF HTTPClntCBResolv
<1>3. CASE HTTPClntCBResolv(r) /\ ~x.late /\ x.lookup = "taken"
  <2>1. PICK c \in Connected :
          rel' = [rel EXCEPT ![r].lookup = "none", ![r].psHTTPClnt = c]
    BY <1>3 DEF HTTPClntCBResolv
  <2> DEFINE y == [x EXCEPT !.lookup = "none", !.psHTTPClnt = c]
  <2>2. rel' = [rel EXCEPT ![r] = y]
    BY <2>1 DEF RelayInv, TypeOK
  <2>3. Sane(r, y) /\ AtRest(r, y) /\ y.freed = x.freed
    BY <1>0, <1>3 DEF Connected
  <2> HIDE DEF y, Sane, AtRest
  <2> QED
    BY <1>3, <2>2, <2>3, OneRelayChanges DEF HTTPClntCBResolv
<1>4. CASE HTTPClntCBResolv(r) /\ ~x.late /\ x.lookup # "taken"
  BY <1>4, <1>0, OneRelayChanges DEF HTTPClntCBResolv, RelayInv, TypeOK, HeldAreThere
<1> QED
  BY <1>1, <1>2, <1>3, <1>4

(* Listeners that come and go, time, and the end of the source.            *)
LEMMA ListenersAndTimeKeep ==
  ASSUME RelayInv, NEW r \in Relays, Attach(r) \/ Leave(r) \/ Elapse(r) \/ SourceStop(r)
  PROVE  RelayInv'
<1> USE Values DEF Sane, AtRest, RelayRecords, Live, LeftAlone
<1> DEFINE x == rel[r]
<1>0. Sane(r, x) /\ AtRest(r, x) /\ resolving \in Relays \cup {NoRelay}
  BY DEF RelayInv, TypeOK
<1>1. CASE Attach(r)
  <2> DEFINE y == [x EXCEPT !.clients = @ + 1]
  <2>1. rel' = [rel EXCEPT ![r] = y]
    BY <1>1 DEF Attach, RelayInv, TypeOK
  <2>2. y.clients \in 0..MaxListeners
    BY <1>0, <1>1, RelaysAssumption DEF Attach
  <2>3. Sane(r, y) /\ AtRest(r, y) /\ y.freed = x.freed
    BY <1>0, <2>2
  <2> HIDE DEF y, Sane, AtRest
  <2> QED
    BY <1>0, <1>1, <2>1, <2>3, OneRelayChanges DEF Attach
<1>2. CASE Leave(r)
  <2> DEFINE y == [x EXCEPT !.clients = @ - 1]
  <2>1. rel' = [rel EXCEPT ![r] = y]
    BY <1>2 DEF Leave, RelayInv, TypeOK
  <2>2. y.clients \in 0..MaxListeners
    BY <1>0, <1>2, RelaysAssumption DEF Leave
  <2>3. Sane(r, y) /\ AtRest(r, y) /\ y.freed = x.freed
    BY <1>0, <2>2
  <2> HIDE DEF y, Sane, AtRest
  <2> QED
    BY <1>0, <1>2, <2>1, <2>3, OneRelayChanges DEF Leave
<1>3. CASE Elapse(r)
  <2> DEFINE y == [x EXCEPT !.due = TRUE]
  <2>1. rel' = [rel EXCEPT ![r] = y]
    BY <1>3 DEF Elapse, RelayInv, TypeOK
  <2>2. Sane(r, y) /\ AtRest(r, y) /\ y.freed = x.freed
    BY <1>0, <1>3 DEF Elapse
  <2> HIDE DEF y, Sane, AtRest
  <2> QED
    BY <1>0, <1>3, <2>1, <2>2, OneRelayChanges DEF Elapse
<1>4. CASE SourceStop(r)
  <2> DEFINE y == [x EXCEPT !.bStop = TRUE]
  <2>1. rel' = [rel EXCEPT ![r] = y]
    BY <1>4 DEF SourceStop, RelayInv, TypeOK
  <2>2. Sane(r, y) /\ AtRest(r, y) /\ y.freed = x.freed
    BY <1>0, <1>4 DEF SourceStop
  <2> HIDE DEF y, Sane, AtRest
  <2> QED
    BY <1>0, <1>4, <2>1, <2>2, OneRelayChanges DEF SourceStop
<1> QED
  BY <1>1, <1>2, <1>3, <1>4

(* What _RelayDestroy leaves is the place of a relay that is gone.         *)
LEMMA FreedIsSound ==
  ASSUME NEW r \in Relays, NEW x, Sane(r, x)
  PROVE  Sane(r, Freed(x)) /\ AtRest(r, Freed(x))
<1> USE Values DEF Sane, AtRest, RelayRecords, Live, Errors, LeftAlone
<1> DEFINE y == IF x.psHTTPClnt = "NULL" THEN x ELSE HTTPClntDestroy(x)
<1>1. y.late \in BOOLEAN
  BY DEF HTTPClntDestroy
<1> HIDE DEF y
<1>2. Freed(x) = [NoRelayHere EXCEPT !.late = y.late]
  BY DEF Freed, y
<1>3. Freed(x) = [ulState |-> "IDLE", due |-> FALSE, source |-> FALSE, bStop |-> FALSE,
                  clients |-> 0, psHTTPClnt |-> "NULL", psURLFile |-> "NULL",
                  lookup |-> "none", late |-> y.late, orphans |-> FALSE,
                  linked |-> FALSE, freed |-> TRUE]
  BY <1>2 DEF NoRelayHere, RelayNew
<1> QED
  BY <1>1, <1>3

(* An administrator that makes, resets or destroys a relay; one that is    *)
(* being reset is freed later.                                             *)
LEMMA AdministratorKeeps ==
  ASSUME RelayInv, Administrator
  PROVE  RelayInv'
<1> USE Values DEF Sane, AtRest, RelayRecords, Live, LeftAlone
<1>1. ASSUME NEW r \in Relays, RelayDestroy(r) PROVE RelayInv'
  <2> DEFINE x == [rel[r] EXCEPT !.linked = FALSE]
             y == IF \E a \in Admins : resetting[a] = r THEN x ELSE Freed(x)
  <2>1. Sane(r, x) /\ AtRest(r, x) /\ x.freed = rel[r].freed
    BY DEF RelayInv
  <2>2. rel' = [rel EXCEPT ![r] = y] /\ resetting' = resetting /\ resolving' = resolving
    BY <1>1 DEF RelayDestroy
  <2>3. Sane(r, Freed(x)) /\ AtRest(r, Freed(x))
    BY <2>1, FreedIsSound
  <2> HIDE DEF x
  <2>4. Sane(r, y) /\ AtRest(r, y)
    BY <2>1, <2>3
  <2>5. y.freed => rel[r].freed \/ \A a \in Admins : resetting[a] # r
    BY <2>1
  <2> HIDE DEF y
  <2> QED
    BY <2>2, <2>4, <2>5, OneRelayChanges DEF RelayInv, TypeOK
<1>2. ASSUME NEW r \in Relays, RelayReady(r) PROVE RelayInv'
  <2> DEFINE y == [RelayNew EXCEPT !.late = rel[r].late]
  <2>1. Sane(r, y) /\ AtRest(r, y) /\ ~y.freed
    BY DEF RelayInv, RelayNew, Errors
  <2> HIDE DEF y
  <2>2. rel' = [rel EXCEPT ![r] = y] /\ resetting' = resetting /\ resolving' = resolving
    BY <1>2 DEF RelayReady, y
  <2> QED
    BY <2>1, <2>2, OneRelayChanges DEF RelayInv, TypeOK
<1>3. ASSUME NEW a \in Admins, ResetDone(a) PROVE RelayInv'
  <2> DEFINE r == resetting[a]
             x == [rel[r] EXCEPT !.ulState = "IDLE"]
             last == ~x.linked /\ \A b \in Admins \ {a} : resetting[b] # r
             y == IF last THEN Freed(x) ELSE x
  <2>1. r \in Relays /\ r \in Reset /\ ~rel[r].freed
    BY <1>3 DEF ResetDone, RelayInv, TypeOK, HeldAreThere
  <2>2. Sane(r, x) /\ AtRest(r, x) /\ ~x.freed
    BY <2>1 DEF RelayInv, Errors
  <2>3. Sane(r, Freed(x)) /\ AtRest(r, Freed(x))
    BY <2>1, <2>2, FreedIsSound
  <2>4. /\ rel' = [rel EXCEPT ![r] = y] /\ resolving' = resolving
        /\ resetting' = [resetting EXCEPT ![a] = NoRelay]
    BY <1>3 DEF ResetDone
  <2> HIDE DEF x
  <2>5. Sane(r, y) /\ AtRest(r, y) /\ (y.freed => last)
    BY <2>2, <2>3
  <2> HIDE DEF y, r
  <2>6. \A q \in Relays : rel'[q] = IF q = r THEN y ELSE rel[q]
    BY <2>1, <2>4 DEF RelayInv, TypeOK
  <2>7. \A b \in Admins : resetting'[b] = IF b = a THEN NoRelay ELSE resetting[b]
    BY <2>4 DEF RelayInv, TypeOK
  <2>8. TypeOK'
    BY <2>1, <2>4, <2>5 DEF RelayInv, TypeOK
  <2>9. \A q \in Relays : Sane(q, rel'[q]) /\ AtRest(q, rel'[q])
    BY <2>5, <2>6 DEF RelayInv
  <2>10. HeldAreThere'
    BY <2>5, <2>6, <2>7 DEF RelayInv, TypeOK, HeldAreThere
  <2> QED
    BY <2>8, <2>9, <2>10 DEF RelayInv
<1>4. ASSUME NEW a \in Admins, NEW r \in Relays, ResetFound(a, r) PROVE RelayInv'
  <2>1. ~rel[r].freed
    BY <1>4 DEF ResetFound, RelayInv
  <2>2. TypeOK' /\ rel' = rel
    BY <1>4 DEF ResetFound, RelayInv, TypeOK
  <2>3. HeldAreThere'
    BY <1>4, <2>1, <2>2 DEF ResetFound, RelayInv, TypeOK, HeldAreThere
  <2> QED
    BY <2>2, <2>3 DEF RelayInv
<1> QED
  BY <1>1, <1>2, <1>3, <1>4, ListenersAndTimeKeep DEF Administrator

(* So the invariant holds in every state.                                  *)
LEMMA RelayInvHolds == Spec => []RelayInv
<1>1. RelayInv /\ [Next]_vars => RelayInv'
  <2> SUFFICES ASSUME RelayInv, [Next]_vars PROVE RelayInv'
    OBVIOUS
  <2>1. CASE UNCHANGED vars
    BY <2>1 DEF vars, RelayInv, TypeOK, HeldAreThere
  <2> QED
    BY <2>1, ProcessKeeps, ResolverKeeps, ListenersAndTimeKeep, AdministratorKeeps DEF Next
<1> QED
  BY <1>1, InitRelayInv, PTL DEF Spec

----------------------------------------------------------------------------
(* The theorems *)

(* Every relay is a well-formed record, its listeners are counted within   *)
(* bounds, whatever the network, the resolver and the administrators do.   *)
THEOREM RelaysTyped == Spec => []TypeOK
BY RelayInvHolds, PTL DEF RelayInv

(* _RelayProcess never follows a pointer that is NULL, no client of a      *)
(* relay nobody stops or resets is ever overwritten, and an administrator  *)
(* holds no freed relay.                                                   *)
THEOREM FollowedPointersAreSet == Spec => []PointersAreSet
<1>1. RelayInv => PointersAreSet
  BY DEF RelayInv, PointersAreSet, Sane, AtRest, HeldAreThere, LeftAlone
<1> QED
  BY <1>1, RelayInvHolds, PTL

(* A relay whose location is a stream has no source in an error state.     *)
THEOREM NoFeederNoSource == Spec => []ErrorsDropListeners
<1>1. RelayInv => ErrorsDropListeners
  BY DEF RelayInv, ErrorsDropListeners, AtRest
<1> QED
  BY <1>1, RelayInvHolds, PTL

----------------------------------------------------------------------------
(* The pool *)

(* The calls that have pinned their relay.                                 *)
Pinning == {"holding", "removing", "releasing"}

Held == [c \in Callers |-> IF doing[c] \in Pinning THEN ref[c] ELSE PoolNone]

(* The threads that have counted themselves, and not out again.            *)
Counted == {t \in Threads : pc[t] \notin {"none", "born", "counting"}}

ListSound == linked \subseteq 1..added /\ freed \subseteq 1..added /\ linked \cap freed = {}

WalksSound ==
  /\ \A t \in Walking : at[t] \in linked
  /\ \A t, u \in Walking : pc[t] = "processing" /\ pc[u] = "processing" /\ at[t] = at[u] => t = u

CallsSound ==
  /\ \A c \in Callers : doing[c] = "finding" => ref[c] \in linked
  /\ \A c \in Callers : doing[c] \in Pinning => ref[c] \in 1..added /\ ref[c] \notin freed
  /\ ~NoWriter => NoReader

Having(f, r) == Cardinality({c \in Callers : f[c] = r})

PinsCounted == \A r \in PoolRelays : ulQueryLocks[r] = Having(Held, r)

CountSound == "raced" \notin excuses => ulThreadsCount = Cardinality(Counted)

PoolInv == PoolTypeOK /\ ListSound /\ WalksSound /\ CallsSound /\ PinsCounted /\ CountSound

----------------------------------------------------------------------------
(* The operators *)

(* A set of naturals that is not empty has a least element.                *)
LEMMA Least ==
  ASSUME NEW S \in SUBSET Nat, S # {}
  PROVE  \E m \in S : \A k \in S : m <= k
<1> DEFINE T == {0..n : n \in S}
<1>1. T \subseteq FiniteSubsetsOf(Nat)
  <2>1. ASSUME NEW n \in S PROVE 0..n \in SUBSET Nat /\ IsFiniteSet(0..n)
    BY FS_Interval
  <2> QED
    BY <2>1 DEF FiniteSubsetsOf
<1>2. T # {}
  OBVIOUS
<1>3. PICK X \in T : \A Y \in T : <<Y, X>> \notin StrictSubsetOrdering(Nat)
  <2> HIDE DEF T
  <2> QED
    BY <1>1, <1>2, FS_StrictSubsetOrderingWellFounded, WFMin
<1>4. PICK m \in S : X = 0..m
  OBVIOUS
<1>5. ASSUME NEW k \in S, k < m PROVE FALSE
  <2> DEFINE A == 0..k
             B == 0..m
  <2>1. A \in SUBSET Nat /\ B \in SUBSET Nat /\ A \subseteq B /\ A # B
    <3>1. m \in B /\ m \notin A
      BY <1>5
    <3> QED
      BY <1>5, <3>1
  <2>2. A \in T /\ B = X
    BY <1>4
  <2> HIDE DEF A, B, T
  <2>3. <<A, B>> \in StrictSubsetOrdering(Nat)
    BY <2>1 DEF StrictSubsetOrdering
  <2> QED
    BY <1>3, <2>2, <2>3
<1> QED
  BY <1>5

(* The first of a list is in it, if there is one.                          *)
LEMMA FirstIsThere ==
  ASSUME NEW S \in SUBSET (Nat \ {0})
  PROVE  IF S = {} THEN First(S) = PoolNone ELSE First(S) \in S /\ First(S) # PoolNone
<1>1. CASE S = {}
  BY <1>1 DEF First
<1>2. CASE S # {}
  <2>1. \E m \in S : \A k \in S : m <= k
    BY <1>2, Least
  <2>2. First(S) = CHOOSE r \in S : \A q \in S : r <= q
    BY <1>2 DEF First
  <2> QED
    BY <1>2, <2>1, <2>2 DEF PoolNone
<1> QED
  BY <1>1, <1>2

(* A ULONG counts to its width.                                            *)
LEMMA Counting ==
  /\ Width \in Nat /\ Width > 0
  /\ \A n \in 0..(Width - 1) :
       /\ Plus(n) \in 0..(Width - 1) /\ Minus(n) \in 0..(Width - 1)
       /\ n + 1 < Width => Plus(n) = n + 1
       /\ n > 0 => Minus(n) = n - 1
<1>1. Width \in Nat /\ Width > 0
  BY RelayPoolAssumption
<1>2. ASSUME NEW n \in Nat PROVE n % Width \in 0..(Width - 1) /\ (n < Width => n % Width = n)
  BY <1>1
<1>3. ASSUME NEW n \in 0..(Width - 1), n > 0 PROVE (n + Width - 1) % Width = n - 1
  BY <1>1, <1>3
<1>4. ASSUME NEW n \in 0..(Width - 1)
      PROVE  /\ Plus(n) \in 0..(Width - 1) /\ Minus(n) \in 0..(Width - 1)
             /\ n + 1 < Width => Plus(n) = n + 1
             /\ n > 0 => Minus(n) = n - 1
  <2>1. n + 1 \in Nat /\ n + Width - 1 \in Nat
    BY <1>1
  <2> QED
    BY <1>1, <1>2, <1>3, <2>1 DEF Plus, Minus
<1> QED
  BY <1>1, <1>4

(* The callers are the administrators and the main thread.                 *)
LEMMA CallersAreFinite == IsFiniteSet(Callers) /\ Main \in Callers /\ PoolAdmins \subseteq Callers
BY RelayPoolAssumption, FS_AddElement DEF Callers

(* g has what f has, but for c.                                            *)
OnlyFor(c, f, g) == \A d \in Callers : d # c => g[d] = f[d]

(* How the number of those that have a relay changes when one takes, gives *)
(* back or keeps.                                                          *)
LEMMA Recount ==
  ASSUME NEW f, NEW g, NEW c \in Callers, NEW r, OnlyFor(c, f, g)
  PROVE  /\ Having(f, r) \in Nat /\ Having(g, r) \in Nat
         /\ f[c] # r /\ g[c] = r => Having(g, r) = Having(f, r) + 1
         /\ f[c] = r /\ g[c] # r => Having(f, r) = Having(g, r) + 1
         /\ (f[c] = r <=> g[c] = r) => Having(g, r) = Having(f, r)
<1> DEFINE R == {d \in Callers : d # c /\ f[d] = r}
           B == {d \in Callers : f[d] = r}
           A == {d \in Callers : g[d] = r}
<1>1. IsFiniteSet(R) /\ c \notin R
  BY CallersAreFinite, FS_Subset
<1>2. B = IF f[c] = r THEN R \cup {c} ELSE R
  OBVIOUS
<1>3. A = IF g[c] = r THEN R \cup {c} ELSE R
  BY DEF OnlyFor
<1>4. Having(g, r) = Cardinality(A) /\ Having(f, r) = Cardinality(B)
  BY DEF Having
<1> HIDE DEF R, A, B
<1>5. Cardinality(R) \in Nat /\ Cardinality(R \cup {c}) = Cardinality(R) + 1
  BY <1>1, FS_AddElement, FS_CardinalityType
<1> QED
  BY <1>2, <1>3, <1>4, <1>5

(* What nobody has counts nothing, and the other way round.                *)
LEMMA NobodyHas ==
  ASSUME NEW f, NEW r
  PROVE  Having(f, r) \in Nat /\ (Having(f, r) = 0 <=> \A c \in Callers : f[c] # r)
<1> DEFINE A == {c \in Callers : f[c] = r}
<1>1. IsFiniteSet(A) /\ (A = {} <=> \A c \in Callers : f[c] # r)
  BY CallersAreFinite, FS_Subset
<1> HIDE DEF A
<1>2. Cardinality(A) \in Nat /\ (Cardinality(A) = 0 <=> A = {})
  BY <1>1, FS_CardinalityType, FS_EmptySet
<1> QED
  BY <1>1, <1>2 DEF A, Having

----------------------------------------------------------------------------
(* The steps of a thread *)

(* The whole of a step is in its one thread, or that and one it starts.    *)
LEMMA ThreadKeepsType ==
  ASSUME PoolTypeOK, ListSound, NEW t \in Threads, ThreadStep(t)
  PROVE  PoolTypeOK'
<1>1. UNCHANGED <<relays, callers>>
  BY DEF ThreadStep, CountRead, CountWrite, ControlStarts, ControlStarted, ControlEnds, ControlPasses,
         Walk, StartProcess, Pass, Processed, UncountRead, UncountWrite
<1>2. pc' \in [Threads -> ThreadPhases]
  BY DEF PoolTypeOK, ThreadPhases, ThreadStep, CountRead, CountWrite, ControlStarts, ControlStarted, ControlEnds,
         ControlPasses, Walk, StartProcess, Pass, Processed, UncountRead, UncountWrite, Go, WalkTo, Fresh
<1>3. ulThreadsCount' \in 0..(Width - 1) /\ tmp' \in [Threads -> 0..(Width - 1)] /\ ulCtrlThreadLock' \in BOOLEAN
      /\ excuses' \subseteq Excuses
  BY Counting DEF PoolTypeOK, ThreadStep, CountRead, CountWrite, ControlStarts, ControlStarted, ControlEnds,
     ControlPasses, Walk, StartProcess, Pass, Processed, UncountRead, UncountWrite, Excuse, Excuses
<1>4. at' \in [Threads -> PoolRelays \cup {PoolNone}]
  <2>1. CASE at' = at
    BY <2>1 DEF PoolTypeOK
  <2>2. CASE \E S \in SUBSET linked : at' = [at EXCEPT ![t] = First(S)]
    <3>1. PICK S \in SUBSET linked : at' = [at EXCEPT ![t] = First(S)]
      BY <2>2
    <3>2. S \in SUBSET (Nat \ {0}) /\ S \subseteq PoolRelays
      BY <3>1 DEF PoolTypeOK, PoolRelays
    <3>3. First(S) \in PoolRelays \cup {PoolNone}
      BY <3>2, FirstIsThere
    <3> QED
      BY <3>1, <3>3 DEF PoolTypeOK
  <2>3. at' = at \/ \E S \in SUBSET linked : at' = [at EXCEPT ![t] = First(S)]
    BY DEF ThreadStep, CountRead, CountWrite, ControlStarts, ControlStarted, ControlEnds, ControlPasses,
         Walk, StartProcess, Pass, Processed, UncountRead, UncountWrite, WalkTo, psNext
  <2> QED
    BY <2>1, <2>2, <2>3
<1> QED
  BY <1>1, <1>2, <1>3, <1>4 DEF PoolTypeOK, relays, callers

(* A walk goes from one relay that is in the list to the next, and lets    *)
(* one thread process it at a time.                                        *)
LEMMA ThreadKeepsWalks ==
  ASSUME PoolTypeOK, ListSound, WalksSound, CallsSound, NEW t \in Threads, ThreadStep(t)
  PROVE  WalksSound' /\ (~NoWriter => NoReader)'
<1>0. linked \in SUBSET (Nat \ {0})
      /\ pc \in [Threads -> ThreadPhases] /\ at \in [Threads -> PoolRelays \cup {PoolNone}]
  BY DEF PoolTypeOK, PoolRelays
<1>1. linked' = linked /\ doing' = doing /\ ref' = ref
  BY DEF ThreadStep, CountRead, CountWrite, ControlStarts, ControlStarted, ControlEnds, ControlPasses,
         Walk, StartProcess, Pass, Processed, UncountRead, UncountWrite, relays, callers
<1>2. CASE at' = at /\ Walking' \subseteq Walking
           /\ \A u \in Threads : pc'[u] = "processing" => pc[u] = "processing"
  BY <1>0, <1>1, <1>2 DEF WalksSound, CallsSound, NoWriter, NoReader, Walking
<1>3. CASE StartProcess(t)
  <2>1. pc' = [pc EXCEPT ![t] = "processing"] /\ pc[t] = "at" /\ at' = at /\ Walking' = Walking
        /\ \A u \in Threads : ~(pc[u] = "processing" /\ at[u] = at[t])
    BY <1>0, <1>1, <1>3 DEF StartProcess, Go, Walking, ulLockFlag
  <2>2. WalksSound'
    BY <1>0, <1>1, <2>1 DEF WalksSound, Walking
  <2> QED
    BY <1>0, <1>1, <2>1, <2>2 DEF CallsSound, NoWriter, NoReader
<1>4. CASE \E S \in SUBSET linked : WalkTo(t, First(S)) /\ (NoWriter \/ t \in Walking)
  <2>1. PICK S \in SUBSET linked : WalkTo(t, First(S)) /\ (NoWriter \/ t \in Walking)
    BY <1>4
  <2>2. /\ at' = [at EXCEPT ![t] = First(S)] /\ pc' = [pc EXCEPT ![t] = IF First(S) = PoolNone THEN "control" ELSE "at"]
        /\ First(S) # PoolNone => First(S) \in linked
    BY <1>0, <1>1, <2>1, FirstIsThere DEF WalkTo, Go
  <2>3. WalksSound'
    BY <1>0, <1>1, <2>2 DEF WalksSound, Walking
  <2>4. Walking' \subseteq Walking \cup {t}
    BY <1>0, <1>1, <2>2 DEF Walking
  <2> QED
    BY <1>0, <1>1, <2>1, <2>3, <2>4 DEF CallsSound, NoWriter, NoReader
<1>5. CASE Walk(t) \/ Pass(t) \/ Processed(t)
  <2>1. t \in Walking \/ NoWriter
    BY <1>5 DEF Walk, Pass, Processed, Walking
  <2>2. \E S \in SUBSET linked : WalkTo(t, First(S))
    BY <1>5 DEF Walk, Pass, Processed, psNext
  <2> QED
    BY <1>4, <2>1, <2>2
<1>6. CASE CountRead(t) \/ CountWrite(t) \/ ControlStarts(t) \/ ControlStarted(t) \/ ControlEnds(t)
           \/ ControlPasses(t) \/ UncountRead(t) \/ UncountWrite(t)
  <2>1. at' = at /\ \A u \in Threads : pc'[u] \in {"at", "processing"} => pc[u] = pc'[u]
    BY <1>0, <1>1, <1>6 DEF CountRead, CountWrite, ControlStarts, ControlStarted, ControlEnds, ControlPasses,
       UncountRead, UncountWrite, Go, Fresh
  <2> QED
    BY <1>2, <2>1 DEF Walking
<1> QED
  BY <1>3, <1>5, <1>6 DEF ThreadStep

(* As long as no two threads count at once the count is right.             *)
LEMMA ThreadKeepsCount ==
  ASSUME PoolTypeOK, CountSound, NEW t \in Threads, ThreadStep(t)
  PROVE  CountSound'
<1>1. pc \in [Threads -> ThreadPhases] /\ ulThreadsCount \in 0..(Width - 1)
  BY DEF PoolTypeOK
<1> DEFINE C == Counted
           D == Counted'
<1>2. /\ IsFiniteSet(C) /\ IsFiniteSet(D)
      /\ Cardinality(C) \in Nat /\ Cardinality(D) \in Nat
      /\ Cardinality(D) < Width
  <2>1. C \in SUBSET Threads /\ D \in SUBSET Threads
    BY DEF Counted
  <2> HIDE DEF C, D
  <2>2. IsFiniteSet(C) /\ IsFiniteSet(D) /\ Cardinality(D) <= Cardinality(Threads)
    BY <2>1, FS_Subset, RelayPoolAssumption
  <2>3. Cardinality(C) \in Nat /\ Cardinality(D) \in Nat /\ Cardinality(Threads) \in Nat
    BY <2>2, FS_CardinalityType, RelayPoolAssumption
  <2> QED
    BY <2>2, <2>3, RelayPoolAssumption
<1>3. CASE CountWrite(t)
  <2>1. /\ ulThreadsCount' = Plus(tmp[t]) /\ pc[t] = "counting" /\ pc' = [pc EXCEPT ![t] = "control"]
        /\ excuses' = IF ulThreadsCount # tmp[t] THEN excuses \cup {"raced"} ELSE excuses
    BY <1>3 DEF CountWrite, Excuse, Go
  <2>2. D = C \cup {t} /\ t \notin C
    BY <1>1, <2>1 DEF Counted
  <2> HIDE DEF C, D
  <2>3. Cardinality(D) = Cardinality(C) + 1
    BY <1>2, <2>2, FS_AddElement
  <2>4. ASSUME "raced" \notin excuses' PROVE ulThreadsCount' = Cardinality(D)
    <3>1. tmp[t] = ulThreadsCount /\ ulThreadsCount = Cardinality(C)
      BY <2>1, <2>4 DEF CountSound, C
    <3> QED
      BY <1>1, <1>2, <2>1, <2>3, <3>1, Counting
  <2> QED
    BY <2>4 DEF CountSound, D
<1>4. CASE UncountWrite(t)
  <2>1. /\ ulThreadsCount' = Minus(tmp[t]) /\ pc[t] = "uncounting" /\ pc' = [pc EXCEPT ![t] = "none"]
        /\ excuses' = IF ulThreadsCount # tmp[t] THEN excuses \cup {"raced"} ELSE excuses
    BY <1>4 DEF UncountWrite, Excuse, Go
  <2>2. D = C \ {t} /\ t \in C
    BY <1>1, <2>1 DEF Counted
  <2> HIDE DEF C, D
  <2>3. Cardinality(D) = Cardinality(C) - 1
    BY <1>2, <2>2, FS_RemoveElement
  <2>4. ASSUME "raced" \notin excuses' PROVE ulThreadsCount' = Cardinality(D)
    <3>1. tmp[t] = ulThreadsCount /\ ulThreadsCount = Cardinality(C)
      BY <2>1, <2>4 DEF CountSound, C
    <3> QED
      BY <1>1, <1>2, <2>1, <2>3, <3>1, Counting
  <2> QED
    BY <2>4 DEF CountSound, D
<1>5. CASE CountRead(t) \/ ControlStarts(t) \/ ControlStarted(t) \/ ControlEnds(t) \/ ControlPasses(t)
           \/ Walk(t) \/ StartProcess(t) \/ Pass(t) \/ Processed(t) \/ UncountRead(t)
  <2>1. /\ ulThreadsCount' = ulThreadsCount
        /\ "raced" \in excuses => "raced" \in excuses'
        /\ \A u \in Threads : pc[u] \in {"none", "born", "counting"} <=> pc'[u] \in {"none", "born", "counting"}
    BY <1>1, <1>5 DEF CountRead, ControlStarts, ControlStarted, ControlEnds, ControlPasses, Walk, StartProcess, Pass,
       Processed, UncountRead, Go, WalkTo, Fresh, Excuse
  <2>2. C = D
    BY <2>1 DEF Counted
  <2> HIDE DEF C, D
  <2>3. ASSUME "raced" \notin excuses' PROVE ulThreadsCount' = Cardinality(D)
    BY <2>1, <2>2, <2>3 DEF CountSound, C
  <2> QED
    BY <2>3 DEF CountSound, D
<1> QED
  BY <1>3, <1>4, <1>5 DEF ThreadStep

(* A step of a relay thread keeps the invariant: it frees nothing.         *)
LEMMA ThreadKeepsPool ==
  ASSUME PoolInv, NEW t \in Threads, ThreadStep(t)
  PROVE  PoolInv'
<1>1. UNCHANGED <<added, linked, freed, ulQueryLocks, doing, ref>>
  BY DEF ThreadStep, CountRead, CountWrite, ControlStarts, ControlStarted, ControlEnds, ControlPasses,
         Walk, StartProcess, Pass, Processed, UncountRead, UncountWrite, relays, callers
<1>2. PoolTypeOK' /\ WalksSound' /\ CountSound' /\ (~NoWriter => NoReader)'
  BY ThreadKeepsType, ThreadKeepsWalks, ThreadKeepsCount DEF PoolInv
<1>3. ListSound' /\ PinsCounted'
  BY <1>1 DEF PoolInv, ListSound, PinsCounted, Held, Having
<1>4. CallsSound'
  BY <1>1, <1>2 DEF PoolInv, CallsSound
<1> QED
  BY <1>2, <1>3, <1>4 DEF PoolInv

----------------------------------------------------------------------------
(* The calls *)

(* A relay is unlinked: it is freed with that if nobody has pinned it.     *)
LEMMA UnlinkIsSound ==
  ASSUME PoolInv, NEW r \in PoolRelays, r <= added, Unlink(r), ulQueryLocks' = ulQueryLocks, added' = added
  PROVE  /\ ListSound' /\ linked' \in SUBSET PoolRelays /\ freed' \in SUBSET PoolRelays
         /\ ulRelaysCount' \in 0..(Width - 1) /\ excuses' \subseteq excuses \cup {"twice"}
         /\ excuses \subseteq excuses'
         /\ \A c \in Callers : doing[c] \in Pinning => ref[c] \notin freed'
<1>1. /\ linked' = linked \ {r} /\ freed' \subseteq freed \cup {r}
      /\ excuses' \subseteq excuses \cup {"twice"} /\ excuses \subseteq excuses'
      /\ r \in freed' => ulQueryLocks[r] = 0 \/ r \in freed
  BY DEF Unlink, Excuse
<1>2. ListSound /\ linked \in SUBSET PoolRelays /\ freed \in SUBSET PoolRelays /\ r \in 1..added
  BY DEF PoolInv, PoolTypeOK, ListSound, PoolRelays
<1>3. ulRelaysCount' \in 0..(Width - 1)
  BY Counting DEF PoolInv, PoolTypeOK, Unlink
<1>4. ASSUME NEW c \in Callers, doing[c] \in Pinning, ref[c] \in freed' PROVE FALSE
  <2>1. ref[c] = r /\ r \notin freed
    BY <1>1, <1>4 DEF PoolInv, CallsSound
  <2>2. Having(Held, r) = 0
    BY <1>1, <1>2, <1>4, <2>1 DEF PoolInv, PinsCounted
  <2>3. Held[c] # r
    BY <2>2, NobodyHas
  <2> QED
    BY <1>4, <2>1, <2>3 DEF Held
<1> QED
  BY <1>1, <1>2, <1>3, <1>4 DEF ListSound

(* A call goes from one place to another, as far as the locks of the list  *)
(* and the pins are concerned.                                             *)
Moves(c) ==
  /\ doing' \in [Callers -> CallerPhases] /\ ref' \in [Callers -> PoolRelays \cup {PoolNone}]
  /\ \A d \in Callers : d # c => doing'[d] = doing[d] /\ ref'[d] = ref[d]

(* A call that moves is the only one that does.                            *)
LEMMA CallIsTyped ==
  ASSUME PoolInv, NEW c \in Callers, NEW to \in CallerPhases, NEW r \in PoolRelays \cup {PoolNone}, Call(c, to, r)
  PROVE  Moves(c) /\ doing'[c] = to /\ ref'[c] = r /\ OnlyFor(c, Held, Held')
BY DEF PoolInv, PoolTypeOK, Call, Moves, OnlyFor, Held

(* The steps that move a call, and nothing else.                           *)
LEMMA MoveKeepsPool ==
  ASSUME PoolInv, UNCHANGED <<relays, threads, excuses>>, NEW c \in Callers, Moves(c),
         doing[c] \in Pinning <=> doing'[c] \in Pinning,
         doing'[c] \in Pinning => ref'[c] = ref[c],
         doing'[c] = "finding" => ref'[c] \in linked /\ NoWriter,
         doing'[c] \in {"starting", "clearing"} => NoReader
  PROVE  PoolInv'
<1>1. UNCHANGED <<added, linked, freed, ulRelaysCount, ulQueryLocks, ulThreadsCount, ulCtrlThreadLock, pc, at, tmp, excuses>>
  BY DEF relays, threads
<1>2. PoolTypeOK'
  BY <1>1 DEF PoolInv, PoolTypeOK, Moves
<1>3. ListSound' /\ WalksSound' /\ CountSound'
  BY <1>1 DEF PoolInv, ListSound, WalksSound, CountSound, Counted, Walking
<1>4. CallsSound'
  <2>1. (~NoWriter => NoReader)'
    BY <1>1 DEF PoolInv, CallsSound, Moves, NoWriter, NoReader, Walking
  <2>2. \A d \in Callers : doing'[d] = "finding" => ref'[d] \in linked'
    BY <1>1 DEF PoolInv, CallsSound, Moves
  <2>3. \A d \in Callers : doing'[d] \in Pinning => ref'[d] \in 1..added' /\ ref'[d] \notin freed'
    BY <1>1 DEF PoolInv, CallsSound, Moves
  <2> QED
    BY <2>1, <2>2, <2>3 DEF CallsSound
<1>5. PinsCounted'
  <2>1. \A d \in Callers : Held'[d] = Held[d]
    BY DEF Held, Moves
  <2>2. \A r : Having(Held', r) = Having(Held, r)
    BY <2>1 DEF Having
  <2> QED
    BY <1>1, <2>2 DEF PoolInv, PinsCounted
<1> QED
  BY <1>2, <1>3, <1>4, <1>5 DEF PoolInv

(* The calls that find, start or leave a relay.                            *)
LEMMA CallKeepsPool ==
  ASSUME PoolInv, NEW c \in Callers,
         RelayStarted(c) \/ Find(c) \/ Destroy(c) \/ RemoveAll(c) \/ RemovedAll(c) \/ RelayDone
  PROVE  PoolInv'
<1>0. PoolNone \in PoolRelays \cup {PoolNone} /\ linked \in SUBSET PoolRelays /\ ref[c] \in PoolRelays \cup {PoolNone}
      /\ Main \in Callers
      /\ {"idle", "finding", "removing", "clearing", "waiting", "done"} \subseteq CallerPhases
  BY CallersAreFinite DEF PoolInv, PoolTypeOK, CallerPhases
<1>1. CASE RelayStarted(c)
  <2>1. Call(c, "idle", PoolNone) /\ doing[c] = "starting" /\ UNCHANGED <<relays, threads, excuses>>
    BY <1>1 DEF RelayStarted
  <2>2. Moves(c) /\ doing'[c] = "idle"
    BY <1>0, <2>1, CallIsTyped
  <2> QED
    BY <2>1, <2>2, MoveKeepsPool DEF Pinning
<1>2. CASE Find(c)
  <2>1. PICK r \in linked : Call(c, "finding", r)
    BY <1>2 DEF Find
  <2>2. Moves(c) /\ doing'[c] = "finding" /\ ref'[c] = r
    BY <1>0, <2>1, CallIsTyped
  <2>3. doing[c] = "idle" /\ NoWriter /\ UNCHANGED <<relays, threads, excuses>>
    BY <1>2 DEF Find
  <2> QED
    BY <2>2, <2>3, MoveKeepsPool DEF Pinning
<1>3. CASE Destroy(c)
  <2>1. Call(c, "removing", ref[c]) /\ doing[c] = "holding" /\ UNCHANGED <<relays, threads, excuses>>
    BY <1>3 DEF Destroy
  <2>2. Moves(c) /\ doing'[c] = "removing" /\ ref'[c] = ref[c]
    BY <1>0, <2>1, CallIsTyped
  <2> QED
    BY <2>1, <2>2, MoveKeepsPool DEF Pinning
<1>4. CASE RemoveAll(c)
  <2>1. Call(c, "clearing", PoolNone) /\ doing[c] = "idle" /\ NoReader /\ UNCHANGED <<relays, threads, excuses>>
    BY <1>4 DEF RemoveAll
  <2>2. Moves(c) /\ doing'[c] = "clearing"
    BY <1>0, <2>1, CallIsTyped
  <2> QED
    BY <2>1, <2>2, MoveKeepsPool DEF Pinning
<1>5. CASE RemovedAll(c)
  <2>1. PICK to \in {"waiting", "idle"} : Call(c, to, PoolNone)
    BY <1>5 DEF RemovedAll
  <2>2. doing[c] = "clearing" /\ UNCHANGED <<relays, threads, excuses>>
    BY <1>5 DEF RemovedAll
  <2>3. Moves(c) /\ doing'[c] \in {"waiting", "idle"}
    BY <1>0, <2>1, CallIsTyped
  <2> QED
    BY <2>2, <2>3, MoveKeepsPool DEF Pinning
<1>6. CASE RelayDone
  <2>1. Call(Main, "done", PoolNone) /\ doing[Main] = "waiting" /\ UNCHANGED <<relays, threads, excuses>>
    BY <1>6 DEF RelayDone
  <2>2. Moves(Main) /\ doing'[Main] = "done"
    BY <1>0, <2>1, CallIsTyped
  <2> QED
    BY <1>0, <2>1, <2>2, MoveKeepsPool DEF Pinning
<1> QED
  BY <1>1, <1>2, <1>3, <1>4, <1>5, <1>6

(* The pins are counted: one more, one less, or none.                      *)
LEMMA PinKeepsCounts ==
  ASSUME PoolInv, NEW c \in Callers, NEW r \in PoolRelays, OnlyFor(c, Held, Held'), NEW k \in {-1, 0, 1},
         ulQueryLocks' = [ulQueryLocks EXCEPT ![r] = @ + k],
         k = 1 => Held[c] = PoolNone /\ Held'[c] = r,
         k = -1 => Held[c] = r /\ Held'[c] = PoolNone,
         k = 0 => Held'[c] = Held[c]
  PROVE  PinsCounted' /\ ulQueryLocks' \in [PoolRelays -> Nat]
<1>1. ulQueryLocks \in [PoolRelays -> Nat] /\ PoolNone \notin PoolRelays
  BY DEF PoolInv, PoolTypeOK, PoolNone, PoolRelays
<1>2. ASSUME NEW q \in PoolRelays PROVE ulQueryLocks'[q] = Having(Held', q) /\ ulQueryLocks'[q] \in Nat
  <2>1. ulQueryLocks[q] = Having(Held, q)
    BY DEF PoolInv, PinsCounted
  <2>2. ulQueryLocks'[q] = IF q = r THEN ulQueryLocks[q] + k ELSE ulQueryLocks[q]
    BY <1>1
  <2>3. /\ Having(Held, q) \in Nat /\ Having(Held', q) \in Nat
        /\ Held[c] # q /\ Held'[c] = q => Having(Held', q) = Having(Held, q) + 1
        /\ Held[c] = q /\ Held'[c] # q => Having(Held, q) = Having(Held', q) + 1
        /\ (Held[c] = q <=> Held'[c] = q) => Having(Held', q) = Having(Held, q)
    BY Recount
  <2> HIDE DEF Held
  <2>4. CASE k = 0
    BY <2>1, <2>2, <2>3, <2>4
  <2>5. CASE k = 1
    BY <1>1, <2>1, <2>2, <2>3, <2>5
  <2>6. CASE k = -1
    BY <1>1, <2>1, <2>2, <2>3, <2>6
  <2> QED
    BY <2>4, <2>5, <2>6
<1>3. ulQueryLocks' \in [PoolRelays -> Nat]
  BY <1>1, <1>2
<1> QED
  BY <1>2, <1>3 DEF PinsCounted, Having, Held

(* A relay is pinned while the list is locked, so it is linked still.      *)
LEMMA PinKeepsPool ==
  ASSUME PoolInv, NEW c \in Callers, Pin(c)
  PROVE  PoolInv'
<1>1. /\ doing[c] = "finding" /\ ulQueryLocks' = [ulQueryLocks EXCEPT ![ref[c]] = @ + 1]
      /\ Call(c, "holding", ref[c])
      /\ UNCHANGED <<added, linked, freed, ulRelaysCount, ulThreadsCount, ulCtrlThreadLock, pc, at, tmp, excuses>>
  BY DEF Pin, threads
<1>2. ref[c] \in linked /\ ref[c] \in PoolRelays /\ ref[c] \in 1..added /\ ref[c] \notin freed
  BY <1>1 DEF PoolInv, CallsSound, ListSound, PoolTypeOK
<1>3. Moves(c) /\ doing'[c] = "holding" /\ ref'[c] = ref[c] /\ OnlyFor(c, Held, Held')
  BY <1>1, <1>2, CallIsTyped DEF CallerPhases
<1>4. Held[c] = PoolNone /\ Held'[c] = ref[c]
  BY <1>1, <1>3 DEF Held, Pinning
<1>5. PinsCounted' /\ ulQueryLocks' \in [PoolRelays -> Nat]
  <2>1. 1 \in {-1, 0, 1} /\ 1 # -1 /\ 1 # 0
    OBVIOUS
  <2> QED
    BY <1>1, <1>2, <1>3, <1>4, <2>1, PinKeepsCounts
<1>6. PoolTypeOK'
  BY <1>1, <1>3, <1>5 DEF PoolInv, PoolTypeOK, Moves
<1>7. ListSound' /\ WalksSound' /\ CountSound'
  BY <1>1 DEF PoolInv, ListSound, WalksSound, CountSound, Counted, Walking
<1>8. CallsSound'
  BY <1>1, <1>2, <1>3 DEF PoolInv, CallsSound, Moves, NoWriter, NoReader, Walking, Pinning
<1> QED
  BY <1>5, <1>6, <1>7, <1>8 DEF PoolInv

(* A pin is given back: what is freed nobody has any more.                 *)
LEMMA ReleaseKeepsPool ==
  ASSUME PoolInv, NEW c \in Callers, RelayRelease(c)
  PROVE  PoolInv'
<1> DEFINE r == ref[c]
<1>1. /\ doing[c] \in Pinning /\ ulQueryLocks' = [ulQueryLocks EXCEPT ![r] = @ - 1]
      /\ freed' = IF ulQueryLocks[r] = 1 /\ r \notin linked THEN freed \cup {r} ELSE freed
      /\ Call(c, "idle", PoolNone)
      /\ UNCHANGED <<added, linked, ulRelaysCount, ulThreadsCount, ulCtrlThreadLock, pc, at, tmp, excuses>>
  BY DEF RelayRelease, threads, Pinning
<1>2. r \in PoolRelays /\ r \in 1..added /\ ulQueryLocks \in [PoolRelays -> Nat]
  <2>1. r \in 1..added /\ added \in 0..MaxRelays /\ ulQueryLocks \in [PoolRelays -> Nat]
    BY <1>1 DEF PoolInv, CallsSound, PoolTypeOK
  <2> QED
    BY <2>1, RelayPoolAssumption DEF PoolRelays
<1>3. Moves(c) /\ doing'[c] = "idle" /\ OnlyFor(c, Held, Held')
  BY <1>1, CallIsTyped DEF CallerPhases
<1>4. Held[c] = r /\ Held'[c] = PoolNone
  BY <1>1, <1>3 DEF Held, Pinning
<1>5. PinsCounted' /\ ulQueryLocks' \in [PoolRelays -> Nat]
  <2> DEFINE k == -1
             n == ulQueryLocks[r]
  <2>1. k \in {-1, 0, 1} /\ k # 1 /\ k # 0
    OBVIOUS
  <2>2. n - 1 = n + k
    <3>1. n \in Nat
      BY <1>2
    <3> QED
      BY <3>1
  <2>3. ulQueryLocks' = [ulQueryLocks EXCEPT ![r] = n + k]
    <3> HIDE DEF k
    <3> QED
      BY <1>1, <2>2
  <2> HIDE DEF k
  <2> QED
    BY <1>2, <1>3, <1>4, <2>1, <2>3, PinKeepsCounts
<1>6. ListSound' /\ freed' \in SUBSET PoolRelays
  BY <1>1, <1>2 DEF PoolInv, ListSound, PoolTypeOK
<1>7. PoolTypeOK'
  BY <1>1, <1>3, <1>5, <1>6 DEF PoolInv, PoolTypeOK, Moves
<1>8. WalksSound' /\ CountSound'
  BY <1>1 DEF PoolInv, WalksSound, CountSound, Counted, Walking
<1>9. CallsSound'
  <2>1. ASSUME NEW d \in Callers, doing'[d] \in Pinning PROVE ref'[d] \in 1..added' /\ ref'[d] \notin freed'
    <3>1. doing'[d] = doing[d] /\ ref'[d] = ref[d] /\ ref[d] \in 1..added /\ ref[d] \notin freed
      BY <1>3, <2>1 DEF PoolInv, CallsSound, Moves, Pinning
    <3>2. ASSUME ulQueryLocks[r] = 1 PROVE ref[d] # r
      <4>1. Having(Held', r) = 0
        BY <1>1, <1>2, <1>5, <3>2 DEF PinsCounted, Having, Held
      <4>2. Held'[d] # r
        BY <4>1, NobodyHas
      <4> QED
        BY <2>1, <3>1, <4>2 DEF Held
    <3> QED
      BY <1>1, <3>1, <3>2
  <2>2. (~NoWriter => NoReader)' /\ \A d \in Callers : doing'[d] = "finding" => ref'[d] \in linked'
    BY <1>1, <1>3 DEF PoolInv, CallsSound, Moves, NoWriter, NoReader, Walking
  <2> QED
    BY <2>1, <2>2 DEF CallsSound
<1> QED
  BY <1>5, <1>7, <1>6, <1>8, <1>9 DEF PoolInv

(* DestroyUnlinks and RemoveFirst: nobody looks at the list then.          *)
LEMMA UnlinkKeepsPool ==
  ASSUME PoolInv, NEW c \in Callers, DestroyUnlinks(c) \/ RemoveFirst(c)
  PROVE  PoolInv'
<1>1. /\ UNCHANGED <<added, ulQueryLocks, ulThreadsCount, ulCtrlThreadLock, pc, at, tmp>>
      /\ NoReader /\ linked \in SUBSET PoolRelays /\ linked \subseteq 1..added /\ added \in 0..MaxRelays
  BY DEF DestroyUnlinks, RemoveFirst, threads, PoolInv, CallsSound, NoWriter, ListSound, PoolTypeOK
<1>2. \E r \in PoolRelays : r <= added /\ Unlink(r)
  <2>1. CASE DestroyUnlinks(c)
    <3>1. Unlink(ref[c]) /\ ref[c] \in 1..added
      BY <2>1 DEF DestroyUnlinks, PoolInv, CallsSound, Pinning
    <3> QED
      BY <1>1, <3>1, RelayPoolAssumption DEF PoolRelays
  <2>2. CASE RemoveFirst(c)
    <3>1. linked \in SUBSET (Nat \ {0}) /\ linked # {} /\ Unlink(First(linked))
      BY <1>1, <2>2 DEF RemoveFirst, PoolRelays
    <3>2. First(linked) \in linked
      BY <3>1, FirstIsThere
    <3>3. First(linked) \in PoolRelays /\ First(linked) \in 1..added
      BY <1>1, <3>2
    <3>4. First(linked) <= added
      <4> DEFINE f == First(linked)
      <4> HIDE DEF f
      <4>1. f \in 1..added /\ added \in Nat
        BY <1>1, <3>3, RelayPoolAssumption DEF f
      <4> QED
        BY <4>1 DEF f
    <3> QED
      BY <3>1, <3>3, <3>4
  <2> QED
    BY <2>1, <2>2
<1>3. /\ ListSound' /\ linked' \in SUBSET PoolRelays /\ freed' \in SUBSET PoolRelays
      /\ ulRelaysCount' \in 0..(Width - 1) /\ excuses' \subseteq excuses \cup {"twice"}
      /\ excuses \subseteq excuses'
      /\ \A d \in Callers : doing[d] \in Pinning => ref[d] \notin freed'
  BY <1>1, <1>2, UnlinkIsSound
<1>4. /\ Moves(c)
      /\ doing[c] \in Pinning <=> doing'[c] \in Pinning
      /\ ref'[c] = ref[c] /\ doing'[c] # "finding"
      /\ doing'[c] \in {"starting", "clearing"} => doing'[c] = doing[c]
  <2>1. CASE DestroyUnlinks(c)
    <3>1. Call(c, "releasing", ref[c]) /\ doing[c] = "removing" /\ ref[c] \in PoolRelays \cup {PoolNone}
      BY <2>1 DEF DestroyUnlinks, PoolInv, PoolTypeOK
    <3>2. Moves(c) /\ doing'[c] = "releasing" /\ ref'[c] = ref[c]
      BY <3>1, CallIsTyped DEF CallerPhases
    <3> QED
      BY <3>1, <3>2 DEF Pinning
  <2>2. CASE RemoveFirst(c)
    BY <2>2 DEF RemoveFirst, callers, Moves, PoolInv, PoolTypeOK
  <2> QED
    BY <2>1, <2>2
<1>5. PoolTypeOK'
  BY <1>1, <1>3, <1>4 DEF PoolInv, PoolTypeOK, Moves, Excuses
<1>6. WalksSound'
  BY <1>1 DEF WalksSound, Walking, NoReader
<1>7. CountSound'
  BY <1>1, <1>3 DEF PoolInv, CountSound, Counted
<1>8. CallsSound'
  <2>1. \A d \in Callers : doing'[d] # "finding"
    BY <1>1, <1>4 DEF Moves, NoReader
  <2>2. NoReader'
    BY <1>1, <2>1 DEF NoReader, Walking
  <2>3. \A d \in Callers : doing'[d] \in Pinning => ref'[d] \in 1..added' /\ ref'[d] \notin freed'
    BY <1>1, <1>3, <1>4 DEF PoolInv, CallsSound, Moves
  <2> QED
    BY <2>1, <2>2, <2>3 DEF CallsSound
<1>9. PinsCounted'
  <2>1. \A d \in Callers : Held'[d] = Held[d]
    BY <1>4 DEF Held, Moves
  <2>2. \A r : Having(Held', r) = Having(Held, r)
    BY <2>1 DEF Having
  <2> QED
    BY <1>1, <2>2 DEF PoolInv, PinsCounted
<1> QED
  BY <1>3, <1>5, <1>6, <1>7, <1>8, <1>9 DEF PoolInv

(* A new relay is linked while nobody walks.                               *)
LEMMA ReadyKeepsPool ==
  ASSUME PoolInv, NEW c \in Callers, PoolReady(c)
  PROVE  PoolInv'
<1>1. /\ UNCHANGED <<freed, ulQueryLocks, ulThreadsCount, ulCtrlThreadLock, at, tmp>>
      /\ NoWriter /\ NoReader /\ added < MaxRelays /\ added' = added + 1 /\ linked' = linked \cup {added'}
      /\ ulRelaysCount' = Plus(ulRelaysCount) /\ doing[c] = "idle"
  BY DEF PoolReady
<1>2. /\ added \in 0..MaxRelays /\ linked \in SUBSET PoolRelays /\ freed \in SUBSET PoolRelays
      /\ linked \subseteq 1..added /\ freed \subseteq 1..added /\ linked \cap freed = {}
      /\ pc \in [Threads -> ThreadPhases] /\ excuses \subseteq Excuses
      /\ ulRelaysCount \in 0..(Width - 1)
  BY DEF PoolInv, PoolTypeOK, ListSound
<1>3. ListSound' /\ added' \in 0..MaxRelays /\ linked' \in SUBSET PoolRelays
  BY <1>1, <1>2, RelayPoolAssumption DEF ListSound, PoolRelays
<1>4. /\ pc' \in [Threads -> ThreadPhases] /\ \A t \in Threads : pc'[t] # pc[t] => pc[t] = "none" /\ pc'[t] = "born"
      /\ excuses \subseteq excuses' /\ excuses' \subseteq Excuses
  BY <1>1, <1>2 DEF PoolReady, Go, Excuse, Excuses, Fresh, ThreadPhases
<1>5. Moves(c) /\ (UNCHANGED callers \/ doing'[c] = "starting")
  <2>1. CASE UNCHANGED callers
    BY <2>1 DEF Moves, callers, PoolInv, PoolTypeOK
  <2>2. CASE Call(c, "starting", PoolNone)
    BY <2>2, CallIsTyped DEF CallerPhases
  <2> QED
    BY <2>1, <2>2 DEF PoolReady
<1>6. PoolTypeOK'
  <2>1. ulRelaysCount' \in 0..(Width - 1)
    BY <1>1, <1>2, Counting
  <2> QED
    BY <1>1, <1>3, <1>4, <1>5, <2>1 DEF PoolInv, PoolTypeOK, Moves
<1>7. Walking' = {} /\ Counted' = Counted
  BY <1>1, <1>4 DEF Walking, Counted, NoReader
<1>8. WalksSound' /\ CountSound'
  BY <1>1, <1>4, <1>7 DEF PoolInv, WalksSound, CountSound
<1>9. \A d \in Callers : doing'[d] \in Pinning \cup {"finding"} => doing'[d] = doing[d] /\ ref'[d] = ref[d]
  BY <1>1, <1>5 DEF Moves, callers, Pinning
<1>10. CallsSound'
  <2>1. \A d \in Callers : doing'[d] # "finding"
    BY <1>1, <1>9 DEF NoReader
  <2>2. NoReader'
    BY <1>7, <2>1 DEF NoReader
  <2>3. \A d \in Callers : doing'[d] \in Pinning => ref'[d] \in 1..added' /\ ref'[d] \notin freed'
    BY <1>1, <1>2, <1>9 DEF PoolInv, CallsSound
  <2> QED
    BY <2>1, <2>2, <2>3 DEF CallsSound
<1>11. PinsCounted'
  <2>1. \A d \in Callers : Held'[d] = Held[d]
    BY <1>1, <1>5 DEF Held, Moves, callers, Pinning
  <2>2. \A r : Having(Held', r) = Having(Held, r)
    BY <2>1 DEF Having
  <2> QED
    BY <1>1, <2>2 DEF PoolInv, PinsCounted
<1> QED
  BY <1>3, <1>6, <1>8, <1>10, <1>11 DEF PoolInv

(* The invariant holds at first: there are no relays.                      *)
LEMMA InitPool == PoolInit => PoolInv
<1> SUFFICES ASSUME PoolInit PROVE PoolInv
  OBVIOUS
<1>1. PoolTypeOK
  <2>1. 0 \in 0..MaxRelays /\ 0 \in 0..(Width - 1) /\ 0 \in Nat
    BY RelayPoolAssumption
  <2> QED
    BY <2>1 DEF PoolInit, PoolTypeOK, ThreadPhases, CallerPhases, Excuses
<1>2. ListSound /\ WalksSound /\ CallsSound
  BY DEF PoolInit, ListSound, WalksSound, CallsSound, Walking, NoWriter, NoReader, Pinning
<1>3. PinsCounted
  <2>1. ASSUME NEW r \in PoolRelays PROVE Having(Held, r) = 0
    <3>1. \A c \in Callers : Held[c] # r
      BY DEF PoolInit, Held, Pinning, PoolNone, PoolRelays
    <3> QED
      BY <3>1, NobodyHas
  <2> QED
    BY <2>1 DEF PoolInit, PinsCounted
<1>4. CountSound
  <2>1. Counted = {}
    BY DEF PoolInit, Counted
  <2> QED
    BY <2>1, FS_EmptySet DEF PoolInit, CountSound
<1> QED
  BY <1>1, <1>2, <1>3, <1>4 DEF PoolInv

(* Every step keeps the invariant, by the lemmas on its kinds.             *)
LEMMA NextKeepsPool == PoolInv /\ [PoolNext]_poolvars => PoolInv'
<1> SUFFICES ASSUME PoolInv, [PoolNext]_poolvars PROVE PoolInv'
  OBVIOUS
<1>1. CASE UNCHANGED poolvars
  BY <1>1 DEF poolvars, relays, threads, callers, PoolInv, PoolTypeOK, ListSound, WalksSound, CallsSound, PinsCounted,
     CountSound, Counted, Walking, NoWriter, NoReader, Held, Having
<1>2. CASE PoolNext
  BY <1>2, CallersAreFinite, ThreadKeepsPool, CallKeepsPool, PinKeepsPool, UnlinkKeepsPool, ReleaseKeepsPool,
     ReadyKeepsPool DEF PoolNext, CallGoesOn
<1> QED
  BY <1>1, <1>2

(* So it holds in every state.                                             *)
LEMMA PoolInvHolds == PoolSpec => []PoolInv
BY InitPool, NextKeepsPool, PTL DEF PoolSpec

(* Every variable has its type; the counts of pins never fall below zero.  *)
THEOREM PoolTyped == PoolSpec => []PoolTypeOK
<1>1. PoolInv => PoolTypeOK
  BY DEF PoolInv
<1> QED
  BY <1>1, PoolInvHolds, PTL

(* RelayDone comes to its end only when nobody is counted, and then none   *)
(* that has counted itself is there, unless two have counted at once.      *)
DoneIsAlone == doing[Main] = "done" => Counted = {} \/ "raced" \in excuses

(* At first nothing is done.                                               *)
LEMMA InitDone == PoolInit => DoneIsAlone
BY CallersAreFinite DEF PoolInit, DoneIsAlone

(* RelayDone returns when no thread is counted, and none counts itself in  *)
(* afterwards.                                                             *)
LEMMA NextKeepsDone == PoolInv /\ DoneIsAlone /\ [PoolNext]_poolvars => DoneIsAlone'
<1> SUFFICES ASSUME PoolInv, DoneIsAlone, [PoolNext]_poolvars PROVE DoneIsAlone'
  OBVIOUS
<1>0. Main \in Callers /\ doing \in [Callers -> CallerPhases]
  BY CallersAreFinite DEF PoolInv, PoolTypeOK
<1>1. CASE UNCHANGED poolvars
  BY <1>1 DEF poolvars, threads, callers, DoneIsAlone, Counted
<1>2. CASE RelayDone
  <2>1. ulThreadsCount = 0 /\ Counted' = Counted /\ excuses' = excuses
    BY <1>2 DEF RelayDone, threads, Counted
  <2>2. IsFiniteSet(Counted)
    BY FS_Subset, RelayPoolAssumption DEF Counted
  <2>3. Cardinality(Counted) = 0 => Counted = {}
    BY <2>2, FS_EmptySet
  <2> QED
    BY <2>1, <2>3 DEF PoolInv, CountSound, DoneIsAlone
<1>3. CASE Running /\ doing' = doing
  BY <1>3 DEF Running, DoneIsAlone
<1>4. CASE Running /\ \E c \in Callers, to \in CallerPhases \ {"done"} : \E r : Call(c, to, r)
  BY <1>0, <1>4 DEF Running, DoneIsAlone, Call
<1>5. ASSUME NEW t \in Threads, ThreadStep(t) PROVE doing' = doing
  BY <1>5 DEF ThreadStep, CountRead, CountWrite, ControlStarts, ControlStarted, ControlEnds, ControlPasses,
         Walk, StartProcess, Pass, Processed, UncountRead, UncountWrite, callers
<1>6. ASSUME NEW c \in Callers, CallGoesOn(c) \/ PoolReady(c) \/ Find(c) \/ Destroy(c) \/ RemoveAll(c)
      PROVE  doing' = doing \/ \E to \in CallerPhases \ {"done"} : \E r : Call(c, to, r)
  <2>1. CASE RelayStarted(c)
    BY <2>1 DEF RelayStarted, CallerPhases
  <2>2. CASE Pin(c)
    BY <2>2 DEF Pin, CallerPhases
  <2>3. CASE DestroyUnlinks(c)
    BY <2>3 DEF DestroyUnlinks, CallerPhases
  <2>4. CASE RelayRelease(c)
    BY <2>4 DEF RelayRelease, CallerPhases
  <2>5. CASE RemoveFirst(c)
    BY <2>5 DEF RemoveFirst, callers
  <2>6. CASE RemovedAll(c)
    BY <2>6 DEF RemovedAll, CallerPhases
  <2>7. CASE PoolReady(c)
    BY <2>7 DEF PoolReady, callers, CallerPhases
  <2>8. CASE Find(c) \/ Destroy(c) \/ RemoveAll(c)
    BY <2>8 DEF Find, Destroy, RemoveAll, CallerPhases
  <2> QED
    BY <1>6, <2>1, <2>2, <2>3, <2>4, <2>5, <2>6, <2>7, <2>8 DEF CallGoesOn
<1> QED
  BY <1>1, <1>2, <1>3, <1>4, <1>5, <1>6 DEF PoolNext

(* A relay is processed by one thread at a time, and while it is it stays  *)
(* in the list and in memory, whoever removes it; the same for a relay an  *)
(* administrator has found.  When RelayDone returns, no thread that had    *)
(* counted itself is left to use what it destroyed (RelayThread, and the   *)
(* calls of 545-805).                                                      *)
THEOREM RelaysInUseStay == PoolSpec => []UseIsSafe
<1>1. PoolInv /\ DoneIsAlone => UseIsSafe
  <2> SUFFICES ASSUME PoolInv, DoneIsAlone PROVE UseIsSafe
    OBVIOUS
  <2>1. /\ \A t, u \in Walking : pc[t] = "processing" /\ pc[u] = "processing" /\ at[t] = at[u] => t = u
        /\ \A t \in Walking : at[t] \in linked \ freed
    BY DEF PoolInv, WalksSound, ListSound
  <2>2. \A c \in Callers : doing[c] \in {"finding", "holding", "removing", "releasing"}
                          => ref[c] \in 1..added /\ ref[c] \notin freed
    BY DEF PoolInv, CallsSound, ListSound, Pinning
  <2>3. doing[Main] = "done" =>
       \/ \A t \in Threads : pc[t] \in {"none", "born", "counting"}
       \/ "raced" \in excuses
    BY DEF DoneIsAlone, Counted
  <2> QED
    BY <2>1, <2>2, <2>3 DEF UseIsSafe
<1>2. PoolSpec => []DoneIsAlone
  BY InitDone, NextKeepsDone, PoolInvHolds, PTL DEF PoolSpec
<1> QED
  BY <1>1, <1>2, PoolInvHolds, PTL
=============================================================================
