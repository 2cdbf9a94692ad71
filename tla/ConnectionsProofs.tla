------------------------- MODULE ConnectionsProofs -------------------------
(***************************************************************************)
(* Proofs about the HTTP connections, for any number of threads, of        *)
(* connections and of kinds of request: what a service of a connection     *)
(* leaves behind, and what the list of connections holds.                  *)
(***************************************************************************)
EXTENDS Connections, FiniteSetTheorems, SequenceTheorems, TLAPS

(* A connection has one request object or none; only one without is timed; *)
(* only a POST is applied; and 100 is said to a source alone.              *)
OneObject(k) ==
  /\ k.open = IF k.pRequest = "NULL" THEN 0 ELSE 1
  /\ k.timed => k.pRequest = "NULL"
  /\ k.pRequest # "post" => k.applied = "no"
  /\ k.rcRespCode = "100" => k.pRequest = "source"

(* While a POST is received its flags say how its body ends, and one whose *)
(* end shows has not been applied.                                         *)
PostSound(k) ==
  /\ k.pRequest = "post" /\ k.rcRespCode = "NULL" =>
       /\ k.bChunked <=> k.asked = "chunked"
       /\ k.bLength <=> k.asked \in {"zero", "some"}
       /\ k.asked # "none" => k.applied = "no"
  /\ k.asked # "none" => k.applied \in {"no", "whole"}

(* A length comes from the request or from the object.                     *)
LengthSound(k) ==
  k.pRequest # "NULL" /\ k.bLength => k.asked # "none" \/ SizeKnown(k.pRequest)

(* What is true of an answer, its head written, as long as its connection  *)
(* is not dead.                                                            *)
BareAnswer(k) == k.bSendEOF /\ ~k.bKeepAlive /\ k.pending

FullAnswer(k) ==
  /\ k.bChunked = k.bClient11
  /\ SizeKnown(k.pRequest) => k.bLength
  /\ k.bKeepAlive => k.rcRespCode # "100"
  /\ k.bSendEOF /\ ~k.bLength /\ ~k.bChunked => ~k.bKeepAlive
  /\ k.bSendEOF /\ k.pRequest \in {"post", "page"} => ~k.more
  /\ k.bSendEOF /\ ~Unmarked(k) => k.pending
  /\ ~k.bSendEOF /\ k.bLength /\ ~k.more => k.head /\ k.pending

AnswerSound(k) ==
  k.rcRespCode # "NULL" /\ ~k.bDead =>
    IF k.pRequest = "NULL" THEN BareAnswer(k) ELSE FullAnswer(k)

Sound(k) ==
  k \in Connection /\ OneObject(k) /\ PostSound(k) /\ LengthSound(k) /\ AnswerSound(k)

(* What a service of a connection leaves alone until it answers.           *)
SameButCode(k, x) ==
  /\ x \in Connection
  /\ x.ulLockFlag = k.ulLockFlag /\ x.timed = k.timed
  /\ x.pRequest = k.pRequest /\ x.bSendEOF = k.bSendEOF /\ x.bKeepAlive = k.bKeepAlive
  /\ x.bChunked = k.bChunked /\ x.bClient11 = k.bClient11 /\ x.bLength = k.bLength
  /\ x.head = k.head /\ x.asked = k.asked /\ x.open = k.open

(* Handing bytes to the object may give a code and nothing else.           *)
LEMMA WriteGivesCode ==
  ASSUME NEW k \in Connection, NEW x \in CbWrite(k)
  PROVE  /\ SameButCode(k, x) /\ x.bDead = k.bDead
         /\ x.applied = k.applied /\ x.more = k.more /\ x.pending = k.pending
         /\ x.rcRespCode \in {"NULL", "200", "err"}
  BY DEF CbWrite, Connection, SameButCode, Codes

(* Ending the body applies a POST, and gives it a code.                    *)
LEMMA EndApplies ==
  ASSUME NEW k \in Connection, NEW what \in {"whole", "part"}, NEW x \in CbEnd(k, what)
  PROVE  /\ SameButCode(k, x) /\ x.bDead = k.bDead
         /\ x.more = k.more /\ x.pending = k.pending
         /\ x.rcRespCode \in {"NULL", "200", "err"}
         /\ k.pRequest # "post" => x.applied = k.applied
         /\ k.pRequest = "post" => x.rcRespCode = "200"
         /\ k.pRequest = "post" /\ k.applied = "no" => x.applied = what
<1>1. CASE k.pRequest = "post"
  <2> DEFINE became == IF k.applied # "no" THEN "twice" ELSE what
  <2>1. x = [k EXCEPT !.rcRespCode = "200", !.applied = became]
    BY <1>1 DEF CbEnd, Connection
  <2>2. became \in {"no", "whole", "part", "twice"} /\ (k.applied = "no" => became = what)
    OBVIOUS
  <2> HIDE DEF became
  <2>3. x.rcRespCode = "200" /\ x.applied = became
    BY <2>1 DEF Connection
  <2>4. SameButCode(k, x) /\ x.bDead = k.bDead /\ x.more = k.more /\ x.pending = k.pending
    BY <2>1, <2>2 DEF Connection, SameButCode, Codes
  <2> QED
    BY <1>1, <2>2, <2>3, <2>4
<1>2. CASE k.pRequest # "post"
  BY <1>2, WriteGivesCode DEF CbEnd
<1> QED
  BY <1>1, <1>2

(* Sound but for an answer that is still to be written.                    *)
Legal(k) == k \in Connection /\ OneObject(k) /\ PostSound(k) /\ LengthSound(k)

(* Legal still, and with the same request.                                 *)
StaysLegal(k, x) == Legal(x) /\ x.pRequest = k.pRequest

(* A connection that gets a code, and a POST that is applied as a whole,   *)
(* is as legal as before.                                                  *)
LEMMA CodeIsLegal ==
  ASSUME NEW k, Legal(k), k.rcRespCode = "NULL", NEW x, SameButCode(k, x),
         x.rcRespCode \in {"NULL", "200", "err"},
         \/ x.applied = k.applied
         \/ k.pRequest = "post" /\ x.applied = "whole" /\ x.rcRespCode # "NULL"
         \/ k.asked = "none" /\ k.pRequest = "post" /\ ~k.bChunked /\ ~k.bLength
  PROVE  StaysLegal(k, x)
  BY DEF StaysLegal, Legal, SameButCode, OneObject, PostSound, LengthSound, SizeKnown, Connection

(* Losing a connection leaves it dead, and says nothing else.              *)
LEMMA LostIsSound ==
  ASSUME NEW k, Sound(k), k.rcRespCode = "NULL", NEW x \in Lost(k)
  PROVE  Sound(x) /\ x.pRequest = k.pRequest
<1>1. Legal(k) /\ k \in Connection
  BY DEF Sound, Legal
<1>2. CASE x = Dead(k)
  BY <1>1, <1>2 DEF Dead, Sound, Legal, OneObject, PostSound, LengthSound, AnswerSound,
     SizeKnown, Connection
<1>3. CASE k.pRequest # "NULL" /\ ~k.bChunked /\ ~k.bLength /\ x # Dead(k)
  <2>1. PICK y \in CbEnd(k, Come(k)) :
          x = Dead([y EXCEPT !.rcRespCode = k.rcRespCode])
    BY <1>3 DEF Lost
  <2> DEFINE z == [y EXCEPT !.rcRespCode = k.rcRespCode]
  <2>2. /\ SameButCode(k, y)
        /\ k.pRequest # "post" => y.applied = k.applied
    BY <1>1, EndApplies DEF Come
  <2>3. SameButCode(k, z) /\ z.applied = y.applied /\ z.rcRespCode = "NULL"
    BY <1>1, <2>2 DEF SameButCode, Connection, Codes
  <2>4. k.pRequest = "post" => k.asked = "none"
    BY <1>1, <1>3 DEF Legal, PostSound, Connection, Framings
  <2>5. Legal(z)
    <3> HIDE DEF z
    <3> QED
      BY <1>1, <1>3, <2>2, <2>3, <2>4, CodeIsLegal DEF StaysLegal
  <2> HIDE DEF z
  <2>6. x = Dead(z)
    BY <2>1 DEF z
  <2> QED
    BY <2>3, <2>5, <2>6 DEF SameButCode, Dead, Sound, Legal, OneObject, PostSound, LengthSound, AnswerSound,
     SizeKnown, Connection
<1> QED
  BY <1>2, <1>3 DEF Lost

(* Whether bytes are pending, and how many of the body are due, is of no   *)
(* account here.                                                           *)
LEMMA PendingIsLegal ==
  ASSUME NEW k, Legal(k), NEW p \in BOOLEAN
  PROVE  /\ StaysLegal(k, [k EXCEPT !.pending = p]) /\ StaysLegal(k, [k EXCEPT !.more = p])
         /\ StaysLegal(k, Dead(k))
<1>1. StaysLegal(k, [k EXCEPT !.pending = p])
  BY DEF StaysLegal, Legal, OneObject, PostSound, LengthSound, SizeKnown, Connection
<1>2. StaysLegal(k, [k EXCEPT !.more = p])
  BY DEF StaysLegal, Legal, OneObject, PostSound, LengthSound, SizeKnown, Connection
<1>3. StaysLegal(k, Dead(k))
  BY DEF StaysLegal, Legal, OneObject, PostSound, LengthSound, SizeKnown, Connection, Dead
<1> QED
  BY <1>1, <1>2, <1>3

(* What bytes of a body leave behind.                                      *)
LEMMA WriteIsLegal ==
  ASSUME NEW k, Legal(k), k.rcRespCode = "NULL", NEW x \in CbWrite(k)
  PROVE  StaysLegal(k, x)
<1>1. k \in Connection
  BY DEF Legal
<1> QED
  BY <1>1, WriteGivesCode, CodeIsLegal

(* What the end of a body leaves behind, if all of it has come.            *)
LEMMA EndIsLegal ==
  ASSUME NEW k, Legal(k), k.rcRespCode = "NULL", k.bChunked \/ k.bLength,
         NEW x \in CbEnd(k, "whole")
  PROVE  StaysLegal(k, x)
<1>1. k \in Connection
  BY DEF Legal
<1>2. k.pRequest = "post" => k.applied = "no"
  BY DEF Legal, PostSound, Connection, Framings
<1> QED
  BY <1>1, <1>2, EndApplies, CodeIsLegal

(* Chunks of a body.                                                       *)
LEMMA ChunksAreLegal ==
  ASSUME NEW k, Legal(k), k.rcRespCode = "NULL", k.bChunked, NEW x \in Chunks(k)
  PROVE  StaysLegal(k, x)
<1>1. CASE x = Dead(k)
  BY <1>1, PendingIsLegal
<1>2. CASE \E y \in {k} \cup CbWrite(k) \cup CbEnd(k, "whole"), p \in BOOLEAN :
             x = [y EXCEPT !.pending = p]
  <2>1. PICK y \in {k} \cup CbWrite(k) \cup CbEnd(k, "whole"), p \in BOOLEAN :
             x = [y EXCEPT !.pending = p]
    BY <1>2
  <2>2. StaysLegal(k, y)
    BY WriteIsLegal, EndIsLegal DEF StaysLegal
  <2> QED
    BY <2>1, <2>2, PendingIsLegal DEF StaysLegal
<1> QED
  BY <1>1, <1>2 DEF Chunks

(* A body that is not in chunks.                                           *)
LEMMA BodyIsLegal ==
  ASSUME NEW k, Legal(k), k.rcRespCode = "NULL", NEW x \in Body(k)
  PROVE  StaysLegal(k, x)
<1> DEFINE all  == {[y EXCEPT !.pending = FALSE] : y \in CbWrite(k)}
           over == {[y EXCEPT !.pending = TRUE] : y \in CbEnd(k, "whole")}
           less == [k EXCEPT !.more = FALSE]
           last == UNION {IF y.rcRespCode = "NULL" THEN CbEnd(y, "whole") ELSE {y} :
                          y \in CbWrite(less)}
<1>1. k \in Connection
  BY DEF Legal
<1>2. \A y \in all : StaysLegal(k, y)
  <2> TAKE y \in all
  <2>1. PICK z \in CbWrite(k) : y = [z EXCEPT !.pending = FALSE]
    OBVIOUS
  <2>2. StaysLegal(k, z)
    BY WriteIsLegal
  <2>3. StaysLegal(z, y)
    BY <2>1, <2>2, PendingIsLegal DEF StaysLegal
  <2> QED
    BY <2>2, <2>3 DEF StaysLegal
<1>3. k.bLength => \A y \in over : StaysLegal(k, y)
  BY EndIsLegal, PendingIsLegal DEF StaysLegal
<1>4. StaysLegal(k, less) /\ less \in Connection /\ less.rcRespCode = "NULL" /\ less.bLength = k.bLength
  BY <1>1, PendingIsLegal DEF Connection
<1>5. ASSUME k.bLength, NEW y \in last
      PROVE  StaysLegal(k, y)
  <2> HIDE DEF less
  <2>1. PICK z \in CbWrite(less) : y \in IF z.rcRespCode = "NULL" THEN CbEnd(z, "whole") ELSE {z}
    OBVIOUS
  <2>2. StaysLegal(k, z) /\ z.bLength
    BY <1>4, <1>5, WriteIsLegal, WriteGivesCode DEF SameButCode, StaysLegal
  <2> QED
    BY <2>1, <2>2, EndIsLegal DEF StaysLegal
<1>6. \/ x = k
      \/ x \in all
      \/ k.bLength /\ x \in over
      \/ k.bLength /\ \E y \in last, p \in BOOLEAN : x = [y EXCEPT !.pending = p]
  <2>1. k.bLength \in BOOLEAN /\ k.more \in BOOLEAN
    BY <1>1 DEF Connection
  <2>2. CASE k.bLength /\ k.more
    <3> DEFINE some == {[y EXCEPT !.pending = p] : y \in last, p \in BOOLEAN}
    <3>1. x = k \/ x \in all \cup some
      <4> DEFINE none == IF k.pending THEN {} ELSE {k}
      <4>1. Body(k) = none \cup CASE ~k.bLength -> all
                                  [] k.bLength /\ ~k.more -> over
                                  [] k.bLength /\ k.more -> all \cup some
        BY DEF Body
      <4> HIDE DEF all, over, some
      <4> QED
        BY <2>2, <4>1
    <3> HIDE DEF all, last
    <3> QED
      BY <2>2, <3>1
  <2>3. CASE ~k.bLength
    BY <2>3 DEF Body
  <2>4. CASE k.bLength /\ ~k.more
    BY <2>4 DEF Body
  <2> QED
    BY <2>1, <2>2, <2>3, <2>4
<1>7. ASSUME NEW y, StaysLegal(k, y), NEW p \in BOOLEAN
      PROVE  StaysLegal(k, [y EXCEPT !.pending = p])
  BY <1>7, PendingIsLegal DEF StaysLegal
<1>8. StaysLegal(k, k)
  BY DEF StaysLegal
<1> HIDE DEF all, over, last, less
<1> QED
  BY <1>2, <1>3, <1>5, <1>6, <1>7, <1>8

(* A request that has been read has one new object, or none and a code.    *)
LEMMA OpenedIsLegal ==
  ASSUME NEW k, Legal(k), k.rcRespCode = "NULL", k.pRequest = "NULL",
         NEW ask \in Asks, NEW x \in Opened(k, ask)
  PROVE  Legal(x)
<1> DEFINE codes  == IF ask.kind = "denied" THEN [code : {"err"}, rest : {FALSE}]
                     ELSE {b \in [code : CbNew(ask.kind), rest : BOOLEAN] : b.rest => b.code = "NULL"}
           object == IF ask.kind = "denied" THEN "NULL" ELSE ask.kind
           opened == IF ask.kind = "denied" THEN k.open ELSE k.open + 1
           chunks == ask.framing = "chunked"
           sized  == ask.framing \in {"zero", "some"}
           left   == IF ask.framing \in {"zero", "some"} THEN ask.framing = "some" ELSE k.more
           times  == Timed(k, ask.kind)
<1>1. PICK a \in codes :
        x = [k EXCEPT !.pRequest = object, !.open = opened, !.rcRespCode = a.code,
               !.pending = a.rest, !.asked = ask.framing, !.bChunked = chunks, !.bLength = sized,
               !.more = left, !.bClient11 = ask.client11, !.bKeepAlive = ask.keep, !.timed = times]
  BY DEF Opened
<1>2. /\ a.code \in Codes /\ a.rest \in BOOLEAN
      /\ a.code = "100" => ask.kind = "source"
  BY DEF CbNew, Codes
<1>3. /\ ask.kind \in Requests \cup {"denied"} /\ ask.framing \in Framings
      /\ ask.client11 \in BOOLEAN /\ ask.keep \in BOOLEAN
  BY DEF Asks
<1>4. k \in Connection /\ k.open = 0 /\ k.applied = "no"
  BY DEF Legal, OneObject
<1>5. times = FALSE
  BY DEF Timed
<1>6. object \in Requests \cup {"NULL"} /\ left \in BOOLEAN
  BY <1>3, <1>4 DEF Connection
<1>7. /\ object = IF ask.kind = "denied" THEN "NULL" ELSE ask.kind
      /\ opened = IF ask.kind = "denied" THEN 0 ELSE 1
      /\ chunks = (ask.framing = "chunked") /\ sized = (ask.framing \in {"zero", "some"})
      /\ chunks \in BOOLEAN /\ sized \in BOOLEAN
  BY <1>4
<1> HIDE DEF codes, object, opened, chunks, sized, left, times
<1>8. x = [ulLockFlag |-> k.ulLockFlag, bDead |-> k.bDead, timed |-> FALSE,
           pRequest |-> object, rcRespCode |-> a.code, bSendEOF |-> k.bSendEOF,
           bKeepAlive |-> ask.keep, bChunked |-> chunks, bClient11 |-> ask.client11,
           bLength |-> sized, more |-> left, pending |-> a.rest, head |-> k.head,
           asked |-> ask.framing, applied |-> "no", open |-> opened]
  BY <1>1, <1>4, <1>5 DEF Connection
<1>9. opened \in 0..1
  BY <1>7
<1>10. x \in Connection
  BY <1>2, <1>3, <1>4, <1>6, <1>7, <1>8, <1>9 DEF Connection
<1> QED
  BY <1>2, <1>3, <1>7, <1>8, <1>10, ConnectionsAssumption
  DEF Legal, OneObject, PostSound, LengthSound, Framings

(* What the bytes of a request's head leave behind.                        *)
LEMMA HeaderIsLegal ==
  ASSUME NEW k, Legal(k), k.rcRespCode = "NULL", k.pRequest = "NULL", NEW x \in Header(k)
  PROVE  Legal(x)
<1>1. CASE x = Dead(k)
  BY <1>1, PendingIsLegal DEF StaysLegal
<1>2. ASSUME NEW v \in BOOLEAN
      PROVE  /\ Legal([k EXCEPT !.rcRespCode = "err", !.bClient11 = v])
             /\ Legal([k EXCEPT !.bClient11 = v])
  BY DEF Legal, OneObject, PostSound, LengthSound, SizeKnown, Connection, Codes
<1>3. \/ x = Dead(k)
      \/ \E v \in BOOLEAN : \/ x = [k EXCEPT !.rcRespCode = "err", !.bClient11 = v]
                            \/ x = Dead([k EXCEPT !.bClient11 = v])
      \/ \E ask \in Asks : x \in Opened(k, ask)
  BY DEF Header, Dead
<1> QED
  BY <1>1, <1>2, <1>3, OpenedIsLegal, PendingIsLegal DEF StaysLegal

(* The head of the answer makes a legal connection sound.                  *)
LEMMA AnswerIsSound ==
  ASSUME NEW k, Legal(k), k.rcRespCode # "NULL", ~k.bDead, NEW x \in Answer(k)
  PROVE  Sound(x) /\ x.pRequest = k.pRequest
<1>1. k \in Connection
  BY DEF Legal
<1>2. CASE k.pRequest = "NULL"
  <2>1. x = [k EXCEPT !.bKeepAlive = FALSE, !.bSendEOF = TRUE, !.pending = TRUE]
    BY <1>2 DEF Answer
  <2> QED
    BY <1>1, <1>2, <2>1
    DEF Sound, Legal, OneObject, PostSound, LengthSound, AnswerSound, BareAnswer, SizeKnown, Connection
<1>3. CASE k.pRequest # "NULL"
  <2> DEFINE keep == k.bKeepAlive /\ k.rcRespCode = "200"
             over == k.rcRespCode = "100"
             length == k.bLength \/ SizeKnown(k.pRequest)
             head == k.rcRespCode # "100"
             lefts == IF SizeKnown(k.pRequest) THEN BOOLEAN ELSE {k.more}
  <2>1. PICK m \in lefts :
          x = [k EXCEPT !.bKeepAlive = keep, !.bSendEOF = over, !.bLength = length, !.more = m,
                    !.bChunked = k.bClient11, !.pending = TRUE, !.head = head]
    BY <1>3 DEF Answer
  <2>2. /\ keep \in BOOLEAN /\ over \in BOOLEAN /\ length \in BOOLEAN /\ m \in BOOLEAN
        /\ head \in BOOLEAN /\ (head <=> ~over)
        /\ keep => k.bKeepAlive /\ ~over
        /\ over <=> k.rcRespCode = "100"
        /\ length <=> k.bLength \/ SizeKnown(k.pRequest)
    BY <1>1 DEF Connection
  <2> HIDE DEF keep, over, length, head, lefts
  <2>3. /\ x \in Connection
        /\ x.bDead = k.bDead /\ x.timed = k.timed /\ x.pRequest = k.pRequest
        /\ x.rcRespCode = k.rcRespCode /\ x.bClient11 = k.bClient11 /\ x.asked = k.asked
        /\ x.applied = k.applied /\ x.open = k.open /\ x.bChunked = k.bClient11
        /\ x.bKeepAlive = keep /\ x.bSendEOF = over /\ x.bLength = length
        /\ x.pending = TRUE /\ x.head = head
    <3>1. x = [ulLockFlag |-> k.ulLockFlag, bDead |-> k.bDead, timed |-> k.timed,
               pRequest |-> k.pRequest, rcRespCode |-> k.rcRespCode, bSendEOF |-> over,
               bKeepAlive |-> keep, bChunked |-> k.bClient11,
               bClient11 |-> k.bClient11, bLength |-> length,
               more |-> m, pending |-> TRUE, head |-> head, asked |-> k.asked,
               applied |-> k.applied, open |-> k.open]
      BY <1>1, <2>1 DEF Connection
    <3> QED
      BY <1>1, <2>2, <3>1 DEF Connection
  <2> QED
    BY <1>1, <1>3, <2>2, <2>3
    DEF Sound, Legal, OneObject, PostSound, LengthSound, AnswerSound, FullAnswer, SizeKnown, Codes
<1> QED
  BY <1>2, <1>3

(* Reading for a connection leaves it sound, and its request open.         *)
LEMMA ReadIsSound ==
  ASSUME NEW k, Sound(k), k.rcRespCode = "NULL", NEW o \in ConnectionRead(k)
  PROVE  Sound(o.c) /\ (k.pRequest # "NULL" => o.c.pRequest = k.pRequest)
<1>1. Legal(k) /\ k \in Connection
  BY DEF Sound, Legal
<1>2. ASSUME NEW x, Legal(x), x.bDead \/ x.rcRespCode = "NULL"
      PROVE  Sound(x)
  BY <1>2 DEF Legal, Sound, AnswerSound
<1>3. CASE o \in Goes(Lost(k))
  <2>1. o.c \in Lost(k)
    BY <1>3 DEF Goes
  <2> QED
    BY <2>1, LostIsSound
<1>4. ASSUME NEW h \in Received(k)
      PROVE  Legal(h.c) /\ (k.pRequest # "NULL" => h.c.pRequest = k.pRequest)
  <2>1. CASE k.pRequest = "NULL"
    <3>1. h.c \in {k} \cup Header(k)
      BY <2>1 DEF Received, Goes
    <3> QED
      BY <1>1, <2>1, <3>1, HeaderIsLegal
  <2>2. CASE k.pRequest # "NULL"
    <3>1. h.c \in IF k.bChunked THEN Chunks(k) ELSE Body(k)
      BY <2>2 DEF Received, Goes, Stays
    <3> QED
      BY <1>1, <3>1, ChunksAreLegal, BodyIsLegal DEF StaysLegal
  <2> QED
    BY <2>1, <2>2
<1>5. ASSUME NEW h \in Received(k),
             o \in IF h.c.bDead \/ h.c.rcRespCode = "NULL" THEN {h} ELSE Stays(Answer(h.c))
      PROVE  Sound(o.c) /\ (k.pRequest # "NULL" => o.c.pRequest = k.pRequest)
  <2>1. CASE h.c.bDead \/ h.c.rcRespCode = "NULL"
    BY <1>2, <1>4, <1>5, <2>1
  <2>2. CASE ~(h.c.bDead \/ h.c.rcRespCode = "NULL")
    <3>1. o.c \in Answer(h.c)
      BY <1>5, <2>2 DEF Stays
    <3> QED
      BY <1>4, <2>2, <3>1, AnswerIsSound
  <2> QED
    BY <2>1, <2>2
<1> QED
  BY <1>3, <1>5 DEF ConnectionRead

(* What an object gives: nothing without room; its end with some bytes, but*)
(* for a log and a file; and the end of a page is the last of it.          *)
LEMMA ReadGives ==
  ASSUME NEW k \in Connection, NEW r \in CbRead(k)
  PROVE  /\ r.eof \in BOOLEAN /\ r.some \in BOOLEAN /\ r.left \in BOOLEAN
         /\ r.some => Room(k)
         /\ r.eof /\ Room(k) /\ k.pRequest \notin {"log", "file", "NULL"} => r.some
         /\ r.eof /\ Room(k) /\ k.pRequest \in {"post", "page"} => ~r.left
<1> DEFINE room == Room(k)
<1>1. room \in BOOLEAN
  BY DEF Room
<1>2. k.pRequest \in {"source", "post", "page", "file", "stream", "log", "meta", "NULL"}
  BY ConnectionsAssumption DEF Connection
<1>3. CASE k.pRequest \in {"source", "meta"}
  <2>1. r \in [eof : {TRUE}, some : {room}, left : {FALSE}]
    BY <1>3 DEF CbRead
  <2> QED
    BY <1>1, <1>3, <2>1
<1>4. CASE k.pRequest \in {"post", "page"} /\ room
  <2>1. PICK l \in BOOLEAN : r = [eof |-> ~l, some |-> TRUE, left |-> l]
    BY <1>4 DEF CbRead
  <2>2. CASE l = TRUE
    BY <1>4, <2>1, <2>2
  <2>3. CASE l = FALSE
    BY <1>4, <2>1, <2>3
  <2> QED
    BY <2>2, <2>3
<1>5. CASE k.pRequest \in {"post", "page"} /\ ~room
  <2>1. r \in [eof : {TRUE}, some : {FALSE}, left : {FALSE}]
    BY <1>5 DEF CbRead
  <2> QED
    BY <1>5, <2>1
<1>6. CASE k.pRequest = "stream"
  <2>1. \/ r \in [eof : {FALSE}, some : {room, FALSE}, left : BOOLEAN]
        \/ r \in [eof : {TRUE}, some : {room}, left : BOOLEAN]
    BY <1>6 DEF CbRead
  <2> QED
    BY <1>1, <1>6, <2>1
<1>7. CASE k.pRequest \in {"log", "file", "NULL"}
  <2>1. \/ r \in [eof : {FALSE}, some : {room}, left : BOOLEAN]
        \/ room /\ r \in [eof : {TRUE}, some : BOOLEAN, left : BOOLEAN]
    BY <1>1, <1>7 DEF CbRead
  <2> QED
    BY <1>1, <1>7, <2>1
<1> QED
  BY <1>1, <1>2, <1>3, <1>4, <1>5, <1>6, <1>7

(* An answer that is ready to go: while it has not ended, more of it is    *)
(* due if its length is known.                                             *)
Ready(k) ==
  ~k.bDead /\ k.pRequest # "NULL" /\ ~k.bSendEOF /\ k.bLength => k.more

(* What the object has given makes a sound connection ready.               *)
LEMMA FilledIsSound ==
  ASSUME NEW k, Sound(k), k.rcRespCode # "NULL", ~k.bSendEOF, NEW r \in CbRead(k)
  PROVE  /\ Sound(Filled(k, r)) /\ Ready(Filled(k, r))
         /\ Filled(k, r).pRequest = k.pRequest /\ Filled(k, r).rcRespCode = k.rcRespCode
         /\ Filled(k, r).bChunked = k.bChunked /\ Filled(k, r).asked = k.asked
         /\ Filled(k, r).bClient11 = k.bClient11
<1> DEFINE x == Filled(k, r)
           left == IF r.some THEN k.more /\ r.left ELSE k.more
           eof  == r.eof \/ (k.bLength /\ ~left)
           more == IF k.bLength THEN left ELSE k.more
           keep == k.bKeepAlive /\ ~(r.eof /\ ~k.bLength /\ ~k.bChunked)
           bytes == k.pending \/ r.some \/ (k.bChunked /\ eof)
<1>1. k \in Connection /\ Legal(k)
  BY DEF Sound, Legal
<1>2. x = [k EXCEPT !.bSendEOF = eof, !.head = FALSE, !.more = more, !.bKeepAlive = keep,
                    !.pending = bytes]
  BY DEF Filled
<1>3. /\ r.eof \in BOOLEAN /\ r.some \in BOOLEAN /\ r.left \in BOOLEAN
      /\ r.some => Room(k)
      /\ r.eof /\ Room(k) /\ k.pRequest \notin {"log", "file", "NULL"} => r.some
      /\ r.eof /\ Room(k) /\ k.pRequest \in {"post", "page"} => ~r.left
  BY <1>1, ReadGives
<1>4. /\ left \in BOOLEAN /\ eof \in BOOLEAN /\ more \in BOOLEAN /\ keep \in BOOLEAN
      /\ bytes \in BOOLEAN
  BY <1>1, <1>3 DEF Connection
<1>5. /\ ~k.bDead => k.pRequest # "NULL" /\ FullAnswer(k)
      /\ Room(k) <=> (k.bLength => k.more)
  BY <1>1 DEF Sound, AnswerSound, BareAnswer, Room
<1>6. ASSUME ~k.bDead
      PROVE  /\ eof /\ ~k.bLength /\ ~k.bChunked => ~keep
             /\ keep => k.bKeepAlive
             /\ eof /\ k.pRequest \in {"post", "page"} => ~more
             /\ eof /\ ~Unmarked(k) => bytes
             /\ ~eof /\ k.bLength => more
  <2> USE <1>1, <1>3, <1>5, <1>6
  <2>1. eof /\ ~k.bLength /\ ~k.bChunked => ~keep
    OBVIOUS
  <2>2. eof /\ k.pRequest \in {"post", "page"} => ~more
    BY DEF FullAnswer, SizeKnown, Connection
  <2>3. eof /\ ~Unmarked(k) => bytes
    BY DEF FullAnswer, SizeKnown, Connection, Legal, LengthSound, Unmarked
  <2> QED
    BY <2>1, <2>2, <2>3
<1> HIDE DEF left, eof, more, keep, bytes
<1>7. x = [ulLockFlag |-> k.ulLockFlag, bDead |-> k.bDead, timed |-> k.timed,
           pRequest |-> k.pRequest, rcRespCode |-> k.rcRespCode, bSendEOF |-> eof,
           bKeepAlive |-> keep, bChunked |-> k.bChunked, bClient11 |-> k.bClient11,
           bLength |-> k.bLength, more |-> more, pending |-> bytes, head |-> FALSE,
           asked |-> k.asked, applied |-> k.applied, open |-> k.open]
  BY <1>1, <1>2 DEF Connection
<1> HIDE DEF x
<1>8. x \in Connection
  BY <1>1, <1>4, <1>7 DEF Connection
<1>9. Sound(x) /\ Ready(x)
  BY <1>1, <1>4, <1>5, <1>6, <1>7, <1>8
  DEF Sound, Legal, OneObject, PostSound, LengthSound, AnswerSound, FullAnswer, Ready, Unmarked
<1> QED
  BY <1>7, <1>9 DEF x

(* What ends a kept connection's request marks the end of its answer.      *)
Kept(k, x) ==
  k.pRequest # "NULL" /\ x.pRequest = "NULL" =>
    \/ k.bClient11 \/ Unmarked(k)
    \/ SizeKnown(k.pRequest) /\ ~x.more

(* The same answer, further on.                                            *)
SameAnswer(k, x) ==
  /\ x.pRequest = k.pRequest /\ x.rcRespCode = k.rcRespCode /\ x.bChunked = k.bChunked
  /\ x.asked = k.asked /\ x.bClient11 = k.bClient11

(* Filling the buffer leaves the answer sound, and ready to go.            *)
LEMMA FillIsSound ==
  ASSUME NEW k, Sound(k), k.rcRespCode # "NULL", NEW x \in Fill(k)
  PROVE  Sound(x) /\ Ready(x) /\ SameAnswer(k, x)
<1>1. k \in Connection /\ Legal(k)
  BY DEF Sound, Legal
<1>2. CASE x = k /\ (k.bSendEOF \/ (k.pending /\ ~k.head))
  BY <1>1, <1>2 DEF Ready, Sound, AnswerSound, FullAnswer, SameAnswer
<1>3. CASE x = Dead(k)
  <2>1. Legal(x) /\ x.bDead /\ SameAnswer(k, x)
    BY <1>1, <1>3, PendingIsLegal DEF StaysLegal, Dead, Connection, SameAnswer
  <2> QED
    BY <2>1 DEF Legal, Sound, AnswerSound, Ready
<1>4. CASE ~k.bSendEOF /\ \E r \in CbRead(k) : x = Filled(k, r)
  <2>1. PICK r \in CbRead(k) : x = Filled(k, r)
    BY <1>4
  <2> QED
    BY <1>4, <2>1, FilledIsSound DEF SameAnswer
<1>5. CASE k.bSendEOF
  <2>1. Fill(k) = {k}
    BY <1>5 DEF Fill
  <2>2. x = k /\ (k.bSendEOF \/ (k.pending /\ ~k.head))
    BY <1>5, <2>1
  <2> QED
    BY <1>2, <2>2
<1>6. CASE ~k.bSendEOF
  <2> DEFINE full == IF k.pending /\ ~k.head THEN {k} ELSE {}
             fails == IF k.pRequest = "file" THEN {Dead(k)} ELSE {}
             gives == {Filled(k, r) : r \in CbRead(k)}
  <2>1. x \in full \/ x \in fails \/ x \in gives
    BY <1>6 DEF Fill
  <2>2. x \in full => x = k /\ (k.bSendEOF \/ (k.pending /\ ~k.head))
    OBVIOUS
  <2>3. x \in fails => x = Dead(k)
    OBVIOUS
  <2>4. x \in gives => \E r \in CbRead(k) : x = Filled(k, r)
    OBVIOUS
  <2> HIDE DEF full, fails, gives
  <2> QED
    BY <1>2, <1>3, <1>4, <1>6, <2>1, <2>2, <2>3, <2>4
<1> QED
  BY <1>5, <1>6

(* When all of an answer has been sent.                                    *)
LEMMA EndedIsSound ==
  ASSUME NEW k, Sound(k), k.rcRespCode # "NULL", ~k.bDead, k.bSendEOF
  PROVE  /\ Sound(Ended([k EXCEPT !.pending = FALSE]))
         /\ Kept(k, Ended([k EXCEPT !.pending = FALSE]))
<1> DEFINE sent == [k EXCEPT !.pending = FALSE]
           x == Ended(sent)
<1> SUFFICES Sound(x) /\ Kept(k, x)
  OBVIOUS
<1>1. k \in Connection /\ Legal(k)
  BY DEF Sound, Legal
<1>2. Legal(sent) /\ sent \in Connection
  BY <1>1, PendingIsLegal DEF StaysLegal, Legal
<1>3. /\ sent.pRequest = k.pRequest /\ sent.rcRespCode = k.rcRespCode /\ sent.more = k.more
      /\ sent.bKeepAlive = k.bKeepAlive /\ sent.open = k.open
  BY <1>1 DEF Connection
<1> HIDE DEF sent
<1>4. CASE k.rcRespCode = "100"
  <2>1. x = [sent EXCEPT !.rcRespCode = "NULL"]
    BY <1>3, <1>4 DEF Ended
  <2> QED
    BY <1>2, <1>3, <1>4, <2>1
    DEF Sound, Legal, OneObject, PostSound, LengthSound, AnswerSound, SizeKnown, Connection, Codes, Kept
<1>5. CASE k.rcRespCode # "100" /\ k.bKeepAlive
  <2>1. x = [sent EXCEPT !.pRequest = "NULL", !.open = @ - 1, !.rcRespCode = "NULL",
                   !.timed = TRUE, !.asked = "none", !.applied = "no"]
    BY <1>3, <1>5 DEF Ended
  <2>2. k.pRequest # "NULL" /\ FullAnswer(k)
    BY <1>5 DEF Sound, AnswerSound, BareAnswer
  <2>3. sent.open = 1
    BY <1>3, <2>2 DEF Sound, OneObject
  <2>4. Sound(x)
    <3>1. x = [ulLockFlag |-> sent.ulLockFlag, bDead |-> sent.bDead, timed |-> TRUE,
           pRequest |-> "NULL", rcRespCode |-> "NULL", bSendEOF |-> sent.bSendEOF,
           bKeepAlive |-> sent.bKeepAlive, bChunked |-> sent.bChunked,
           bClient11 |-> sent.bClient11, bLength |-> sent.bLength, more |-> sent.more,
           pending |-> sent.pending, head |-> sent.head, asked |-> "none", applied |-> "no",
           open |-> 0]
      <4>1. x = [sent EXCEPT !.pRequest = "NULL", !.open = 0, !.rcRespCode = "NULL",
                   !.timed = TRUE, !.asked = "none", !.applied = "no"]
        BY <2>1, <2>3
      <4> HIDE DEF x
      <4> QED
        BY <1>2, <4>1 DEF Connection
    <3> HIDE DEF x
    <3>2. x \in Connection
      BY <1>2, <3>1 DEF Connection, Codes, Framings
    <3> QED
      BY <3>1, <3>2 DEF Sound, OneObject, PostSound, LengthSound, AnswerSound
  <2>5. x.more = k.more
    BY <1>2, <1>3, <2>1 DEF Connection
  <2>6. Kept(k, x)
    BY <1>1, <1>5, <2>2, <2>5
    DEF Kept, FullAnswer, Unmarked, Legal, LengthSound, SizeKnown, Connection
  <2> QED
    BY <2>4, <2>6
<1>6. CASE k.rcRespCode # "100" /\ ~k.bKeepAlive
  <2>1. x = Dead(sent)
    BY <1>3, <1>6 DEF Ended
  <2> HIDE DEF x
  <2>2. StaysLegal(sent, x) /\ x.bDead
    BY <1>2, <2>1, PendingIsLegal DEF Dead, Connection
  <2> QED
    BY <1>3, <2>2 DEF StaysLegal, Sound, Legal, AnswerSound, Kept
<1> QED
  BY <1>1, <1>4, <1>5, <1>6 DEF Connection

(* Writing for a connection leaves it sound, and it keeps the connection   *)
(* only if the client can tell the end of the answer.                      *)
LEMMA WriteIsSound ==
  ASSUME NEW k, Sound(k), k.rcRespCode # "NULL", NEW o \in ConnectionWrite(k)
  PROVE  Sound(o.c) /\ Kept(k, o.c)
<1>1. PICK y \in Fill(k) : o \in Send(y)
  BY DEF ConnectionWrite
<1>2. Sound(y) /\ Ready(y) /\ SameAnswer(k, y)
  BY FillIsSound
<1>3. ASSUME NEW x, Kept(y, x)
      PROVE  Kept(k, x)
  BY <1>2, <1>3 DEF Kept, SameAnswer, Unmarked
<1>4. Kept(y, y)
  BY DEF Kept
<1>5. CASE o.c = y
  BY <1>2, <1>3, <1>4, <1>5
<1>6. CASE o.c = Dead(y)
  <2>1. StaysLegal(y, o.c)
    BY <1>2, <1>6, PendingIsLegal DEF Sound, Legal
  <2>2. o.c.bDead
    BY <1>2, <1>6 DEF Dead, Sound, Connection
  <2>3. Sound(o.c)
    BY <2>1, <2>2 DEF StaysLegal, Legal, Sound, AnswerSound
  <2>4. Kept(y, o.c)
    BY <2>1 DEF StaysLegal, Kept
  <2> QED
    BY <1>3, <2>3, <2>4
<1>7. CASE ~y.bDead /\ y.bSendEOF /\ o.c = Ended([y EXCEPT !.pending = FALSE])
  BY <1>2, <1>3, <1>7, EndedIsSound DEF SameAnswer
<1>8. CASE ~y.bDead /\ ~y.bSendEOF /\ o.c = [y EXCEPT !.pending = FALSE]
  <2>1. y \in Connection
    BY <1>2 DEF Sound
  <2>2. o.c = [ulLockFlag |-> y.ulLockFlag, bDead |-> y.bDead, timed |-> y.timed,
           pRequest |-> y.pRequest, rcRespCode |-> y.rcRespCode, bSendEOF |-> y.bSendEOF,
           bKeepAlive |-> y.bKeepAlive, bChunked |-> y.bChunked, bClient11 |-> y.bClient11,
           bLength |-> y.bLength, more |-> y.more, pending |-> FALSE, head |-> y.head,
           asked |-> y.asked, applied |-> y.applied, open |-> y.open]
    BY <1>8, <2>1 DEF Connection
  <2>3. o.c \in Connection
    BY <2>1, <2>2 DEF Connection
  <2> QED
    BY <1>2, <1>3, <1>8, <2>1, <2>2, <2>3
    DEF Sound, OneObject, PostSound, LengthSound, AnswerSound, FullAnswer, BareAnswer, Ready,
        SameAnswer, Kept
<1>9. \/ o.c = y \/ o.c = Dead(y)
      \/ ~y.bDead /\ y.bSendEOF /\ o.c = Ended([y EXCEPT !.pending = FALSE])
      \/ ~y.bDead /\ ~y.bSendEOF /\ o.c = [y EXCEPT !.pending = FALSE]
  <2> DEFINE sent == [y EXCEPT !.pending = FALSE]
  <2>1. Send(y) = CASE y.bDead -> Goes({y})
                    [] ~y.bDead /\ y.pending ->
                         Goes({Dead(y), y}) \cup Stays({y})
                           \cup IF y.bSendEOF THEN Goes({Ended(sent)}) ELSE Stays({sent})
                    [] OTHER -> Goes({y, Dead(y)})
    BY DEF Send
  <2>2. ASSUME NEW S, o \in Goes(S) \cup Stays(S)
        PROVE  o.c \in S
    BY <2>2 DEF Goes, Stays
  <2> HIDE DEF sent
  <2>3. CASE y.bDead
    BY <1>1, <2>1, <2>2, <2>3
  <2>4. CASE ~y.bDead /\ y.pending
    <3>1. o \in Goes({Dead(y), y}) \/ o \in Stays({y})
          \/ (y.bSendEOF /\ o \in Goes({Ended(sent)})) \/ (~y.bSendEOF /\ o \in Stays({sent}))
      BY <1>1, <2>1, <2>4
    <3> QED
      BY <2>2, <2>4, <3>1 DEF sent
  <2>5. CASE ~y.bDead /\ ~y.pending
    BY <1>1, <2>1, <2>2, <2>5
  <2> QED
    BY <2>3, <2>4, <2>5
<1> QED
  BY <1>5, <1>6, <1>7, <1>8, <1>9

----------------------------------------------------------------------------
(* The list                                                                *)

Distinct(s) == \A i, j \in DOMAIN s : s[i] = s[j] => i = j

(* Without repetitions the length of a list is the number of its members.  *)
LEMMA DistinctCount ==
  ASSUME NEW S, NEW s \in Seq(S), Distinct(s)
  PROVE  IsFiniteSet(ToSet(s)) /\ Cardinality(ToSet(s)) = Len(s)
<1>1. DOMAIN s = 1..Len(s) /\ Len(s) \in Nat
  OBVIOUS
<1>2. s \in Bijection(1..Len(s), ToSet(s))
  <2>1. s \in [1..Len(s) -> ToSet(s)]
    BY <1>1 DEF ToSet
  <2> QED
    BY <1>1, <2>1 DEF Bijection, Injection, Surjection, ToSet, Distinct, IsInjective
<1>3. IsFiniteSet(1..Len(s)) /\ Cardinality(1..Len(s)) = Len(s)
  BY <1>1, FS_Interval
<1>4. ExistsBijection(1..Len(s), ToSet(s))
  BY <1>2 DEF ExistsBijection
<1> QED
  BY <1>3, <1>4, FS_Bijection

(* A finite set of numbers is counted up to each of its members: every rank*)
(* from 1 to the number of them is that of exactly one.                    *)
LEMMA Ranks ==
  ASSUME NEW n \in Nat, NEW kept \in SUBSET (1..n)
  PROVE  LET rank(k) == Cardinality({j \in kept : j <= k})
         IN  /\ Cardinality(kept) \in Nat
             /\ \A k \in kept : rank(k) \in 1..Cardinality(kept)
             /\ \A k, l \in kept : rank(k) = rank(l) => k = l
             /\ \A r \in 1..Cardinality(kept) : \E k \in kept : rank(k) = r
<1> DEFINE upto(k) == {j \in kept : j <= k}
           rank(k) == Cardinality(upto(k))
           f == [k \in kept |-> rank(k)]
           m == Cardinality(kept)
<1>1. IsFiniteSet(kept) /\ m \in Nat
  <2>1. IsFiniteSet(1..n)
    BY FS_Interval
  <2>2. IsFiniteSet(kept)
    BY <2>1, FS_Subset
  <2> QED
    BY <2>2, FS_CardinalityType
<1>2. ASSUME NEW k \in kept
      PROVE  IsFiniteSet(upto(k)) /\ rank(k) \in 1..m
  <2>1. upto(k) \in SUBSET kept /\ k \in upto(k)
    OBVIOUS
  <2>2. IsFiniteSet(upto(k)) /\ rank(k) <= m
    BY <1>1, <2>1, FS_Subset
  <2>3. rank(k) \in Nat /\ rank(k) # 0
    BY <2>1, <2>2, FS_CardinalityType, FS_EmptySet
  <2> QED
    BY <1>1, <2>2, <2>3
<1>3. ASSUME NEW k \in kept, NEW l \in kept, k < l
      PROVE  rank(k) < rank(l)
  <2>1. upto(k) \in SUBSET upto(l) /\ upto(k) # upto(l)
    <3>1. k \in Int /\ l \in Int /\ kept \in SUBSET Int
      OBVIOUS
    <3>2. l \in upto(l) /\ l \notin upto(k)
      BY <1>3, <3>1
    <3>3. \A j \in upto(k) : j \in upto(l)
      BY <1>3, <3>1
    <3> QED
      BY <3>2, <3>3
  <2>2. rank(k) <= rank(l) /\ rank(k) # rank(l)
    BY <1>2, <2>1, FS_Subset
  <2> QED
    BY <1>2, <2>2
<1> HIDE DEF upto, rank
<1>4. \A k, l \in kept : rank(k) = rank(l) => k = l
  <2> SUFFICES ASSUME NEW k \in kept, NEW l \in kept, rank(k) = rank(l), k # l
               PROVE  FALSE
    OBVIOUS
  <2>1. k < l \/ l < k
    OBVIOUS
  <2> QED
    BY <1>2, <1>3, <2>1
<1>5. f \in Injection(kept, 1..m)
  BY <1>2, <1>4 DEF Injection, IsInjective
<1>6. IsFiniteSet(1..m) /\ Cardinality(1..m) = m
  BY <1>1, FS_Interval
<1>7. f \in Surjection(kept, 1..m)
  BY <1>5, <1>6, FS_Injection
<1>8. \A r \in 1..m : \E k \in kept : rank(k) = r
  BY <1>7 DEF Surjection
<1> QED
  BY <1>1, <1>2, <1>4, <1>8 DEF upto, rank

ListSound == psConnList \in Seq(Conns) /\ Distinct(psConnList)

(* Taking connections out of the list leaves a list of the others.         *)
LEMMA WithoutLeaves ==
  ASSUME ListSound, NEW D
  PROVE  /\ Without(D) \in Seq(Conns) /\ Distinct(Without(D))
         /\ ToSet(Without(D)) = Listed \ D
<1> DEFINE n       == Len(psConnList)
           kept    == {k \in DOMAIN psConnList : psConnList[k] \notin D}
           rank(k) == Cardinality({j \in kept : j <= k})
           m       == Cardinality(kept)
           at(r)   == CHOOSE k \in kept : rank(k) = r
           rest    == [r \in 1..m |-> psConnList[at(r)]]
<1>1. /\ n \in Nat /\ DOMAIN psConnList = 1..n
      /\ \A i \in 1..n : psConnList[i] \in Conns
      /\ \A i, j \in 1..n : psConnList[i] = psConnList[j] => i = j
  BY DEF ListSound, Distinct
<1>2. Without(D) = rest
  BY DEF Without
<1>3. /\ m \in Nat
      /\ \A k \in kept : rank(k) \in 1..m
      /\ \A k, l \in kept : rank(k) = rank(l) => k = l
      /\ \A r \in 1..m : \E k \in kept : rank(k) = r
  <2>1. kept \in SUBSET (1..n)
    BY <1>1
  <2> HIDE DEF n, kept
  <2> QED
    BY <1>1, <2>1, Ranks
<1>4. /\ \A k \in kept : k \in 1..n /\ psConnList[k] \notin D
      /\ \A k \in 1..n : psConnList[k] \notin D => k \in kept
  BY <1>1
<1> HIDE DEF kept, rank, n, m
<1>5. \A r \in 1..m : at(r) \in kept /\ rank(at(r)) = r
  BY <1>3
<1>6. \A k \in kept : at(rank(k)) = k
  BY <1>3, <1>5
<1> HIDE DEF at
<1>7. rest \in Seq(Conns) /\ Len(rest) = m /\ DOMAIN rest = 1..m
  BY <1>1, <1>3, <1>4, <1>5
<1>8. Distinct(rest)
  BY <1>1, <1>4, <1>5, <1>7 DEF Distinct
<1>9. ToSet(rest) = Listed \ D
  <2>1. ASSUME NEW r \in 1..m
        PROVE  rest[r] \in Listed \ D
    BY <1>1, <1>4, <1>5, <2>1 DEF Listed, ToSet
  <2>2. ASSUME NEW c \in Listed \ D
        PROVE  \E r \in 1..m : rest[r] = c
    <3>1. PICK k \in 1..n : psConnList[k] = c
      BY <1>1 DEF Listed, ToSet
    <3>2. k \in kept
      BY <1>4, <3>1
    <3> QED
      BY <1>3, <1>6, <3>1, <3>2
  <2> QED
    BY <1>7, <2>1, <2>2 DEF ToSet
<1> QED
  BY <1>2, <1>7, <1>8, <1>9

(* The connections: those of the list are sound, the others hold nothing.  *)
Held ==
  /\ conn \in [Conns -> Connection]
  /\ \A c \in Listed : Sound(conn[c])
  /\ \A c \in Conns \ Listed : conn[c].open = 0

(* Destroying connections of the list closes their requests and sockets.   *)
LEMMA DestroyLeaves ==
  ASSUME ListSound, Held, NEW D, D \subseteq Listed, Destroy(D), sockets \in Int
  PROVE  /\ ListSound' /\ Held' /\ Listed' = Listed \ D
         /\ sockets' - Len(psConnList)' = sockets - Len(psConnList)
         /\ \A c \in Listed' : conn'[c] = conn[c]
<1>1. Listed \subseteq Conns
  BY DEF ListSound, Listed, ToSet
<1>2. ListSound' /\ Listed' = Listed \ D
  BY WithoutLeaves DEF Destroy, ListSound, Listed
<1>3. \A c \in Listed' : conn'[c] = conn[c]
  BY <1>1, <1>2 DEF Destroy
<1>4. \A c \in Conns : conn'[c] \in Connection
  <2> TAKE c \in Conns
  <2>1. CASE c \in D /\ conn[c].pRequest # "NULL"
    <3>1. conn'[c] = [conn[c] EXCEPT !.open = @ - 1] /\ conn[c] \in Connection
      BY <2>1 DEF Destroy, Held
    <3>2. conn[c].open = 1
      BY <2>1 DEF Held, Sound, OneObject
    <3>3. conn'[c] = [conn[c] EXCEPT !.open = 0]
      BY <3>1, <3>2
    <3> QED
      BY <3>1, <3>3 DEF Connection
  <2>2. CASE ~(c \in D /\ conn[c].pRequest # "NULL")
    BY <2>2 DEF Destroy, Held
  <2> QED
    BY <2>1, <2>2
<1>5. \A c \in Conns \ Listed' : conn'[c].open = 0
  <2> TAKE c \in Conns \ Listed'
  <2>1. CASE c \in D /\ conn[c].pRequest # "NULL"
    <3>1. conn'[c] = [conn[c] EXCEPT !.open = @ - 1] /\ conn[c] \in Connection
      BY <2>1 DEF Destroy, Held
    <3>2. conn[c].open = 1
      BY <2>1 DEF Held, Sound, OneObject
    <3> QED
      BY <3>1, <3>2 DEF Connection
  <2>2. CASE c \in D /\ conn[c].pRequest = "NULL"
    BY <2>2 DEF Destroy, Held, Sound, OneObject
  <2>3. CASE c \notin D
    BY <1>2, <2>3 DEF Destroy, Held
  <2> QED
    BY <2>1, <2>2, <2>3
<1>6. Held'
  <2>1. conn' \in [Conns -> Connection]
    BY <1>4 DEF Destroy
  <2>2. \A c \in Listed' : Sound(conn'[c])
    BY <1>2, <1>3 DEF Held
  <2> QED
    BY <1>5, <2>1, <2>2 DEF Held
<1>7. /\ IsFiniteSet(Listed) /\ Cardinality(Listed) = Len(psConnList)
      /\ Cardinality(Listed') = Len(psConnList)'
  BY <1>2, DistinctCount DEF Listed, ListSound
<1>8. Cardinality(D) = Cardinality(Listed) - Cardinality(Listed \ D)
  <2>1. Listed \ (Listed \ D) = D /\ Listed \cap D = D
    OBVIOUS
  <2>2. Cardinality(Listed \ D) = Cardinality(Listed) - Cardinality(Listed \cap D)
    BY <1>7, FS_Difference
  <2>3. Cardinality(D) \in Nat /\ Cardinality(Listed) \in Nat
    BY <1>7, FS_Subset, FS_CardinalityType
  <2> QED
    BY <2>1, <2>2, <2>3
<1>9. Len(psConnList) \in Nat /\ Len(psConnList)' \in Nat
  BY <1>2 DEF ListSound
<1> QED
  BY <1>2, <1>3, <1>6, <1>7, <1>8, <1>9 DEF Destroy

----------------------------------------------------------------------------
(* The threads                                                             *)

Walking == {"look", "try", "serve"}
Turn    == {"sweep", "accept", "insert"}

ThreadsTyped ==
  /\ ulGetClientSocketsLock \in BOOLEAN
  /\ pc \in [Threads -> {"top", "sweep", "accept", "insert", "enter", "look", "try",
                         "serve", "exit", "gone"}]
  /\ psConnection \in [Threads -> Conns \cup {Nothing}]
  /\ accepted \in [Threads -> 0..1]
  /\ bReqStop \in BOOLEAN /\ finished \in BOOLEAN

(* One thread at a time has its turn to sweep and accept; only it has a    *)
(* socket that is not in the list yet; and no thread leaves before the end.*)
OneSweeps ==
  /\ \A t \in Threads : pc[t] \in Turn => ulGetClientSocketsLock
  /\ \A t, u \in Threads : pc[t] \in Turn /\ pc[u] \in Turn => t = u
  /\ \A t \in Threads : accepted[t] = IF pc[t] = "insert" THEN 1 ELSE 0
  /\ \A t \in Threads : pc[t] \in {"exit", "gone"} => bReqStop

Walks == \A t \in Threads : pc[t] \in Walking => psConnection[t] \in Listed

(* The sockets are those of the list and those on their way into it.       *)
Counted == sockets = Len(psConnList) + Cardinality({t \in Threads : accepted[t] = 1})

ConnectionsInv == ThreadsTyped /\ OneSweeps /\ Walks /\ ListSound /\ Held /\ Counted

(* The steps of a walk through the list.                                   *)
Walk(t) == Enter(t) \/ Look(t) \/ Try(t) \/ (\E stays \in BOOLEAN : Serve(t, stays))

(* What follows a connection in the list is in the list.                   *)
LEMMA NextIsListed ==
  ASSUME ListSound, NEW c
  PROVE  NextOf(c) \in Listed \cup {Nothing}
<1> DEFINE i == SelectInSeq(psConnList, LAMBDA x : x = c)
<1>1. NextOf(c) = IF i \in 1..Len(psConnList) - 1 THEN psConnList[i + 1] ELSE Nothing
  BY DEF NextOf
<1> HIDE DEF i
<1> QED
  BY <1>1 DEF ListSound, Listed, ToSet

(* A walk goes from one connection of the list to another, or out of it.   *)
LEMMA WalkMoves ==
  ASSUME ListSound, Walks, ThreadsTyped, NEW t \in Threads, Walk(t)
  PROVE  /\ pc[t] \in {"enter", "look", "try", "serve"}
         /\ UNCHANGED <<psConnList, accepts, bReqStop, finished>>
         /\ \E p \in {"top", "look", "try", "serve"}, c \in Conns \cup {Nothing} :
              /\ pc' = [pc EXCEPT ![t] = p]
              /\ psConnection' = [psConnection EXCEPT ![t] = c]
              /\ p \in Walking => c \in Listed
<1>1. Listed \subseteq Conns
  BY DEF ListSound, Listed, ToSet
<1>2. ASSUME NEW c \in Listed \cup {Nothing}, WalkTo(t, c)
      PROVE  \E p \in {"top", "look", "try", "serve"}, d \in Conns \cup {Nothing} :
              /\ pc' = [pc EXCEPT ![t] = p]
              /\ psConnection' = [psConnection EXCEPT ![t] = d]
              /\ p \in Walking => d \in Listed
  BY <1>1, <1>2, ConnectionsAssumption DEF WalkTo, Walking
<1>3. ASSUME NEW q \in {"try", "serve"}, pc[t] \in Walking, Goto(t, q)
      PROVE  \E p \in {"top", "look", "try", "serve"}, d \in Conns \cup {Nothing} :
              /\ pc' = [pc EXCEPT ![t] = p]
              /\ psConnection' = [psConnection EXCEPT ![t] = d]
              /\ p \in Walking => d \in Listed
  <2>1. psConnection[t] \in Listed
    BY <1>3 DEF Walks
  <2>2. psConnection' = [psConnection EXCEPT ![t] = psConnection[t]]
    BY <1>3 DEF Goto, ThreadsTyped
  <2> QED
    BY <1>1, <1>3, <2>1, <2>2 DEF Goto
<1>4. \A c : NextOf(c) \in Listed \cup {Nothing}
  BY NextIsListed
<1>5. CASE Enter(t)
  <2>1. psConnList # <<>> => Head(psConnList) \in Listed
    BY DEF ListSound, Listed, ToSet
  <2> QED
    BY <1>2, <1>5, <2>1 DEF Enter, conns
<1>6. CASE Look(t)
  BY <1>2, <1>3, <1>4, <1>6 DEF Look, conns, Walking
<1>7. CASE Try(t)
  BY <1>2, <1>3, <1>4, <1>7 DEF Try, Walking
<1>8. CASE \E stays \in BOOLEAN : Serve(t, stays)
  <2>1. PICK stays \in BOOLEAN : Serve(t, stays)
    BY <1>8
  <2>2. pc[t] = "serve" /\ psConnection[t] \in Listed
    BY <2>1 DEF Serve, Walks, Walking
  <2>3. \E c \in Listed \cup {Nothing} : WalkTo(t, c)
    BY <1>4, <2>1, <2>2 DEF Serve
  <2> QED
    BY <1>2, <2>1, <2>2, <2>3 DEF Serve
<1> QED
  BY <1>5, <1>6, <1>7, <1>8 DEF Walk

(* Where the threads are.                                                  *)
LEMMA ThreadsKept ==
  ASSUME ListSound, Walks, ThreadsTyped, OneSweeps, [Next]_vars
  PROVE  ThreadsTyped' /\ OneSweeps'
<1> USE DEF ThreadsTyped, OneSweeps, Turn
<1>1. ASSUME NEW t \in Threads, Begin(t)
      PROVE  ThreadsTyped' /\ OneSweeps'
  BY <1>1 DEF Begin, Goto
<1>2. ASSUME NEW t \in Threads, Sweep(t)
      PROVE  ThreadsTyped' /\ OneSweeps'
  BY <1>2 DEF Sweep, Goto
<1>3. ASSUME NEW t \in Threads, Accept(t)
      PROVE  ThreadsTyped' /\ OneSweeps'
  BY <1>3 DEF Accept, Goto
<1>4. ASSUME NEW t \in Threads, Insert(t)
      PROVE  ThreadsTyped' /\ OneSweeps'
  <2>1. /\ pc[t] = "insert" /\ accepted' = [accepted EXCEPT ![t] = 0]
        /\ ulGetClientSocketsLock' = FALSE /\ pc' = [pc EXCEPT ![t] = "enter"]
        /\ UNCHANGED <<psConnection, bReqStop, finished>>
    BY <1>4 DEF Insert, Goto
  <2>2. \A u \in Threads \ {t} : pc'[u] = pc[u] /\ pc[u] \notin Turn /\ accepted'[u] = accepted[u]
    BY <2>1
  <2>3. pc'[t] = "enter" /\ accepted'[t] = 0
    BY <2>1
  <2>4. pc' \in [Threads -> {"top", "sweep", "accept", "insert", "enter", "look", "try",
                         "serve", "exit", "gone"}]
    BY <2>1
  <2>5. accepted' \in [Threads -> 0..1]
    BY <2>1
  <2>6. ThreadsTyped'
    BY <2>1, <2>4, <2>5
  <2>7. OneSweeps'
    BY <2>1, <2>2, <2>3
  <2> QED
    BY <2>6, <2>7
<1>5. ASSUME NEW t \in Threads, Walk(t)
      PROVE  ThreadsTyped' /\ OneSweeps'
  BY <1>5, WalkMoves DEF accepts
<1>6. ASSUME NEW t \in Threads, SeesStop(t)
      PROVE  ThreadsTyped' /\ OneSweeps'
  BY <1>6 DEF SeesStop, Goto, accepts
<1>7. ASSUME NEW t \in Threads, Exit(t)
      PROVE  ThreadsTyped' /\ OneSweeps'
  BY <1>7 DEF Exit, Goto
<1>8. CASE Stop
  BY <1>8 DEF Stop, threads, accepts
<1>9. CASE Finish
  BY <1>9 DEF Finish, threads
<1>10. CASE UNCHANGED vars
  BY <1>10 DEF vars, threads, accepts
<1> QED
  BY <1>1, <1>2, <1>3, <1>4, <1>5, <1>6, <1>7, <1>8, <1>9, <1>10 DEF Next, Step, Walk

(* A flag that is taken or given back changes nothing else.                *)
LEMMA FlagIsSound ==
  ASSUME NEW k, Sound(k), NEW b \in BOOLEAN
  PROVE  /\ Sound([k EXCEPT !.ulLockFlag = b])
         /\ [k EXCEPT !.ulLockFlag = b].pRequest = k.pRequest
         /\ [k EXCEPT !.ulLockFlag = b].more = k.more
         /\ [k EXCEPT !.ulLockFlag = b].open = k.open
  BY DEF Sound, OneObject, PostSound, LengthSound, AnswerSound, FullAnswer, BareAnswer, Unmarked,
     SizeKnown, Connection

(* A service leaves its connection sound.                                  *)
LEMMA ServiceIsSound ==
  ASSUME NEW k, Sound(k),
         NEW o \in IF k.rcRespCode = "NULL" THEN ConnectionRead(k) ELSE ConnectionWrite(k)
  PROVE  Sound([o.c EXCEPT !.ulLockFlag = FALSE]) /\ Kept(k, [o.c EXCEPT !.ulLockFlag = FALSE])
<1>1. CASE k.rcRespCode = "NULL"
  <2>1. Sound(o.c) /\ Kept(k, o.c)
    BY <1>1, ReadIsSound DEF Kept
  <2> QED
    BY <2>1, FlagIsSound DEF Kept
<1>2. CASE k.rcRespCode # "NULL"
  <2>1. Sound(o.c) /\ Kept(k, o.c)
    BY <1>2, WriteIsSound
  <2> QED
    BY <2>1, FlagIsSound DEF Kept
<1> QED
  BY <1>1, <1>2

(* One connection of the list is served.                                   *)
Serves(c, x) == c \in Listed /\ UNCHANGED <<psConnList, sockets>> /\ conn' = [conn EXCEPT ![c] = x]

(* What a walk does to a connection.                                       *)
LEMMA WalkServes ==
  ASSUME ListSound, Held, Walks, ThreadsTyped, NEW t \in Threads, Walk(t)
  PROVE  \/ UNCHANGED <<conn, psConnList, sockets>>
         \/ \E c \in Conns : \E x : Serves(c, x) /\ Sound(x) /\ Kept(conn[c], x)
<1>1. Listed \subseteq Conns
  BY DEF ListSound, Listed, ToSet
<1>2. CASE Enter(t) \/ Look(t)
  BY <1>2 DEF Enter, Look, conns, accepts
<1>3. CASE Try(t)
  <2> DEFINE c == psConnection[t]
             x == [conn[c] EXCEPT !.ulLockFlag = TRUE]
  <2>1. c \in Listed /\ c \in Conns
    BY <1>1, <1>3 DEF Try, Walks, Walking
  <2>2. Sound(conn[c])
    BY <2>1 DEF Held
  <2>3. Sound(x) /\ Kept(conn[c], x)
    BY <2>2, FlagIsSound DEF Kept
  <2>4. Serves(c, x)
    BY <1>3, <2>1 DEF Try, Serves, accepts
  <2> HIDE DEF x
  <2> QED
    BY <2>1, <2>3, <2>4
<1>4. CASE \E stays \in BOOLEAN : Serve(t, stays)
  <2> DEFINE c == psConnection[t]
  <2>1. c \in Listed /\ c \in Conns
    BY <1>1, <1>4 DEF Serve, Walks, Walking
  <2>2. Sound(conn[c])
    BY <2>1 DEF Held
  <2>3. PICK o \in IF conn[c].rcRespCode = "NULL" THEN ConnectionRead(conn[c])
                                                  ELSE ConnectionWrite(conn[c]) :
          conn' = [conn EXCEPT ![c] = [o.c EXCEPT !.ulLockFlag = FALSE]]
    BY <1>4 DEF Serve
  <2> DEFINE x == [o.c EXCEPT !.ulLockFlag = FALSE]
  <2>4. Sound(x) /\ Kept(conn[c], x)
    BY <2>2, <2>3, ServiceIsSound
  <2>5. Serves(c, x)
    BY <1>4, <2>1, <2>3 DEF Serve, Serves, accepts
  <2> HIDE DEF x
  <2> QED
    BY <2>1, <2>4, <2>5
<1> QED
  BY <1>2, <1>3, <1>4 DEF Walk

(* What a service does to the list: nothing.                               *)
LEMMA ServesKeeps ==
  ASSUME ListSound, Held, NEW c \in Conns, NEW x, Serves(c, x), Sound(x)
  PROVE  ListSound' /\ Held' /\ Listed' = Listed
<1>1. Listed' = Listed /\ ListSound'
  BY DEF Serves, Listed, ListSound
<1>2. conn' \in [Conns -> Connection]
  BY DEF Held, Serves, Sound
<1>3. \A d \in Listed' : Sound(conn'[d])
  BY <1>1 DEF Held, Serves, ListSound, Listed, ToSet
<1>4. \A d \in Conns \ Listed' : conn'[d].open = 0
  BY <1>1 DEF Held, Serves
<1> QED
  BY <1>1, <1>2, <1>3, <1>4 DEF Held

(* What a connection's memory holds when the connection is new.            *)
LEMMA Renewed ==
  ASSUME NEW k \in Connection, k.open = 0, NEW x,
         x = [k EXCEPT !.pRequest = "NULL", !.rcRespCode = "NULL",
                !.ulLockFlag = FALSE, !.bDead = FALSE, !.timed = TRUE, !.pending = FALSE,
                !.asked = "none", !.applied = "no"]
  PROVE  x = [ulLockFlag |-> FALSE, bDead |-> FALSE, timed |-> TRUE,
           pRequest |-> "NULL", rcRespCode |-> "NULL", bSendEOF |-> k.bSendEOF,
           bKeepAlive |-> k.bKeepAlive, bChunked |-> k.bChunked, bClient11 |-> k.bClient11,
           bLength |-> k.bLength, more |-> k.more, pending |-> FALSE, head |-> k.head,
           asked |-> "none", applied |-> "no", open |-> 0]
BY DEF Connection

(* A new connection is sound, and first in the list.                       *)
LEMMA NewIsSound ==
  ASSUME ListSound, Held, NEW c \in Conns \ Listed, ConnectionNew(c)
  PROVE  /\ ListSound' /\ Held' /\ Listed' = Listed \cup {c}
         /\ Len(psConnList)' = Len(psConnList) + 1
         /\ \A d \in Listed : conn'[d] = conn[d]
<1> DEFINE k == conn[c]
<1>1. k \in Connection /\ k.open = 0 /\ conn \in [Conns -> Connection]
  BY DEF Held
<1>2. conn'[c] = [k EXCEPT !.pRequest = "NULL", !.rcRespCode = "NULL",
                !.ulLockFlag = FALSE, !.bDead = FALSE, !.timed = TRUE, !.pending = FALSE,
                !.asked = "none", !.applied = "no"]
  BY <1>1 DEF ConnectionNew
<1>3. /\ \A d \in Conns \ {c} : conn'[d] = conn[d]
      /\ psConnList' = <<c>> \o psConnList
  BY <1>1 DEF ConnectionNew
<1>4. conn'[c] = [ulLockFlag |-> FALSE, bDead |-> FALSE, timed |-> TRUE,
           pRequest |-> "NULL", rcRespCode |-> "NULL", bSendEOF |-> k.bSendEOF,
           bKeepAlive |-> k.bKeepAlive, bChunked |-> k.bChunked, bClient11 |-> k.bClient11,
           bLength |-> k.bLength, more |-> k.more, pending |-> FALSE, head |-> k.head,
           asked |-> "none", applied |-> "no", open |-> 0]
  BY <1>1, <1>2, Renewed
<1>5. conn'[c] \in Connection
  BY <1>1, <1>4 DEF Connection, Codes, Framings
<1>6. Sound(conn'[c])
  BY <1>4, <1>5 DEF Sound, OneObject, PostSound, LengthSound, AnswerSound
<1>7. /\ psConnList' \in Seq(Conns) /\ Len(psConnList)' = Len(psConnList) + 1
      /\ psConnList'[1] = c
      /\ \A i \in 1..Len(psConnList) : psConnList'[i + 1] = psConnList[i]
      /\ \A i \in 2..Len(psConnList) + 1 : psConnList'[i] = psConnList[i - 1]
  BY <1>3 DEF ListSound
<1>8. Listed' = Listed \cup {c}
  <2> DEFINE n == Len(psConnList)
  <2>1. /\ n \in Nat /\ DOMAIN psConnList = 1..n /\ DOMAIN psConnList' = 1..(n + 1)
        /\ Listed = {psConnList[i] : i \in 1..n} /\ Listed' = {psConnList'[i] : i \in 1..(n + 1)}
    <3>0. psConnList \in Seq(Conns)
      BY DEF ListSound
    <3>1. n \in Nat /\ DOMAIN psConnList = 1..n
      BY <3>0
    <3>2. DOMAIN psConnList' = 1..(n + 1)
      BY <1>7
    <3> HIDE DEF n
    <3>3. Listed = {psConnList[i] : i \in 1..n}
      BY <3>1 DEF Listed, ToSet
    <3>4. Listed' = {psConnList'[i] : i \in 1..(n + 1)}
      BY <3>2 DEF Listed, ToSet
    <3> QED
      BY <3>1, <3>2, <3>3, <3>4
  <2> HIDE DEF n
  <2>2. \A i \in 1..(n + 1) : psConnList'[i] \in Listed \cup {c}
    <3> TAKE i \in 1..(n + 1)
    <3>1. CASE i = 1
      BY <1>7, <3>1
    <3>2. CASE i # 1
      <4>1. psConnList'[i] = psConnList[i - 1] /\ i - 1 \in 1..n
        BY <1>7, <2>1, <3>2 DEF n
      <4> QED
        BY <2>1, <4>1
    <3> QED
      BY <3>1, <3>2
  <2>3. \A i \in 1..n : psConnList[i] \in Listed'
    <3> TAKE i \in 1..n
    <3>1. psConnList[i] = psConnList'[i + 1] /\ i + 1 \in 1..(n + 1)
      BY <1>7, <2>1 DEF n
    <3> QED
      BY <2>1, <3>1
  <2>4. c \in Listed'
    BY <1>7, <2>1
  <2> QED
    BY <2>1, <2>2, <2>3, <2>4
<1>9. Distinct(psConnList)'
  BY <1>7 DEF ListSound, Distinct, Listed, ToSet
<1>10. Listed \subseteq Conns \ {c}
  BY DEF ListSound, Listed, ToSet
<1>11. Held'
  <2>1. conn' \in [Conns -> Connection]
    BY <1>1, <1>5 DEF ConnectionNew
  <2>2. \A d \in Listed' : Sound(conn'[d])
    BY <1>3, <1>6, <1>8, <1>10 DEF Held
  <2>3. \A d \in Conns \ Listed' : conn'[d].open = 0
    BY <1>3, <1>8 DEF Held
  <2> QED
    BY <2>1, <2>2, <2>3 DEF Held
<1> QED
  BY <1>3, <1>7, <1>8, <1>9, <1>10, <1>11 DEF ListSound

----------------------------------------------------------------------------
(* The invariant                                                           *)

(* If nobody else has accepted a socket, what is accepted is one's own.    *)
LEMMA OnesOwn ==
  ASSUME NEW f \in [Threads -> 0..1], NEW t \in Threads, \A u \in Threads \ {t} : f[u] = 0
  PROVE  Cardinality({u \in Threads : f[u] = 1}) = f[t]
<1>1. CASE f[t] = 1
  <2>1. {u \in Threads : f[u] = 1} = {t}
    BY <1>1
  <2> QED
    BY <1>1, <2>1, FS_Singleton
<1>2. CASE f[t] = 0
  <2>1. {u \in Threads : f[u] = 1} = {}
    BY <1>2
  <2> QED
    BY <1>2, <2>1, FS_EmptySet
<1> QED
  BY <1>1, <1>2

(* The connections, the list and the sockets, and who stands where.        *)
ListInv == Walks /\ ListSound /\ Held /\ Counted

(* The counts are numbers, and what is listed is a connection.             *)
LEMMA Numbers ==
  ASSUME ListInv
  PROVE  sockets \in Nat /\ Len(psConnList) \in Nat /\ Listed \subseteq Conns
<1>1. Len(psConnList) \in Nat /\ Listed \subseteq Conns
  BY DEF ListInv, ListSound, Listed, ToSet
<1>2. Cardinality({t \in Threads : accepted[t] = 1}) \in Nat
  <2> DEFINE A == {t \in Threads : accepted[t] = 1}
  <2>1. IsFiniteSet(A)
    BY ConnectionsAssumption, FS_Subset
  <2> HIDE DEF A
  <2> QED
    BY <2>1, FS_CardinalityType DEF A
<1> QED
  BY <1>1, <1>2 DEF ListInv, Counted

(* Destroying connections while nobody walks.                              *)
LEMMA DestroyKeeps ==
  ASSUME ListInv, ThreadsTyped, NEW D, D \subseteq Listed, Destroy(D), UNCHANGED accepted,
         \A t \in Threads : pc'[t] \notin Walking
  PROVE  ListInv'
<1>1. sockets \in Nat /\ Len(psConnList) \in Nat
  BY Numbers
<1>2. /\ ListSound' /\ Held'
      /\ sockets' - Len(psConnList)' = sockets - Len(psConnList)
  BY <1>1, DestroyLeaves DEF ListInv
<1>3. Walks'
  BY DEF Walks
<1>4. Counted'
  <2> DEFINE a == Cardinality({t \in Threads : accepted[t] = 1})
  <2>1. sockets = Len(psConnList) + a /\ a' = a
    BY DEF ListInv, Counted
  <2>2. Len(psConnList)' \in Nat
    BY <1>2 DEF ListSound
  <2>3. a \in Int
    <3>1. IsFiniteSet({t \in Threads : accepted[t] = 1})
      BY ConnectionsAssumption, FS_Subset
    <3> QED
      BY <3>1, FS_CardinalityType
  <2>4. Cardinality(D) \in Int
    <3>1. IsFiniteSet(Listed)
      BY DistinctCount DEF ListInv, ListSound, Listed
    <3> QED
      BY <3>1, FS_Subset, FS_CardinalityType
  <2>5. sockets' \in Int
    BY <1>1, <2>4 DEF Destroy
  <2> HIDE DEF a
  <2>6. sockets' = Len(psConnList)' + a'
    BY <1>1, <1>2, <2>1, <2>2, <2>3, <2>5
  <2> QED
    BY <2>6 DEF Counted, a
<1> QED
  BY <1>2, <1>3, <1>4 DEF ListInv

(* Which connections a sweep takes out.                                    *)
LEMMA SweepClears ==
  ASSUME ListInv, NEW t \in Threads, Sweep(t)
  PROVE  \E D : /\ D \subseteq Listed /\ Destroy(D)
                /\ \A c \in D : conn[c].bDead \/ conn[c].timed
<1> DEFINE free == {c \in Listed : ~conn[c].ulLockFlag}
           dead == {c \in free : conn[c].bDead}
           old  == {c \in free : conn[c].timed}
<1>1. PICK D \in SUBSET old : Destroy(dead \cup D)
  BY DEF Sweep
<1>2. /\ dead \cup D \subseteq Listed
      /\ \A c \in dead \cup D : conn[c].bDead \/ conn[c].timed
  OBVIOUS
<1> QED
  BY <1>1, <1>2

(* Every step keeps the list and what it holds.                            *)
LEMMA SweepKeepsList ==
  ASSUME ListInv, ThreadsTyped, NEW t \in Threads, Sweep(t)
  PROVE  ListInv'
<1>1. PICK D : D \subseteq Listed /\ Destroy(D)
  BY SweepClears
<1>2. UNCHANGED accepted /\ \A u \in Threads : pc'[u] \notin Walking
  BY DEF Sweep, Goto, NoWalker, Walking, ThreadsTyped
<1> QED
  BY <1>1, <1>2, DestroyKeeps

(* The last thread to leave destroys all connections, and nobody walks.    *)
LEMMA ExitKeepsList ==
  ASSUME ListInv, ThreadsTyped, NEW t \in Threads, Exit(t)
  PROVE  ListInv'
<1>1. UNCHANGED accepted /\ \A u \in Threads : pc'[u] \notin Walking
  BY DEF Exit, Goto, NoWalker, Walking, ThreadsTyped
<1>2. CASE Destroy(Listed)
  BY <1>1, <1>2, DestroyKeeps
<1>3. CASE UNCHANGED <<conns, sockets>>
  <2>1. Listed' = Listed /\ ListSound' /\ Held' /\ Counted'
    BY <1>1, <1>3 DEF ListInv, ListSound, Held, Counted, Listed, conns
  <2> QED
    BY <1>1, <2>1 DEF ListInv, Walks
<1> QED
  BY <1>2, <1>3 DEF Exit

(* So does the end of the program.                                         *)
LEMMA FinishKeepsList ==
  ASSUME ListInv, ThreadsTyped, Finish
  PROVE  ListInv'
<1>1. UNCHANGED accepted /\ \A u \in Threads : pc'[u] \notin Walking
  BY DEF Finish, threads, Walking
<1> QED
  BY <1>1, DestroyKeeps DEF Finish

(* The socket that was accepted goes from its thread to a connection at    *)
(* the head of the list.                                                   *)
LEMMA InsertKeepsList ==
  ASSUME ListInv, ThreadsTyped, OneSweeps, NEW t \in Threads, Insert(t)
  PROVE  ListInv'
<1>1. \A u \in Threads : pc'[u] \notin Walking
  BY DEF Insert, Goto, NoWalker, Walking, ThreadsTyped
<1>2. /\ accepted[t] = 1 /\ accepted' = [accepted EXCEPT ![t] = 0]
      /\ \A u \in Threads \ {t} : accepted[u] = 0
  BY DEF Insert, OneSweeps, Turn
<1>3. /\ Cardinality({u \in Threads : accepted[u] = 1}) = 1
      /\ Cardinality({u \in Threads : accepted'[u] = 1}) = 0
  <2>1. accepted' \in [Threads -> 0..1] /\ accepted'[t] = 0 /\ \A u \in Threads \ {t} : accepted'[u] = 0
    BY <1>2 DEF ThreadsTyped
  <2>2. Cardinality({u \in Threads : accepted[u] = 1}) = accepted[t]
    BY <1>2, OnesOwn DEF ThreadsTyped
  <2>3. Cardinality({u \in Threads : accepted'[u] = 1}) = accepted'[t]
    BY <2>1, OnesOwn
  <2> QED
    BY <1>2, <2>1, <2>2, <2>3
<1>4. sockets = Len(psConnList) + 1 /\ Len(psConnList) \in Nat
  BY <1>3, Numbers DEF ListInv, Counted
<1>5. CASE \E c \in Conns \ Listed : ConnectionNew(c) /\ UNCHANGED sockets
  <2>1. ListSound' /\ Held' /\ Len(psConnList)' = Len(psConnList) + 1 /\ UNCHANGED sockets
    BY <1>5, NewIsSound DEF ListInv
  <2> QED
    BY <1>1, <1>3, <1>4, <2>1 DEF ListInv, Counted, Walks
<1>6. CASE UNCHANGED conns /\ sockets' = sockets - 1
  <2>1. Listed' = Listed /\ ListSound' /\ Held'
    BY <1>6 DEF ListInv, ListSound, Held, Listed, conns
  <2> QED
    BY <1>1, <1>3, <1>4, <1>6, <2>1 DEF ListInv, Counted, Walks, conns
<1> QED
  BY <1>5, <1>6 DEF Insert

(* A socket that is accepted is counted by its thread.                     *)
LEMMA AcceptKeepsList ==
  ASSUME ListInv, ThreadsTyped, OneSweeps, NEW t \in Threads, Accept(t)
  PROVE  ListInv'
<1>1. PICK n \in 0..1 :
        /\ accepted' = [accepted EXCEPT ![t] = n] /\ sockets' = sockets + n
        /\ Goto(t, IF n = 0 THEN "enter" ELSE "insert")
  BY DEF Accept
<1>2. pc[t] = "accept" /\ UNCHANGED conns
  BY DEF Accept
<1>3. accepted[t] = 0 /\ \A u \in Threads \ {t} : accepted[u] = 0
  BY <1>2 DEF OneSweeps, Turn
<1>4. /\ Cardinality({u \in Threads : accepted[u] = 1}) = 0
      /\ Cardinality({u \in Threads : accepted'[u] = 1}) = n
  <2>1. accepted' \in [Threads -> 0..1] /\ accepted'[t] = n /\ \A u \in Threads \ {t} : accepted'[u] = 0
    BY <1>1, <1>3 DEF ThreadsTyped
  <2>2. Cardinality({u \in Threads : accepted[u] = 1}) = accepted[t]
    BY <1>3, OnesOwn DEF ThreadsTyped
  <2>3. Cardinality({u \in Threads : accepted'[u] = 1}) = accepted'[t]
    BY <2>1, OnesOwn
  <2> QED
    BY <1>3, <2>1, <2>2, <2>3
<1>5. Listed' = Listed /\ ListSound' /\ Held' /\ psConnList' = psConnList
  BY <1>2 DEF ListInv, ListSound, Held, Listed, conns
<1>6. Walks'
  BY <1>1, <1>5 DEF ListInv, Walks, Walking, Goto, ThreadsTyped
<1>7. Counted'
  BY <1>1, <1>4, <1>5, Numbers DEF ListInv, Counted
<1> QED
  BY <1>5, <1>6, <1>7 DEF ListInv

(* A step of a walk is on a connection that is listed, and leaves it       *)
(* sound.                                                                  *)
LEMMA WalkKeepsList ==
  ASSUME ListInv, ThreadsTyped, NEW t \in Threads, Walk(t)
  PROVE  ListInv'
<1>1. ListSound' /\ Held' /\ Listed' = Listed
  <2>1. CASE UNCHANGED <<conn, psConnList, sockets>>
    BY <2>1 DEF ListInv, ListSound, Held, Listed
  <2>2. ASSUME NEW c \in Conns, NEW x, Serves(c, x), Sound(x)
        PROVE  ListSound' /\ Held' /\ Listed' = Listed
    BY <2>2, ServesKeeps DEF ListInv
  <2> QED
    BY <2>1, <2>2, WalkServes DEF ListInv
<1>2. UNCHANGED <<psConnList, accepts>>
  BY WalkMoves DEF ListInv
<1>3. Walks'
  <2>1. PICK p \in {"top", "look", "try", "serve"}, c \in Conns \cup {Nothing} :
              /\ pc' = [pc EXCEPT ![t] = p]
              /\ psConnection' = [psConnection EXCEPT ![t] = c]
              /\ p \in Walking => c \in Listed
    BY WalkMoves DEF ListInv
  <2> QED
    BY <1>1, <2>1 DEF ListInv, Walks, ThreadsTyped
<1> QED
  BY <1>1, <1>2, <1>3 DEF ListInv, Counted, accepts

(* The other steps concern neither connections nor sockets.                *)
LEMMA QuietKeepsList ==
  ASSUME ListInv, ThreadsTyped, UNCHANGED <<conns, accepted, sockets>>,
         \/ \E t \in Threads : Begin(t) \/ SeesStop(t)
         \/ UNCHANGED threads
  PROVE  ListInv'
<1>1. Listed' = Listed /\ ListSound' /\ Held' /\ Counted'
  BY DEF ListInv, ListSound, Held, Counted, Listed, conns
<1>2. Walks'
  BY <1>1 DEF ListInv, Walks, Walking, Begin, SeesStop, Goto, ThreadsTyped, threads
<1> QED
  BY <1>1, <1>2 DEF ListInv

(* Every step keeps the invariant, by the lemmas on its kinds.             *)
LEMMA NextKeepsInv ==
  ASSUME ConnectionsInv, [Next]_vars
  PROVE  ConnectionsInv'
<1> USE DEF ConnectionsInv
<1>1. ThreadsTyped' /\ OneSweeps'
  BY ThreadsKept
<1>2. ListInv
  BY DEF ListInv
<1>3. ListInv'
  <2>1. ASSUME NEW t \in Threads, Begin(t) \/ SeesStop(t)
        PROVE  ListInv'
    BY <1>2, <2>1, QuietKeepsList DEF Begin, SeesStop, accepts
  <2>2. ASSUME NEW t \in Threads,
               Sweep(t) \/ Accept(t) \/ Insert(t) \/ Walk(t) \/ Exit(t)
        PROVE  ListInv'
    BY <1>2, <2>2, SweepKeepsList, AcceptKeepsList, InsertKeepsList, WalkKeepsList, ExitKeepsList
  <2>3. CASE Finish
    BY <1>2, <2>3, FinishKeepsList
  <2>4. CASE Stop
    BY <1>2, <2>4, QuietKeepsList DEF Stop, accepts
  <2>5. CASE UNCHANGED vars
    BY <1>2, <2>5, QuietKeepsList DEF vars, accepts
  <2> QED
    BY <2>1, <2>2, <2>3, <2>4, <2>5 DEF Next, Step, Walk
<1> QED
  BY <1>1, <1>3 DEF ListInv

(* The invariant holds at first: the list is empty.                        *)
LEMMA InitInv ==
  ASSUME Init
  PROVE  ConnectionsInv
<1>1. psConnList = <<>> /\ Listed = {} /\ Len(psConnList) = 0
  BY DEF Init, Listed, ToSet
<1>2. PICK b \in BOOLEAN : conn = [c \in Conns |-> Junk(b)]
  BY DEF Init
<1>3. Junk(b) \in Connection /\ Junk(b).open = 0
  BY DEF Junk, Connection, Codes, Framings
<1>4. Held
  BY <1>1, <1>2, <1>3 DEF Held
<1>5. ListSound /\ Walks
  BY <1>1 DEF Init, ListSound, Distinct, Walks, Walking
<1>6. Counted
  <2>1. {t \in Threads : accepted[t] = 1} = {}
    BY DEF Init
  <2>2. Cardinality({t \in Threads : accepted[t] = 1}) = 0
    BY <2>1, FS_EmptySet
  <2>3. sockets = 0
    BY DEF Init
  <2> QED
    BY <1>1, <2>2, <2>3 DEF Counted
<1>7. ThreadsTyped /\ OneSweeps
  <2>1. /\ pc = [t \in Threads |-> "top"] /\ psConnection = [t \in Threads |-> Nothing]
        /\ accepted = [t \in Threads |-> 0]
        /\ ulGetClientSocketsLock = FALSE /\ bReqStop = FALSE /\ finished = FALSE
    BY DEF Init
  <2>2. ThreadsTyped
    <3>1. accepted \in [Threads -> 0..1] /\ psConnection \in [Threads -> Conns \cup {Nothing}]
      BY <2>1
    <3>2. pc \in [Threads -> {"top", "sweep", "accept", "insert", "enter", "look", "try",
                         "serve", "exit", "gone"}]
      BY <2>1
    <3> QED
      BY <2>1, <3>1, <3>2 DEF ThreadsTyped
  <2>3. \A t \in Threads : pc[t] = "top" /\ accepted[t] = 0
    BY <2>1
  <2> QED
    BY <2>2, <2>3 DEF OneSweeps, Turn
<1> QED
  BY <1>4, <1>5, <1>6, <1>7 DEF ConnectionsInv

(* So it holds in every state.                                             *)
LEMMA InvHolds == Spec => []ConnectionsInv
<1>1. Init => ConnectionsInv
  BY InitInv
<1>2. ConnectionsInv /\ [Next]_vars => ConnectionsInv'
  BY NextKeepsInv
<1> QED
  BY <1>1, <1>2, PTL DEF Spec

(* Requests and sockets are opened and closed once each, and walks stand on*)
(* connections of the list (_ConnectionDestroy, _ConnectionNew, _ReqThread)*)
(* however many threads serve and sweep.                                   *)
THEOREM OpenedAndClosed == Spec => []Balanced
<1>1. ConnectionsInv => Balanced
  <2> SUFFICES ASSUME ConnectionsInv
               PROVE  Balanced
    OBVIOUS
  <2>1. \A t \in Threads : pc[t] \in {"look", "try", "serve"} => psConnection[t] \in Listed
    BY DEF ConnectionsInv, Walks, Walking
  <2>2. ASSUME NEW c \in Conns
        PROVE  (conn[c].open = 1) <=> (c \in Listed /\ conn[c].pRequest # "NULL")
    BY DEF ConnectionsInv, Held, Sound, OneObject
  <2> QED
    BY <2>1, <2>2 DEF ConnectionsInv, Counted, Balanced
<1> QED
  BY <1>1, InvHolds, PTL

(* A posted configuration whose end shows is applied once, and as a whole. *)
THEOREM PostsAppliedWhole == Spec => []AppliedWhole
<1>1. ConnectionsInv => AppliedWhole
  BY DEF ConnectionsInv, Held, Sound, PostSound, AppliedWhole
<1> QED
  BY <1>1, InvHolds, PTL

(* An answer that has ended has bytes whose sending ends it.               *)
THEOREM AnswersEnd == Spec => []EndsSeen
<1>1. ConnectionsInv => EndsSeen
  <2> SUFFICES ASSUME ConnectionsInv, NEW c \in Listed, conn[c].rcRespCode # "NULL",
                      conn[c].bSendEOF, ~conn[c].bDead, ~Unmarked(conn[c])
               PROVE  conn[c].pending
    BY DEF EndsSeen
  <2>1. AnswerSound(conn[c])
    BY DEF ConnectionsInv, Held, Sound
  <2> QED
    BY <2>1 DEF AnswerSound, BareAnswer, FullAnswer
<1> QED
  BY <1>1, InvHolds, PTL

(* While the server runs, only what is dead or has no request goes.        *)
THEOREM RequestsServed == Spec => ServedToTheEnd
<1> DEFINE Goers == ~bReqStop => \A c \in Listed \ ToSet(psConnList') :
                       conn[c].bDead \/ conn[c].pRequest = "NULL"
<1>1. ConnectionsInv /\ [Next]_vars => [Goers]_vars
  <2> SUFFICES ASSUME ConnectionsInv, Next, ~bReqStop,
                      NEW c \in Listed, c \notin ToSet(psConnList')
               PROVE  conn[c].bDead \/ conn[c].pRequest = "NULL"
    OBVIOUS
  <2> USE DEF ConnectionsInv
  <2>1. ListInv
    BY DEF ListInv
  <2>2. CASE \E t \in Threads : Sweep(t)
    <3>1. PICK t \in Threads : Sweep(t)
      BY <2>2
    <3>2. PICK D : /\ D \subseteq Listed /\ Destroy(D)
                   /\ \A d \in D : conn[d].bDead \/ conn[d].timed
      BY <2>1, <3>1, SweepClears
    <3>3. ToSet(psConnList') = Listed \ D
      BY <3>2, WithoutLeaves DEF Destroy
    <3> QED
      BY <3>2, <3>3 DEF Held, Sound, OneObject
  <2>3. CASE \E t \in Threads : Insert(t)
    <3>1. ASSUME NEW d \in Conns \ Listed, ConnectionNew(d)
          PROVE  FALSE
      BY <3>1, NewIsSound DEF Listed
    <3>2. ~ UNCHANGED conns
      BY DEF conns, Listed
    <3> QED
      BY <2>3, <3>1, <3>2 DEF Insert
  <2>4. CASE \E t \in Threads : Exit(t)
    BY <2>4 DEF Exit, OneSweeps
  <2>5. CASE Finish
    BY <2>5 DEF Finish
  <2>6. psConnList' # psConnList
    BY DEF Listed
  <2>7. ASSUME NEW t \in Threads, Walk(t)
        PROVE  FALSE
    BY <2>6, <2>7, WalkMoves
  <2>8. ASSUME NEW t \in Threads, Begin(t) \/ Accept(t) \/ SeesStop(t)
        PROVE  FALSE
    BY <2>6, <2>8 DEF Begin, Accept, SeesStop, conns
  <2>9. ~Stop
    BY <2>6 DEF Stop, conns
  <2> QED
    BY <2>2, <2>3, <2>4, <2>5, <2>7, <2>8, <2>9 DEF Next, Step, Walk
<1> QED
  BY <1>1, InvHolds, PTL DEF Spec, ServedToTheEnd

(* A connection is kept for the next request only if the client can tell   *)
(* where the answer ended.                                                 *)
THEOREM KeptIfDelimited == Spec => KeptIsDelimited
<1> DEFINE Keeps == \A c \in Listed \cap ToSet(psConnList') :
                      conn[c].open = 1 /\ conn'[c].open = 0 =>
                        \/ conn[c].bClient11 \/ Unmarked(conn[c])
                        \/ SizeKnown(conn[c].pRequest) /\ ~conn'[c].more
<1>1. ConnectionsInv /\ [Next]_vars => [Keeps]_vars
  <2> SUFFICES ASSUME ConnectionsInv, Next, NEW c \in Listed, c \in ToSet(psConnList'),
                      conn[c].open = 1, conn'[c].open = 0
               PROVE  \/ conn[c].bClient11 \/ Unmarked(conn[c])
                      \/ SizeKnown(conn[c].pRequest) /\ ~conn'[c].more
    OBVIOUS
  <2> USE DEF ConnectionsInv
  <2>1. ListInv /\ sockets \in Int
    BY Numbers DEF ListInv
  <2>2. Sound(conn[c]) /\ c \in Conns
    BY Numbers, <2>1 DEF Held
  <2>3. conn'[c] # conn[c]
    OBVIOUS
  <2>4. ASSUME NEW D, D \subseteq Listed, Destroy(D)
        PROVE  FALSE
    BY <2>1, <2>3, <2>4, DestroyLeaves DEF Listed
  <2>5. ASSUME NEW t \in Threads, Walk(t)
        PROVE  \/ conn[c].bClient11 \/ Unmarked(conn[c])
               \/ SizeKnown(conn[c].pRequest) /\ ~conn'[c].more
    <3>1. PICK d \in Conns : \E x : Serves(d, x) /\ Sound(x) /\ Kept(conn[d], x)
      BY <2>3, <2>5, WalkServes
    <3>2. PICK x : Serves(d, x) /\ Sound(x) /\ Kept(conn[d], x)
      BY <3>1
    <3>3. d = c /\ conn'[c] = x
      BY <2>2, <2>3, <3>2 DEF Serves, Held
    <3>4. conn[c].pRequest # "NULL" /\ x.pRequest = "NULL"
      BY <2>2, <3>2, <3>3 DEF Sound, OneObject
    <3> QED
      BY <3>2, <3>3, <3>4 DEF Kept
  <2>6. ASSUME NEW t \in Threads, Insert(t)
        PROVE  FALSE
    BY <2>3, <2>6, NewIsSound DEF Insert, conns
  <2>7. ASSUME NEW t \in Threads, Sweep(t)
        PROVE  FALSE
    BY <2>1, <2>4, <2>7, SweepClears
  <2>8. ASSUME NEW t \in Threads, Exit(t)
        PROVE  FALSE
    BY <2>3, <2>4, <2>8 DEF Exit, conns
  <2>9. ~Finish
    BY <2>4 DEF Finish
  <2>10. ASSUME NEW t \in Threads, Begin(t) \/ Accept(t) \/ SeesStop(t)
        PROVE  FALSE
    BY <2>3, <2>10 DEF Begin, Accept, SeesStop, conns
  <2>11. ~Stop
    BY <2>3 DEF Stop, conns
  <2> QED
    BY <2>5, <2>6, <2>7, <2>8, <2>9, <2>10, <2>11 DEF Next, Step, Walk
<1> QED
  BY <1>1, InvHolds, PTL DEF Spec, KeptIsDelimited

(* The variables keep to their ranges: no more connections are in the list,*)
(* and no more sockets open, than there is room for.                       *)
THEOREM ConnectionsTyped == Spec => []TypeOK
<1>1. ConnectionsInv => TypeOK
  <2> SUFFICES ASSUME ConnectionsInv
               PROVE  TypeOK
    OBVIOUS
  <2> USE DEF ConnectionsInv
  <2>1. ListInv
    BY DEF ListInv
  <2>2. sockets \in Nat /\ Len(psConnList) \in Nat /\ Listed \subseteq Conns
    BY <2>1, Numbers
  <2>3. Cardinality(Conns) \in Nat /\ Len(psConnList) <= Cardinality(Conns)
    <3>1. Cardinality(Listed) = Len(psConnList)
      BY DistinctCount DEF ListSound, Listed
    <3> QED
      BY <2>2, <3>1, ConnectionsAssumption, FS_Subset, FS_CardinalityType
  <2>4. psConnList \in BoundedSeq(Conns, Cardinality(Conns))
    <3>1. psConnList \in [1..Len(psConnList) -> Conns]
      BY DEF ListSound
    <3> QED
      BY <2>2, <2>3, <3>1 DEF BoundedSeq, SeqOf
  <2>5. Cardinality({t \in Threads : accepted[t] = 1}) \in 0..1
    <3>1. CASE \E t \in Threads : accepted[t] = 1
      <4>1. PICK t \in Threads : accepted[t] = 1
        BY <3>1
      <4>2. \A u \in Threads \ {t} : accepted[u] = 0
        BY <4>1 DEF ThreadsTyped, OneSweeps, Turn
      <4> QED
        BY <4>1, <4>2, OnesOwn DEF ThreadsTyped
    <3>2. CASE ~ \E t \in Threads : accepted[t] = 1
      <4>1. {t \in Threads : accepted[t] = 1} = {}
        BY <3>2
      <4>2. Cardinality({t \in Threads : accepted[t] = 1}) = 0
        BY <4>1, FS_EmptySet
      <4> QED
        BY <4>2
    <3> QED
      BY <3>1, <3>2
  <2>6. sockets \in 0..Cardinality(Conns) + 1
    BY <2>2, <2>3, <2>5 DEF Counted
  <2> QED
    BY <2>4, <2>6 DEF TypeOK, ThreadsTyped, Held
<1> QED
  BY <1>1, InvHolds, PTL
=============================================================================
