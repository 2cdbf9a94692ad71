----------------------------- MODULE OGGFormat -----------------------------
(***************************************************************************)
(* The logical streams of an OGG source (src/src/format.c 752-1195).  Each *)
(* begins with header pages, without which its other pages cannot be       *)
(* decoded.  The writer keeps them apart and puts them into the ring when  *)
(* they are complete; a listener that comes later gets those of all        *)
(* current streams first, and then reads the ring.  A stream is shared     *)
(* between the writer's vector and those of the listeners, and counted.    *)
(*                                                                         *)
(* The ring is the subject of BufRing: here it is the sequence of all      *)
(* pages stored, and a position in it is a number of pages.  How a page is *)
(* put together from what arrives is left out: one arrives at a time.      *)
(*                                                                         *)
(* The writer is one thread (the owner's), and a listener's calls follow   *)
(* one another; hSVecMtx and the mutex of a stream make each a step of     *)
(* what the code does under them.                                          *)
(***************************************************************************)
EXTENDS Integers, FiniteSets, SequencesExt

CONSTANTS
  OGGClients,     (* the listeners *)
  Serials,     (* the serial numbers the encoder uses *)
  HdrPages,    (* header pages of a stream: 3 *)
  MaxStreams,  (* MAX_OGG_LOGICAL_STREAMS_NUMB: 32 *)
  MaxPages     (* bound: how many pages arrive *)

ASSUME OGGAssumption ==
  /\ IsFiniteSet(OGGClients)
  /\ HdrPages \in Nat \ {0, 1} /\ MaxPages \in Nat
  /\ MaxStreams \in Nat \ {0}

VARIABLES
  arrived,   (* history: how many pages have *)
  stored,    (* the pages in the ring: of which stream, and if its headers *)
  ulSyncPos, (* where a new listener starts, or NoPos *)
  stream,    (* the streams, in the order they began; ulUsed = 0 is freed *)
  sSVec,     (* the writer's vector: the current streams *)
  ending,    (* the stream that the writer has just taken out, or none *)
  ogg,       (* the listeners *)
  mixed      (* history: one of several streams in a vector was taken out *)

oggvars == <<arrived, stored, ulSyncPos, stream, sSVec, ending, ogg, mixed>>

NoPos    == -1
NoStream == 0
PtrSize  == 4   (* bytes of a pointer, on OS/2 *)

(* of a listener: where it is; its vector, the next header page and its    *)
(* place in the ring; and as history: whether it came when there was no    *)
(* place to start, the streams whose headers it has, those it has other    *)
(* pages of, and those that ended while it was joining.                    *)
Absent == [pc |-> "away", sSVec |-> <<>>, ulHdrPage |-> 0, ulReadPos |-> NoPos,
           unplaced |-> FALSE, known |-> {}, heard |-> {}, parted |-> {}]

OGGInit ==
  /\ arrived = 0 /\ stored = <<>> /\ ulSyncPos = NoPos
  /\ stream = <<>> /\ sSVec = <<>> /\ ending = NoStream
  /\ ogg = [c \in OGGClients |-> Absent] /\ mixed = FALSE

Filled(s) == stream[s].ulPagesCount = HdrPages

(* The streams after vector v has counted itself in or out by d (once, if  *)
(* a removal has left it an entry twice).                                  *)
Counted(v, d) == [s \in DOMAIN stream |->
  [stream[s] EXCEPT !.ulUsed = @ + (IF Contains(v, s) THEN d ELSE 0)]]

(* __OGGStreamVecDel of entry i: what may be left of vector v.  The copy   *)
(* that should close the gap takes a count of entries, the removed one not *)
(* among them, for a count of bytes.  It moves a quarter of them by one    *)
(* place, and of a last one a part of its pointer: that entry may then be  *)
(* any stream, still there or not (that it be no stream, and the program   *)
(* end of it, is left out).  The rest stay where they are, the last one is *)
(* cut off, and the removed one, if nothing moved, is not.  For i = Len(v) *)
(* the count is -1, 2^32-1 bytes are copied, and the program ends.         *)
VecDel(v, i) ==
  LET bytes == Len(v) - 1 - i
      moved == i + bytes \div PtrSize  \* the first place nothing moves to whole
  IN  {w \in [1..(Len(v) - 1) -> DOMAIN stream] : \A j \in DOMAIN w :
         /\ j \in i..(moved - 1) => w[j] = v[j + 1]
         /\ j < i \/ j > moved \/ (j = moved /\ bytes % PtrSize = 0) => w[j] = v[j]}
Survives(v, i) == Len(v) = 1 \/ i < Len(v)

Find(serial) == {i \in DOMAIN sSVec : stream[sSVec[i]].lSerialNumber = serial}

Arrive == arrived < MaxPages /\ arrived' = arrived + 1

Store(s, head) == Append(stored, [stream |-> s, head |-> head])

----------------------------------------------------------------------------
(* The writer: _OGGWrite                                                   *)

(* __OGGBeginStream, unless its number is in use or the vector full        *)
BeginStream(serial) ==
  LET s == Len(stream) + 1
  IN  /\ ending = NoStream /\ Arrive
      /\ Find(serial) = {} /\ Len(sSVec) < MaxStreams
      /\ stream' = Append(stream, [lSerialNumber |-> serial, ulUsed |-> 1, ulPagesCount |-> 1])
      /\ sSVec' = Append(sSVec, s)
      /\ UNCHANGED <<stored, ulSyncPos, ending, ogg, mixed>>

(* mutant: the headers are not put into the ring *)
CommitHeaderKept(s) ==
  /\ ending = NoStream /\ Arrive /\ ~Filled(s)
  /\ stream' = [stream EXCEPT ![s].ulPagesCount = @ + 1]
  /\ UNCHANGED <<stored, ulSyncPos, sSVec, ending, ogg, mixed>>

(* __OGGCommitPage, __OGGStreamAddPage: a header page; with the last one   *)
(* all go into the ring, where no new listener starts.                     *)
CommitHeader(s) ==
  /\ ending = NoStream /\ Arrive /\ ~Filled(s)
  /\ stream' = [stream EXCEPT ![s].ulPagesCount = @ + 1]
  /\ stored' = IF stream[s].ulPagesCount + 1 = HdrPages THEN Store(s, TRUE) ELSE stored
  /\ UNCHANGED <<ulSyncPos, sSVec, ending, ogg, mixed>>

(* __OGGCommitPage: any other page                                         *)
CommitData(s) ==
  /\ ending = NoStream /\ Arrive /\ Filled(s)
  /\ stored' = Store(s, FALSE) /\ ulSyncPos' = Len(stored')
  /\ UNCHANGED <<stream, sSVec, ending, ogg, mixed>>

Joining == {c \in OGGClients : ogg[c].pc = "join"}

(* the streams in v are no longer there for those who are joining          *)
PartFrom(v) ==
  [c \in OGGClients |-> IF c \in Joining THEN [ogg[c] EXCEPT !.parted = @ \cup ToSet(v)] ELSE ogg[c]]

(* mutant: the vector's count is not given back *)
EndStreamCounted(i) ==
  /\ ending = NoStream /\ Arrive /\ Survives(sSVec, i)
  /\ ending' = sSVec[i] /\ mixed' = (mixed \/ Len(sSVec) > 1)
  /\ sSVec' \in VecDel(sSVec, i)
  /\ ogg' = PartFrom(<<sSVec[i]>>)
  /\ UNCHANGED <<stored, ulSyncPos, stream>>

(* __OGGEndStream: the last page of a stream, which is taken out of the    *)
(* vector ...                                                              *)
EndStream(i) ==
  /\ ending = NoStream /\ Arrive /\ Survives(sSVec, i)
  /\ ending' = sSVec[i] /\ mixed' = (mixed \/ Len(sSVec) > 1)
  /\ stream' = Counted(<<sSVec[i]>>, -1)
  /\ sSVec' \in VecDel(sSVec, i)
  /\ ogg' = PartFrom(<<sSVec[i]>>)
  /\ UNCHANGED <<stored, ulSyncPos>>

(* ... before the page is stored.                                          *)
StoreLast ==
  /\ ending # NoStream
  /\ stored' = Store(ending, FALSE) /\ ulSyncPos' = Len(stored')
  /\ ending' = NoStream
  /\ UNCHANGED <<arrived, stream, sSVec, ogg, mixed>>

(* _OGGReset, when the source has lost its connection and waits, or has no *)
(* listeners                                                               *)
Reset ==
  /\ ending = NoStream /\ sSVec # <<>>
  /\ stream' = Counted(sSVec, -1)
  /\ sSVec' = <<>> /\ ogg' = PartFrom(sSVec)
  /\ UNCHANGED <<arrived, stored, ulSyncPos, ending, mixed>>

OGGWrite ==
  \/ \E serial \in Serials : BeginStream(serial)
  \/ \E i \in DOMAIN sSVec : CommitHeader(sSVec[i]) \/ CommitData(sSVec[i]) \/ EndStream(i)
  \/ StoreLast \/ Reset

----------------------------------------------------------------------------
(* The listeners                                                           *)

Writer == <<arrived, stored, ulSyncPos, sSVec, ending>>

(* _OGGClientNew takes a place in the ring (hmtxClientsList keeps others   *)
(* from joining meanwhile) ...                                             *)
OGGClientNew(c) ==
  /\ ogg[c].pc = "away" /\ Joining = {}
  /\ ogg' = [ogg EXCEPT ![c] = [Absent EXCEPT !.pc = "join", !.ulReadPos = ulSyncPos,
                                              !.unplaced = ulSyncPos = NoPos,
                                              !.parted = {ending} \ {NoStream}]]
  /\ UNCHANGED <<Writer, stream, mixed>>

(* The entries of vector v that have all their headers, in their order.    *)
IsFilledOf(w, v) ==
  /\ ToSet(w) = {s \in ToSet(v) : Filled(s)}
  /\ \A i, j \in DOMAIN w : i < j =>
       \E k, l \in DOMAIN v : k < l /\ v[k] = w[i] /\ v[l] = w[j]

(* ... and then the streams that have all their headers.                   *)
OGGJoin(c) ==
  /\ ogg[c].pc = "join"
  /\ \E filled \in SeqOf(ToSet(sSVec), Len(sSVec)) :
       /\ IsFilledOf(filled, sSVec)
       /\ stream' = Counted(filled, 1)
       /\ ogg' = [ogg EXCEPT ![c].pc = "idle", ![c].sSVec = filled]
  /\ UNCHANGED <<Writer, mixed>>

First(c) == ogg[c].sSVec[1]
Heading(c) == ogg[c].pc = "idle" /\ ogg[c].sSVec # <<>>
Playing(c) == ogg[c].pc = "idle" /\ ogg[c].sSVec = <<>>

(* _OGGRead: a header page of the first stream ...                         *)
ReadHeader(c) ==
  /\ Heading(c) /\ ogg[c].ulHdrPage < stream[First(c)].ulPagesCount
  /\ ogg' = [ogg EXCEPT ![c].ulHdrPage = @ + 1,
                        ![c].known = IF ogg[c].ulHdrPage + 1 = HdrPages THEN @ \cup {First(c)} ELSE @]
  /\ UNCHANGED <<Writer, stream, mixed>>

(* ... or on to the next stream                                            *)
ReadHeaderEnd(c) ==
  /\ Heading(c) /\ ogg[c].ulHdrPage = stream[First(c)].ulPagesCount
  /\ stream' = Counted(<<First(c)>>, -1)
  /\ mixed' = (mixed \/ Len(ogg[c].sSVec) > 1)
  /\ \E w \in VecDel(ogg[c].sSVec, 1) :
       ogg' = [ogg EXCEPT ![c].sSVec = w, ![c].ulHdrPage = 0]
  /\ UNCHANGED Writer

(* Then _BufRead: a place in the ring, ...                                 *)
ReadPlace(c) ==
  /\ Playing(c) /\ ogg[c].ulReadPos = NoPos /\ ulSyncPos # NoPos
  /\ ogg' = [ogg EXCEPT ![c].ulReadPos = ulSyncPos]
  /\ UNCHANGED <<Writer, stream, mixed>>

(* ... a page, or, if it is no longer there, the end.                      *)
ReadPage(c) ==
  LET l == ogg[c]
      p == stored[l.ulReadPos + 1]
  IN  /\ Playing(c) /\ l.ulReadPos # NoPos /\ l.ulReadPos < Len(stored)
      /\ ogg' = [ogg EXCEPT ![c] =
                   IF p.head THEN [l EXCEPT !.ulReadPos = @ + 1, !.known = @ \cup {p.stream}]
                             ELSE [l EXCEPT !.ulReadPos = @ + 1, !.heard = @ \cup {p.stream}]]
      /\ UNCHANGED <<Writer, stream, mixed>>

ReadTooLate(c) ==
  /\ Playing(c) /\ ogg[c].ulReadPos # NoPos /\ ogg[c].ulReadPos < Len(stored)
  /\ ogg' = [ogg EXCEPT ![c].pc = "dropped"]
  /\ UNCHANGED <<Writer, stream, mixed>>

OGGClientDestroy(c) ==
  /\ ogg[c].pc \in {"idle", "dropped"}
  /\ stream' = Counted(ogg[c].sSVec, -1)
  /\ ogg' = [ogg EXCEPT ![c] = Absent]
  /\ UNCHANGED <<Writer, mixed>>

OGGListener(c) ==
  \/ OGGClientNew(c) \/ OGGJoin(c) \/ OGGClientDestroy(c)
  \/ ReadHeader(c) \/ ReadHeaderEnd(c) \/ ReadPlace(c) \/ ReadPage(c) \/ ReadTooLate(c)

OGGNext == OGGWrite \/ \E c \in OGGClients : OGGListener(c)

----------------------------------------------------------------------------
(* What Formats says of it                                                 *)

(* A stream is counted by the vectors that have it.                        *)
StreamHolders(s) ==
  Cardinality({c \in OGGClients : Contains(ogg[c].sSVec, s)})
    + (IF Contains(sSVec, s) THEN 1 ELSE 0)

(* Streams whose pages listener c may meet without having their headers.   *)
Headless(c) == ogg[c].parted \cup {s \in DOMAIN stream : ~Filled(s)}
=============================================================================
