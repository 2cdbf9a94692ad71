----------------------------- MODULE MP3Format -----------------------------
(***************************************************************************)
(* The titles of a source and the way they come to the listeners of an MP3 *)
(* stream (src/src/format.c 426-744 and 1308-1382).  A title goes into a   *)
(* history of METADATA_ITEMS places; a listener that has asked for it gets *)
(* after every ulMetaInterval bytes of the stream either a zero byte or,   *)
(* after a new title, a block of metadata, whose first byte says how long  *)
(* it is.  The block is made by the first listener that needs it, shared   *)
(* with the others and counted.                                            *)
(*                                                                         *)
(* A listener's reads follow one another (hmtxClient); a step is what the  *)
(* code does between two looks at what the listeners share.  hmtxMP3Meta   *)
(* is kept across steps by a listener at "copy" and by nobody else.        *)
(***************************************************************************)
EXTENDS Integers, FiniteSets, SequencesExt

CONSTANTS
  MP3Clients,      (* the listeners (those without icy-metadata only read) *)
  Items,        (* METADATA_ITEMS: 11 *)
  Interval,     (* ulMetaInterval: 8192 if the listener does not say *)
  Unit, Units,  (* a block is counted in 16 bytes, its length byte in 4 bits *)
  Lengths,      (* how long the titles are that are set, in their order *)
  ReadLens      (* the lengths of the reads *)

ASSUME MP3Assumption ==
  /\ IsFiniteSet(MP3Clients)
  /\ Items \in Nat \ {0, 1} /\ Interval \in Nat \ {0}
  /\ Unit \in Nat \ {0, 1} /\ Units \in Nat \ {0, 1}
  /\ Lengths \in Seq(0..Unit * (Units - 1))   \* the code's block has no room for more
  /\ ReadLens \subseteq Nat \ {0}

VARIABLES
  apsMeta,      (* the history: per place a title *)
  ulMetaIdx,    (* the place of the next one *)
  psMP3Meta,    (* the block of the format, or None *)
  block,        (* the blocks; ulUsed = 0 is freed memory *)
  mp3,          (* the listeners *)
  said,         (* history: how many titles were set *)
  mp3edge       (* history: which of the events in MP3Edges have happened *)

titles  == <<apsMeta, ulMetaIdx, said>>
blocks  == <<psMP3Meta, block>>
mp3vars == <<titles, blocks, mp3, mp3edge>>

None   == -1
Places == 0..Items-1
Blocks == 1..Cardinality(MP3Clients) + 1

(* A title is its turn, zero an empty place; Lengths bounds how many there *)
(* are.                                                                    *)
NoTitle   == 0
Length(t) == IF t = NoTitle THEN 0 ELSE Lengths[t]
NoBlock == [ulUsed |-> 0, ulId |-> 0, ulLength |-> 0, turn |-> 0]

(* of a listener: where it is; ulMetaCount; psMP3Meta; ulLastMetaId; what  *)
(* is left of its read; the index it looked at and, since then, the title; *)
(* and as history: the title it was told last, how many there were when it *)
(* took ulLastMetaId and the index, and its player (see Hear).             *)
Away == [pc |-> "away", ulMetaCount |-> 0, meta |-> None, lastId |-> None, left |-> 0,
         idx |-> 0, title |-> NoTitle, told |-> 0, at |-> 0, player |-> Interval]

(* What the titles do not survive (see LatestTitle):                       *)
(*   raced:  a title is set while a listener is about to take one;         *)
(*   lapped: the index has come round to where it was when a listener, or  *)
(*           the block, took its number.                                   *)
(* And what the blocks do not (see Decodable):                             *)
(*   long:   a title that does not fit the length byte.                    *)
MP3Edges == {"raced", "lapped", "long"}

MP3Init ==
  /\ apsMeta = [i \in Places |-> NoTitle] /\ ulMetaIdx = 0 /\ said = 0
  /\ psMP3Meta = None /\ block = [b \in Blocks |-> NoBlock]
  /\ mp3 = [c \in MP3Clients |-> Away]
  /\ mp3edge = {}

Place(i) == i % Items
At(c, p) == mp3[c].pc = p
Becomes(c, l) == mp3' = [mp3 EXCEPT ![c] = l]

----------------------------------------------------------------------------
(* The titles                                                              *)

(* FormatSetMeta: overwrites, or frees and takes anew, what is in its      *)
(* place.  Whoever has a pointer to it sees it change.                     *)
SetMeta ==
  LET late(turn) == said + 1 - turn >= Items
      raced  == \E c \in MP3Clients : mp3[c].pc \in {"lock", "copy", "note"}
      lapped == \/ \E c \in MP3Clients : mp3[c].lastId # None /\ late(mp3[c].at)
                \/ psMP3Meta # None /\ late(block[psMP3Meta].turn)
  IN  /\ said < Len(Lengths)
      /\ said' = said + 1
      /\ apsMeta' = [apsMeta EXCEPT ![ulMetaIdx] = said + 1]
      /\ ulMetaIdx' = IF ulMetaIdx + 1 = Items THEN 0 ELSE ulMetaIdx + 1
      /\ mp3edge' = mp3edge \cup (IF raced THEN {"raced"} ELSE {})
                            \cup (IF lapped THEN {"lapped"} ELSE {})
      /\ UNCHANGED <<blocks, mp3>>

(* mutant: counts from the next title, not from the last one *)
HistoryPlaceNext(k) == Place(ulMetaIdx - k)

(* FormatGetMetaDataHistoryItem(k): where the k-th title, from the last    *)
(* one, is.  A page gets a pointer there and uses it without the mutex.    *)
HistoryPlace(k) == Place(ulMetaIdx - 1 - k)

----------------------------------------------------------------------------
(* The blocks                                                              *)

(* How long a block is, for a title of n bytes; what its first byte says,  *)
(* in units; and the titles for which both agree.                          *)
BlockLength(n) == ((((n + Unit - 1) \div Unit) % Units) + 1) * Unit + 1
LengthByte(ulLength) == (ulLength \div Unit) % Units
Fits(n) == n <= Unit * (Units - 2)

Unlocked == \A c \in MP3Clients : ~At(c, "copy")

(* __MP3MetaDestroy(b): the blocks and psMP3Meta after it.                 *)
Release(b, bs, own) ==
  LET used == bs[b].ulUsed - 1
  IN  [block |-> [bs EXCEPT ![b] = IF used = 0 THEN NoBlock ELSE [@ EXCEPT !.ulUsed = used]],
       own   |-> IF used = 0 /\ own = b THEN None ELSE own]

(* __MP3MetaNew: looks at the index ...                                    *)
MetaLook(c) ==
  /\ At(c, "look")
  /\ Becomes(c, [mp3[c] EXCEPT !.pc = "lock", !.idx = ulMetaIdx])
  /\ UNCHANGED <<titles, blocks, mp3edge>>

(* mutant: the block that is there will do, whatever it says *)
CurrentAny(c) == psMP3Meta # None

(* Is the format's block the one with the number c is looking for?         *)
Current(c) == psMP3Meta # None /\ block[psMP3Meta].ulId = mp3[c].idx

(* ... and finds that it is ...                                            *)
MetaFound(c) ==
  /\ At(c, "lock") /\ Unlocked /\ Current(c)
  /\ block' = [block EXCEPT ![psMP3Meta].ulUsed = @ + 1]
  /\ Becomes(c, [mp3[c] EXCEPT !.pc = "note", !.meta = psMP3Meta, !.told = block[psMP3Meta].turn])
  /\ UNCHANGED <<titles, psMP3Meta, mp3edge>>

(* ... or not: it lets the old one go and looks at the title, ...          *)
MetaBegin(c) ==
  LET r == Release(psMP3Meta, block, psMP3Meta)
  IN  /\ At(c, "lock") /\ Unlocked /\ ~Current(c)
      /\ IF psMP3Meta = None THEN UNCHANGED blocks
                             ELSE block' = r.block /\ psMP3Meta' = r.own
      /\ Becomes(c, [mp3[c] EXCEPT !.pc = "copy", !.title = apsMeta[Place(mp3[c].idx - 1)]])
      /\ UNCHANGED <<titles, mp3edge>>

(* mutant: the format forgets to count its own pointer *)
MetaEndOnce(c) ==
  LET b == Min({x \in Blocks : block[x].ulUsed = 0})
  IN  /\ At(c, "copy")
      /\ block' = [block EXCEPT ![b] = [ulUsed |-> 1, ulId |-> ulMetaIdx, turn |-> mp3[c].title,
                                        ulLength |-> BlockLength(Length(mp3[c].title))]]
      /\ psMP3Meta' = b
      /\ Becomes(c, [mp3[c] EXCEPT !.pc = "note", !.meta = b, !.told = mp3[c].title, !.title = NoTitle])
      /\ UNCHANGED <<titles, mp3edge>>

(* ... reads the index once more, for the number of the block, copies the  *)
(* title and gives the mutex back.                                         *)
MetaEnd(c) ==
  LET b == Min({x \in Blocks : block[x].ulUsed = 0})
      title == mp3[c].title
  IN  /\ At(c, "copy")
      /\ block' = [block EXCEPT ![b] = [ulUsed |-> 2, ulId |-> ulMetaIdx, turn |-> title,
                                        ulLength |-> BlockLength(Length(title))]]
      /\ psMP3Meta' = b
      /\ Becomes(c, [mp3[c] EXCEPT !.pc = "note", !.meta = b, !.told = title, !.title = NoTitle])
      /\ mp3edge' = mp3edge \cup (IF Fits(Length(title)) THEN {} ELSE {"long"})
      /\ UNCHANGED <<titles>>

(* Back in _MP3Read, which takes the index a third time.                   *)
MetaNote(c) ==
  /\ At(c, "note")
  /\ Becomes(c, [mp3[c] EXCEPT !.pc = "read", !.ulMetaCount = 0, !.lastId = ulMetaIdx, !.at = said])
  /\ UNCHANGED <<titles, blocks, mp3edge>>

----------------------------------------------------------------------------
(* What the listener's player makes of the bytes it gets: it knows the     *)
(* interval and counts.  Its state is how many bytes of the stream are     *)
(* still to come before a length byte, or, below zero, how many of a       *)
(* block.                                                                  *)
Hear(player, byte) ==
  CASE player > 0  -> player - 1
    [] player = 0  -> IF byte = 0 THEN Interval ELSE -(byte * Unit)
    [] player = -1 -> Interval
    [] OTHER       -> player + 1

(* n bytes, of which only the first may be a length byte: a player to      *)
(* which a call gives more than it waits for has lost count.               *)
Lost == Interval + 1
Heard(player, byte, n) ==
  LET p == Hear(player, byte)
      rest == n - 1
  IN  IF player = Lost THEN Lost
      ELSE CASE p >= rest          -> p - rest
             [] p < 0 /\ rest < -p -> p + rest
             [] p < 0 /\ rest = -p -> Interval
             [] OTHER              -> Lost

(* n bytes more of the block or the stream *)
Give(l, byte, n) ==
  [l EXCEPT !.ulMetaCount = @ + n, !.left = @ - n, !.player = Heard(@, byte, n)]

MP3ClientNew(c) ==
  /\ At(c, "away")
  /\ Becomes(c, [Away EXCEPT !.pc = "read"])
  /\ UNCHANGED <<titles, blocks, mp3edge>>

(* _MP3Read: it goes on until nothing is left of the read.                 *)
MP3Read(c) ==
  /\ At(c, "read") /\ mp3[c].left = 0
  /\ \E n \in ReadLens : Becomes(c, [mp3[c] EXCEPT !.left = n])
  /\ UNCHANGED <<titles, blocks, mp3edge>>

Reading(c) == At(c, "read") /\ mp3[c].left > 0

(* _BufRead gives what is asked for, nothing, or SCRES_DATA_OUT, with      *)
(* which the connection is closed.                                         *)
ReadStream(c) ==
  LET l == mp3[c]
      n == Min({Interval - l.ulMetaCount, l.left})
  IN  /\ Reading(c) /\ l.meta = None /\ l.ulMetaCount < Interval
      /\ \/ Becomes(c, Give(l, 0, n))
         \/ Becomes(c, [l EXCEPT !.left = 0])
         \/ Becomes(c, [Away EXCEPT !.pc = "dropped"])
      /\ UNCHANGED <<titles, blocks, mp3edge>>

(* The interval is full: nothing new, or a title.                          *)
ReadSilence(c) ==
  LET l == mp3[c]
  IN  /\ Reading(c) /\ l.meta = None /\ l.ulMetaCount = Interval /\ l.lastId = ulMetaIdx
      /\ Becomes(c, [Give(l, 0, 1) EXCEPT !.ulMetaCount = 0])
      /\ UNCHANGED <<titles, blocks, mp3edge>>

ReadTitle(c) ==
  LET l == mp3[c]
  IN  /\ Reading(c) /\ l.meta = None /\ l.ulMetaCount = Interval /\ l.lastId # ulMetaIdx
      /\ Becomes(c, [l EXCEPT !.pc = "look"])
      /\ UNCHANGED <<titles, blocks, mp3edge>>

ReadBlock(c) ==
  LET l == mp3[c]
      b == block[l.meta]
      n == Min({b.ulLength - l.ulMetaCount, l.left})
  IN  /\ Reading(c) /\ l.meta # None /\ l.ulMetaCount < b.ulLength
      /\ Becomes(c, Give(l, LengthByte(b.ulLength), n))
      /\ UNCHANGED <<titles, blocks, mp3edge>>

ReadBlockEnd(c) ==
  LET r == Release(mp3[c].meta, block, psMP3Meta)
  IN  /\ Reading(c) /\ mp3[c].meta # None /\ mp3[c].ulMetaCount = block[mp3[c].meta].ulLength
      /\ Unlocked
      /\ block' = r.block /\ psMP3Meta' = r.own
      /\ Becomes(c, [mp3[c] EXCEPT !.meta = None, !.ulMetaCount = 0])
      /\ UNCHANGED <<titles, mp3edge>>

CanLeave(c) == At(c, "dropped") \/ (At(c, "read") /\ mp3[c].left = 0)

MP3ClientDestroy(c) ==
  LET r == Release(mp3[c].meta, block, psMP3Meta)
  IN  /\ CanLeave(c)
      /\ IF mp3[c].meta = None THEN UNCHANGED blocks
         ELSE Unlocked /\ block' = r.block /\ psMP3Meta' = r.own
      /\ Becomes(c, Away)
      /\ UNCHANGED <<titles, mp3edge>>

MP3Listener(c) ==
  \/ MP3ClientNew(c) \/ MP3ClientDestroy(c) \/ MP3Read(c)
  \/ ReadStream(c) \/ ReadSilence(c) \/ ReadTitle(c)
  \/ MetaLook(c) \/ MetaFound(c) \/ MetaBegin(c) \/ MetaEnd(c) \/ MetaNote(c)
  \/ ReadBlock(c) \/ ReadBlockEnd(c)

MP3Next == SetMeta \/ \E c \in MP3Clients : MP3Listener(c)

----------------------------------------------------------------------------
(* What Formats says of it                                                 *)

(* A block is counted by the listeners that have it and by the format.     *)
BlockHolders(b) ==
  Cardinality({c \in MP3Clients : mp3[c].meta = b})
    + (IF psMP3Meta = b /\ Unlocked THEN 1 ELSE 0)

(* Where the player of listener l is, as the server sees it.               *)
Due(l) ==
  LET rest == block[l.meta].ulLength - l.ulMetaCount
  IN  CASE l.meta = None \/ l.pc = "note" -> Interval - l.ulMetaCount
        [] OTHER -> IF l.ulMetaCount = 0 THEN 0 ELSE IF rest = 0 THEN Interval ELSE -rest
=============================================================================
