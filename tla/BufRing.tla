------------------------------ MODULE BufRing ------------------------------
(***************************************************************************)
(* The ring of pages between a source and its listeners (src/src/format.c, *)
(* _BufWrite, _BufRead, _BufUseSyncPos, _BufUnuse).  One writer appends to *)
(* the stream; each listener follows at its own pace.  A page counts the   *)
(* listeners that stand on it (ulUsed), the writer frees the pages behind  *)
(* the last of them, and a listener that falls a ring behind is dropped.   *)
(*                                                                         *)
(* Positions are absolute here, counted from the start of the stream; the  *)
(* code's ULONG is Bits(position).  -1 is the code's (ULONG)(-1), "no      *)
(* position": the last value of the type, which a position of a long       *)
(* stream takes as well.  The bytes are not modelled: which byte a page    *)
(* holds follows from how far the writer has come.                         *)
(*                                                                         *)
(* _BufWrite holds hmtxBuffers all along.  The copies of _BufRead, one for *)
(* each page, run without it: the writer comes in between them, and they   *)
(* between its pages.                                                      *)
(***************************************************************************)
EXTENDS Integers, FiniteSetsExt

CONSTANTS
  Pages,      (* pages in the ring: 32 in the code *)
  PageSize,   (* bytes in a page: 8192 *)
  Width,      (* values of a ULONG *)
  Clients,    (* the listeners *)
  Writes,     (* the lengths of a write *)
  ReadLen,    (* the length of a read *)
  Formats,    (* the formats of the stream: "mp3", "ogg" *)
  MaxUsed,    (* bound: how high listeners that join push a count; *)
              (* no higher than a ULONG counts *)
  MaxPos      (* bound: how many bytes a behaviour writes *)

Ring  == Pages * PageSize
Reach == (Pages - 1) * PageSize    \* how far behind a listener may be

ASSUME BufRingAssumption ==
  /\ Pages \in Nat \ {0, 1} /\ PageSize \in Nat \ {0}
  /\ Width \in Nat /\ Width % Ring = 0 /\ Width > Ring
  /\ Writes \subseteq Nat \ {0} /\ ReadLen \in Nat \ {0}
  /\ Formats \subseteq {"mp3", "ogg"} /\ MaxUsed \in 0..Width-1 /\ MaxPos \in Nat
  /\ IsFiniteSet(Clients) /\ Cardinality(Clients) < Width

VARIABLES
  psMethods,     (* the format of the stream *)
  ulBufPos,      (* how many bytes were written *)
  todo,          (* how many bytes the write under way has still to store *)
  ulSyncPos,     (* where a new listener starts, or -1 *)
  ulBufLastPage, (* the oldest page *)
  present,       (* the pages that have memory: pcData # NULL *)
  ulUsed,        (* per page: the listeners counted on it *)
  pos,           (* per listener: its place in the stream, or -1 *)
  place,         (* per listener: where it is *)
  left,          (* per listener: how many bytes its read has still to copy *)
  from,          (* per listener: the page on which its read began *)
  seen,          (* per listener: ulBufPos when its read looked at it *)
  edge           (* history: which of the events in Edges have happened *)

ring     == <<ulBufPos, todo, ulSyncPos, ulBufLastPage, present, ulUsed>>
reader   == <<pos, place, left, from, seen>>
ringvars == <<psMethods, ring, reader, edge>>

PageNos == 0..Pages-1
None    == -1
Bits(p) == p % Width
IsNone(p) == Bits(p) = Bits(None)
Page(p) == (Bits(p) \div PageSize) % Pages
Behind(p) == Bits(ulBufPos - p)    \* the code's unsigned difference

(* What the counts do not survive (the properties say what holds before):  *)
(*   overtaken: the writer starts on the page where a read in progress     *)
(*     began, and sets its count to zero under it;                         *)
(*   reset: the writer starts on a page where listeners stand already,     *)
(*     because an OGG listener begins where the next page of the stream    *)
(*     will, and sets their count to zero;                                 *)
(*   wrapped: a listener's position has become (ULONG)(-1), or one that    *)
(*     has no position is taken for one that stands on the last page, or   *)
(*     one has not moved while as much was written as a ULONG counts.      *)
Edges == {"overtaken", "reset", "wrapped"}

RingTypeOK ==
  /\ psMethods \in Formats
  /\ ulBufPos \in 0..MaxPos /\ todo \in 0..MaxPos /\ ulSyncPos \in -1..MaxPos
  /\ ulBufLastPage \in PageNos /\ present \subseteq PageNos
  /\ ulUsed \in [PageNos -> 0..Width-1]
  /\ pos \in [Clients -> -1..MaxPos]
  /\ place \in [Clients -> {"away", "idle", "copy", "dropped"}]
  /\ left \in [Clients -> 0..ReadLen] /\ from \in [Clients -> PageNos]
  /\ seen \in [Clients -> 0..MaxPos]
  /\ edge \subseteq Edges

RingInit ==
  /\ psMethods \in Formats
  /\ ulBufPos = 0 /\ todo = 0 /\ ulSyncPos = None /\ ulBufLastPage = 0
  /\ present = {} /\ ulUsed = [p \in PageNos |-> 0]
  /\ pos = [c \in Clients |-> None] /\ place = [c \in Clients |-> "away"]
  /\ left = [c \in Clients |-> 0] /\ from = [c \in Clients |-> 0]
  /\ seen = [c \in Clients |-> 0] /\ edge = {}

Record(events) == edge' = edge \cup {e \in DOMAIN events : events[e]}

(* Is hmtxBuffers free?  Only _BufWrite has it for more than one step.     *)
Unlocked == todo = 0

Countable(p) == ulUsed[p] < MaxUsed    \* bound
Count(p) == [ulUsed EXCEPT ![p] = Bits(@ + 1)]

----------------------------------------------------------------------------
(* _BufWrite                                                               *)

WriteBegin(n, sync) ==
  /\ Unlocked /\ ulBufPos + n <= MaxPos
  /\ todo' = n /\ ulSyncPos' = sync
  /\ UNCHANGED <<psMethods, ulBufPos, ulBufLastPage, present, ulUsed, reader, edge>>

(* mutant: frees pages on which listeners stand *)
SpareUsed(last, page, sync, used) ==
  Max({k \in 0..Pages-1 :
         \A i \in 0..k-1 : LET p == (last + i) % Pages
                           IN  p # page /\ (IsNone(sync) \/ Page(sync) # p)})

(* How many pages, from the oldest one on, nobody needs any more.          *)
Spare(last, page, sync, used) ==
  Max({k \in 0..Pages-1 :
         \A i \in 0..k-1 : LET p == (last + i) % Pages
                           IN  /\ p # page /\ used[p] = 0
                               /\ IsNone(sync) \/ Page(sync) # p})

(* mutant: the page it takes over stays the oldest *)
BeginPageOldest ==
  LET page == Page(ulBufPos)
      k == Spare(ulBufLastPage, page, ulSyncPos', ulUsed')
  IN  /\ ulSyncPos' = IF ~IsNone(ulSyncPos) /\ Page(ulSyncPos) = page THEN None ELSE ulSyncPos
      /\ ulUsed' = [ulUsed EXCEPT ![page] = 0]
      /\ ulBufLastPage' = (ulBufLastPage + k) % Pages
      /\ present' = (present \cup {page}) \ {(ulBufLastPage + i) % Pages : i \in 0..k-1}

(* The writer starts on a page: takes memory for it, or takes it over with *)
(* what it holds; then frees the spare pages.                              *)
BeginPage ==
  LET page == Page(ulBufPos)
      again == page \in present
      last == IF again THEN (page + 1) % Pages ELSE ulBufLastPage
      k == Spare(last, page, ulSyncPos', ulUsed')
  IN  /\ ulSyncPos' = IF again /\ ~IsNone(ulSyncPos) /\ Page(ulSyncPos) = page
                      THEN None ELSE ulSyncPos
      /\ ulUsed' = [ulUsed EXCEPT ![page] = 0]
      /\ ulBufLastPage' = (last + k) % Pages
      /\ present' = (present \cup {page}) \ {(last + i) % Pages : i \in 0..k-1}

(* One turn of its loop: to the end of the page or of what it stores.      *)
WritePage ==
  LET n == Min({todo, PageSize - (ulBufPos % PageSize)})
      starts == ulBufPos % PageSize = 0
  IN  /\ todo > 0 /\ todo' = todo - n
      /\ ulBufPos' = ulBufPos + n
      /\ IF starts THEN BeginPage ELSE UNCHANGED <<ulSyncPos, ulBufLastPage, present, ulUsed>>
      /\ Record([overtaken |-> starts /\ \E c \in Clients : place[c] = "copy" /\ from[c] = Page(ulBufPos),
                 reset     |-> starts /\ \E c \in Clients : place[c] = "idle" /\ pos[c] = ulBufPos,
                 wrapped   |-> \E c \in Clients : pos[c] # None /\ ulBufPos' - pos[c] >= Width])
      /\ UNCHANGED <<psMethods, reader>>

(* _MP3Write: a listener may start anywhere, the latest write will do.     *)
MP3Write == psMethods = "mp3" /\ \E n \in Writes : WriteBegin(n, ulBufPos)

(* _OGGWrite stores a page of the stream: listeners start after it.        *)
OGGStore == psMethods = "ogg" /\ \E n \in Writes : WriteBegin(n, ulBufPos + n)

(* __OGGStreamAddPage stores a header: nobody starts there.                *)
OGGHeader == psMethods = "ogg" /\ \E n \in Writes : WriteBegin(n, ulSyncPos)

----------------------------------------------------------------------------
(* The listeners                                                           *)

(* _BufUseSyncPos, and _BufRead without a position: take one.              *)
UseSyncPos(c) ==
  /\ Unlocked /\ ~IsNone(ulSyncPos) /\ Countable(Page(ulSyncPos))
  /\ pos' = [pos EXCEPT ![c] = ulSyncPos]
  /\ ulUsed' = Count(Page(ulSyncPos))
  /\ UNCHANGED <<psMethods, ulBufPos, todo, ulSyncPos, ulBufLastPage, present, left, from, seen, edge>>

(* _MP3ClientNew: no position yet.  _OGGClientNew: the latest, if any.     *)
ClientNew(c) ==
  /\ place[c] = "away" /\ place' = [place EXCEPT ![c] = "idle"]
  /\ \/ psMethods = "ogg" /\ UseSyncPos(c)
     \/ /\ psMethods = "ogg" => Unlocked /\ IsNone(ulSyncPos)
        /\ UNCHANGED <<psMethods, ring, pos, left, from, seen, edge>>

(* _BufRead without a position returns no data.                            *)
ReadSync(c) ==
  /\ place[c] = "idle" /\ IsNone(pos[c]) /\ UseSyncPos(c)
  /\ UNCHANGED place

(* _BufRead of a listener that is too far behind: SCRES_DATA_OUT, and the  *)
(* connection is closed.                                                   *)
ReadTooLate(c) ==
  /\ Unlocked /\ place[c] = "idle" /\ ~IsNone(pos[c]) /\ Behind(pos[c]) > Reach
  /\ place' = [place EXCEPT ![c] = "dropped"]
  /\ UNCHANGED <<psMethods, ring, pos, left, from, seen, edge>>

(* mutant: lets a listener be a whole ring behind *)
ReadBeginFar(c) ==
  /\ Unlocked /\ place[c] = "idle" /\ ~IsNone(pos[c])
  /\ Behind(pos[c]) <= Ring /\ Behind(pos[c]) > ReadLen
  /\ place' = [place EXCEPT ![c] = "copy"]
  /\ left' = [left EXCEPT ![c] = ReadLen]
  /\ from' = [from EXCEPT ![c] = Page(pos[c])]
  /\ seen' = [seen EXCEPT ![c] = ulBufPos]
  /\ UNCHANGED <<psMethods, ring, pos, edge>>

(* _BufRead with more than the read's length to come: it will copy.  (With *)
(* less it returns no data.)                                               *)
ReadBegin(c) ==
  /\ Unlocked /\ place[c] = "idle" /\ ~IsNone(pos[c])
  /\ Behind(pos[c]) <= Reach /\ Behind(pos[c]) > ReadLen
  /\ place' = [place EXCEPT ![c] = "copy"]
  /\ left' = [left EXCEPT ![c] = ReadLen]
  /\ from' = [from EXCEPT ![c] = Page(pos[c])]
  /\ seen' = [seen EXCEPT ![c] = ulBufPos]
  /\ UNCHANGED <<psMethods, ring, pos, edge>>

(* One turn of its loop: to the end of the page or of the read.            *)
Copy(c) ==
  LET n == Min({left[c], PageSize - (Bits(pos[c]) % PageSize)})
  IN  /\ place[c] = "copy" /\ left[c] > 0
      /\ Page(pos[c]) \in present    \* no memory: the program has crashed
      /\ pos' = [pos EXCEPT ![c] = @ + n]
      /\ left' = [left EXCEPT ![c] = @ - n]
      /\ UNCHANGED <<psMethods, ring, place, from, seen, edge>>

(* The listener is counted on the page it has come to.                     *)
ReadEnd(c) ==
  LET to == Page(pos[c])
  IN  /\ place[c] = "copy" /\ left[c] = 0 /\ (to = from[c] \/ Unlocked)
      /\ place' = [place EXCEPT ![c] = "idle"]
      /\ ulUsed' = IF to = from[c] THEN ulUsed
                   ELSE [ulUsed EXCEPT ![from[c]] = Bits(@ - 1), ![to] = Bits(@ + 1)]
      /\ seen' = [seen EXCEPT ![c] = 0] /\ from' = [from EXCEPT ![c] = 0]
      /\ Record([wrapped |-> IsNone(pos[c])])
      /\ UNCHANGED <<psMethods, ulBufPos, todo, ulSyncPos, ulBufLastPage, present, pos, left>>

(* The format's part of FormatClientDestroy: _BufUnuse.                    *)
ClientDestroy(c) ==
  LET p == Page(pos[c])
      counted == Behind(pos[c]) <= Reach /\ ulUsed[p] > 0
  IN  /\ Unlocked /\ place[c] \in {"idle", "dropped"}
      /\ place' = [place EXCEPT ![c] = "away"]
      /\ pos' = [pos EXCEPT ![c] = None]
      /\ ulUsed' = IF counted THEN [ulUsed EXCEPT ![p] = @ - 1] ELSE ulUsed
      /\ Record([wrapped |-> pos[c] = None /\ counted])
      /\ UNCHANGED <<psMethods, ulBufPos, todo, ulSyncPos, ulBufLastPage, present, left, from, seen>>

----------------------------------------------------------------------------

Write == MP3Write \/ OGGStore \/ OGGHeader \/ WritePage

Read(c) == ReadSync(c) \/ ReadTooLate(c) \/ ReadBegin(c) \/ Copy(c) \/ ReadEnd(c)

RingNext == Write \/ \E c \in Clients : ClientNew(c) \/ Read(c) \/ ClientDestroy(c)

RingSpec == RingInit /\ [][RingNext]_ringvars

----------------------------------------------------------------------------
(* Properties *)

Kept(p, q) == \A i \in p..q-1 : Page(i) \in present

(* The freed pages are always the oldest ones: the memory of the ring is   *)
(* one stretch from ulBufLastPage to the page the writer is on; and a new  *)
(* listener starts within it, on data that is not yet overwritten, up to   *)
(* what the writer has just written.                                       *)
OneStretch ==
  /\ ulBufPos > 0 =>
       LET page == Page(ulBufPos - 1)
       IN  present = {(ulBufLastPage + i) % Pages : i \in 0..((page - ulBufLastPage) % Pages)}
  /\ ~IsNone(ulSyncPos) => ulBufPos - ulSyncPos <= Ring /\ Kept(ulSyncPos, ulBufPos)

(* Is listener c counted on page p?  Not one on whose page the writer has  *)
(* started again.                                                          *)
StandsOn(c, p) ==
  \/ place[c] = "copy" /\ from[c] = p
  \/ /\ place[c] \in {"idle", "dropped"} /\ pos[c] # None /\ Page(pos[c]) = p
     /\ ulBufPos <= pos[c] - (pos[c] % PageSize) + Ring

(* The page the writer starts on next.                                     *)
Coming == Page(ulBufPos + ((-ulBufPos) % PageSize))

(* The count of a page is the number of listeners that stand on it (too    *)
(* high at most on the page the writer starts on next, where it will be    *)
(* set to zero: a listener that leaves when it is too late counts on); so  *)
(* what a listener that is not too late has still to read is in memory:    *)
(* its reads never run into a page that was freed.                         *)
DataKept ==
  edge = {} =>
    /\ \A p \in PageNos :
         LET standing == Cardinality({c \in Clients : StandsOn(c, p)})
         IN  ulUsed[p] >= standing /\ (p # Coming => ulUsed[p] = standing)
    /\ \A c \in Clients :
         place[c] \in {"idle", "copy"} /\ pos[c] # None /\ ulBufPos - pos[c] <= Reach
           => Kept(pos[c], ulBufPos)

(* A read gives a listener the bytes of the stream in their order, unless  *)
(* more than a page is written while it copies: that is the margin for     *)
(* copying without hmtxBuffers.                                            *)
NotTorn ==
  "wrapped" \notin edge => \A c \in Clients :
    place[c] = "copy" /\ left[c] > 0 /\ ulBufPos - seen[c] <= PageSize
      => ulBufPos - pos[c] <= Ring
=============================================================================
