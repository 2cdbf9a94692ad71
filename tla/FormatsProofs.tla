---------------------------- MODULE FormatsProofs ----------------------------
(***************************************************************************)
(* Proofs about the formats of a source, for any number of listeners,      *)
(* titles, places, streams and pages: blocks and streams are freed with    *)
(* their last holder, what a listener gets can be decoded, and a listener  *)
(* that is told nothing new knows the latest title.                        *)
(***************************************************************************)
EXTENDS Formats, FiniteSetTheorems, WellFoundedInduction, TLAPS

(* Of MP3: what the values are.                                            *)
Turns == 0..Len(Lengths)

BlockRecords == [ulUsed : Int, ulId : Places, ulLength : Nat, turn : Turns]

MP3Records == [
  pc : {"away", "read", "look", "lock", "copy", "note", "dropped"},
  ulMetaCount : Nat, meta : Blocks \cup {None}, lastId : Places \cup {None},
  left : Nat, idx : Places, title : Turns, told : Turns, at : Turns, player : Int]

MP3Typed ==
  /\ apsMeta \in [Places -> Turns] /\ ulMetaIdx \in Places /\ said \in Turns
  /\ psMP3Meta \in Blocks \cup {None} /\ block \in [Blocks -> BlockRecords]
  /\ mp3 \in [MP3Clients -> MP3Records]
  /\ psMethods \in {"mp3", "ogg", "gone"}
  /\ psMethods # "mp3" => \A c \in MP3Clients : At(c, "away")

(* Who has a block, and how far it is.                                     *)
Shaped(l) ==
  /\ l.pc \in {"away", "dropped", "look", "lock", "copy"} => l.meta = None
  /\ l.pc = "note" => l.meta # None
  /\ l.pc \in {"look", "lock", "copy", "note"} => l.ulMetaCount = Interval
  /\ l.pc = "away" => l = Away
  /\ l.meta = None => l.ulMetaCount <= Interval
  /\ l.meta # None /\ l.pc = "read" => l.ulMetaCount <= block[l.meta].ulLength

MP3Shaped ==
  /\ \A c \in MP3Clients : Shaped(mp3[c])
  /\ \A c, d \in MP3Clients : At(c, "copy") /\ At(d, "copy") => c = d

BlocksCounted == \A b \in Blocks : block[b].ulUsed = BlockHolders(b)

(* As long as titles fit, a length is one that the first byte can say.     *)
Sayable(n) == \E k \in 1..Units - 1 : n = k * Unit + 1

InStep ==
  "long" \notin mp3edge =>
    /\ \A b \in Blocks : block[b].ulUsed > 0 => Sayable(block[b].ulLength)
    /\ \A c \in MP3Clients : mp3[c].player = Due(mp3[c])

(* The history: the last Items titles, each in its place.                  *)
InHistory(p, t) == t \in 1..said /\ Place(t - 1) = p /\ said - t < Items

HistorySound ==
  psMethods # "gone" =>
    /\ ulMetaIdx = Place(said)
    /\ \A p \in Places : (apsMeta[p] = NoTitle /\ said <= p) \/ InHistory(p, apsMeta[p])

(* The index that a listener looked at, and the title it took for it.      *)
LookedUp(l) ==
  /\ l.pc = "lock" => l.idx <= said
  /\ l.pc = "copy" => /\ l.title <= said
                      /\ l.title = NoTitle => l.idx = 0
                      /\ l.title # NoTitle => Place(l.title) = l.idx

(* A number that was taken at turn t, at most Items titles ago.            *)
Recent(id, t) == t <= said /\ said - t < Items /\ id = Place(t)

Informed(l) ==
  /\ l.lastId # None => Recent(l.lastId, l.at)
  /\ l.lastId # None /\ l.pc # "note" => l.told = l.at
  /\ l.pc \in {"lock", "copy"} => l.idx = ulMetaIdx
  /\ l.pc = "copy" => l.title = said
  /\ l.pc = "note" => l.told = said

TitlesKept ==
  /\ \A c \in MP3Clients : LookedUp(mp3[c])
  /\ mp3edge \cap {"raced", "lapped"} = {} =>
       /\ \A c \in MP3Clients : Informed(mp3[c])
       /\ psMP3Meta # None /\ Unlocked => Recent(block[psMP3Meta].ulId, block[psMP3Meta].turn)

MP3Inv ==
  /\ MP3Typed /\ MP3Shaped /\ BlocksCounted
  /\ InStep /\ HistorySound /\ TitlesKept

----------------------------------------------------------------------------
(* The same of OGG                                                         *)

StreamIds == DOMAIN stream

StreamRecords == [lSerialNumber : Serials, ulUsed : Int, ulPagesCount : 1..HdrPages]
Pages == [stream : Nat, head : BOOLEAN]

OGGRecords == [
  pc : {"away", "join", "idle", "dropped"}, sSVec : Seq(Nat), ulHdrPage : Nat,
  ulReadPos : Nat \cup {NoPos}, unplaced : BOOLEAN,
  known : SUBSET Nat, heard : SUBSET Nat, parted : SUBSET Nat]

(* A vector has few streams.                                               *)
Vector(v) ==
  /\ v \in Seq(Nat) /\ Len(v) <= MaxStreams
  /\ \A i \in 1..Len(v) : v[i] \in StreamIds

(* A listener has no vector before it has joined.                          *)
Placed(l) ==
  /\ Vector(l.sSVec)
  /\ l.pc \in {"away", "join"} => l.sSVec = <<>> /\ l.ulHdrPage = 0
  /\ l.ulReadPos <= Len(stored)
  /\ l.heard \subseteq StreamIds

OGGTyped ==
  /\ stored \in Seq(Pages)
  /\ \A j \in 1..Len(stored) : stored[j].stream \in StreamIds
  /\ ulSyncPos \in 0..Len(stored) \cup {NoPos}
  /\ stream \in Seq(StreamRecords)
  /\ Vector(sSVec)
  /\ ending \in StreamIds \cup {NoStream}
  /\ ogg \in [OGGClients -> OGGRecords]
  /\ \A c \in OGGClients : Placed(ogg[c])
  /\ mixed \in BOOLEAN

StreamsCounted == ~mixed => \A s \in StreamIds : stream[s].ulUsed = StreamHolders(s)

(* The writer: no page of a stream but its headers is stored before it has *)
(* them all, nor after it has ended, nor where nobody starts any more.     *)
WriterSound ==
  /\ ~Contains(sSVec, ending)
  /\ \A j \in 1..Len(stored) : ~stored[j].head =>
       /\ Filled(stored[j].stream) \/ ~Contains(sSVec, stored[j].stream)
       /\ j <= ulSyncPos

(* A listener l has the headers of s, or will, or need not have them.      *)
Ready(l, s) == s \in l.known \cup l.parted \/ Contains(l.sSVec, s)

HeaderAhead(l, s, j) == \E i \in 1..j : l.ulReadPos < i /\ stored[i].head /\ stored[i].stream = s

HeardSound(l) ==
  \A s \in l.heard : s \in l.known \cup l.parted \/ (~Filled(s) /\ ~Contains(sSVec, s))

JoinSound(l) ==
  /\ \A j \in 1..Len(stored) : l.ulReadPos < j /\ ~stored[j].head =>
       LET s == stored[j].stream IN Contains(sSVec, s) \/ s \in l.parted \/ ~Filled(s)
  /\ ending # NoStream => ending \in l.parted

IdleSound(l) ==
  /\ \A j \in 1..Len(stored) : l.ulReadPos < j /\ ~stored[j].head =>
       LET s == stored[j].stream IN Ready(l, s) \/ ~Filled(s) \/ HeaderAhead(l, s, j)
  /\ \A s \in StreamIds : (Contains(sSVec, s) \/ s = ending) /\ Filled(s) =>
       Ready(l, s) \/ HeaderAhead(l, s, Len(stored))
  /\ \A s \in StreamIds : Contains(l.sSVec, s) => Filled(s)
  /\ l.ulHdrPage <= HdrPages
  /\ l.sSVec # <<>> /\ l.ulHdrPage = HdrPages => l.sSVec[1] \in l.known

ListenerSound(l) ==
  /\ HeardSound(l)
  /\ l.pc \in {"join", "idle"} => l.ulReadPos # NoPos
  /\ l.pc = "join" => JoinSound(l)
  /\ l.pc = "idle" => IdleSound(l)

HeadersFirst ==
  ~mixed => WriterSound /\ \A c \in OGGClients : ~ogg[c].unplaced => ListenerSound(ogg[c])

OGGInv == OGGTyped /\ StreamsCounted /\ HeadersFirst

----------------------------------------------------------------------------
(* Arithmetic *)

LEMMA DivMod ==
  ASSUME NEW a \in Int, NEW n \in Nat \ {0}
  PROVE  /\ a \div n \in Int /\ a % n \in 0..n-1
         /\ a = n * (a \div n) + (a % n)
OBVIOUS

LEMMA Multiple ==
  ASSUME NEW n \in Nat \ {0}, NEW q \in Int, NEW r \in Int, n * q = r, -n < r, r < n
  PROVE  q = 0
<1>1. CASE q >= 1
  <2>1. n * q >= n
    BY <1>1
  <2> QED
    BY <2>1
<1>2. CASE q <= -1
  <2>1. n * q <= -n
    BY <1>2
  <2> QED
    BY <2>1
<1> QED
  BY <1>1, <1>2

(* Quotient and remainder are determined by what they do.                  *)
LEMMA DivUnique ==
  ASSUME NEW n \in Nat \ {0}, NEW q \in Int, NEW r \in 0..n-1
  PROVE  (n * q + r) % n = r /\ (n * q + r) \div n = q
<1> DEFINE a == n * q + r
           p == a \div n
           s == a % n
<1>1. a \in Int /\ p \in Int /\ s \in 0..n-1 /\ a = n * p + s
  BY DivMod
<1>2. n * (p - q) = r - s
  BY <1>1
<1> HIDE DEF p, s
<1>3. p - q = 0
  BY <1>1, <1>2, Multiple
<1> QED
  BY <1>1, <1>2, <1>3 DEF p, s

LEMMA Bounds ==
  /\ Items \in Nat /\ Items >= 2 /\ Interval \in Nat /\ Interval >= 1
  /\ Unit \in Nat /\ Unit >= 2 /\ Units \in Nat /\ Units >= 2
  /\ IsFiniteSet(MP3Clients) /\ ReadLens \subseteq Nat \ {0}
<1>1. Items \in Nat \ {0, 1} /\ Interval \in Nat \ {0} /\ Unit \in Nat \ {0, 1} /\ Units \in Nat \ {0, 1}
  BY MP3Assumption
<1> QED
  BY <1>1, MP3Assumption

LEMMA LengthsAre == Len(Lengths) \in Nat /\ \A t \in Turns : Length(t) \in Nat
<1>1. Unit * (Units - 1) \in Nat
  <2>1. Unit - 1 \in Nat /\ Units - 1 \in Nat
    BY Bounds
  <2> QED
    BY Bounds, <2>1
<1> DEFINE N == Unit * (Units - 1)
<1>2. Lengths \in Seq(0..N) /\ N \in Nat
  BY <1>1, MP3Assumption
<1> HIDE DEF N
<1>3. Lengths \in Seq(Nat)
  BY <1>2
<1> QED
  BY <1>3 DEF Turns, Length, NoTitle

(* Two numbers less than n apart have different remainders.                *)
LEMMA ModApart ==
  ASSUME NEW n \in Nat \ {0}, NEW a \in Int, NEW b \in Int, a <= b, b - a < n, a % n = b % n
  PROVE  a = b
<1> DEFINE p == a \div n
           q == b \div n
           r == a % n
<1>1. p \in Int /\ q \in Int /\ r \in 0..n-1 /\ a = n * p + r /\ b = n * q + r
  BY DivMod
<1> HIDE DEF p, q, r
<1>2. n * (q - p) = b - a
  BY <1>1
<1>3. q - p = 0
  BY <1>1, <1>2, Multiple
<1> QED
  BY <1>1, <1>3

LEMMA ModOf ==
  ASSUME NEW n \in Nat \ {0}, NEW a \in Int
  PROVE  /\ a \in 0..n-1 => a % n = a
         /\ a = -1 => a % n = n - 1
         /\ a >= 0 => a % n <= a
<1>1. ASSUME a \in 0..n-1 PROVE a % n = a
  <2>1. (n * 0 + a) % n = a
    BY <1>1, DivUnique
  <2>2. n * 0 + a = a
    OBVIOUS
  <2> QED
    BY <2>1, <2>2
<1>2. ASSUME a = -1 PROVE a % n = n - 1
  <2>1. (n * (-1) + (n - 1)) % n = n - 1
    BY DivUnique
  <2>2. n * (-1) + (n - 1) = -1
    OBVIOUS
  <2> QED
    BY <2>1, <2>2, <1>2
<1>3. ASSUME a >= 0 PROVE a % n <= a
  <2> DEFINE q == a \div n
             r == a % n
  <2>1. q \in Int /\ r \in 0..n-1 /\ a = n * q + r
    BY DivMod
  <2> HIDE DEF q, r
  <2>2. CASE q <= -1
    <3>1. n * q <= -n
      BY <2>1, <2>2
    <3> QED
      BY <3>1, <2>1, <1>3
  <2>3. CASE q >= 0
    <3>1. n * q >= 0
      BY <2>1, <2>3
    <3> QED
      BY <3>1, <2>1 DEF r
  <2> QED
    BY <2>1, <2>2, <2>3
<1> QED
  BY <1>1, <1>2, <1>3

LEMMA ModNext ==
  ASSUME NEW n \in Nat \ {0}, NEW a \in Int, NEW d \in Int
  PROVE  ((a % n) + d) % n = (a + d) % n
<1> DEFINE q == a \div n
           r == a % n
<1>1. q \in Int /\ r \in 0..n-1 /\ a = n * q + r
  BY DivMod
<1> HIDE DEF q
<1> DEFINE b == r + d
           p == b \div n
           s == b % n
<1>2. b \in Int
  BY <1>1
<1>3. p \in Int /\ s \in 0..n-1 /\ b = n * p + s
  BY <1>2, DivMod
<1> HIDE DEF p, s, r
<1>4. a + d = n * (q + p) + s
  BY <1>1, <1>3
<1>5. (n * (q + p) + s) % n = s
  BY <1>1, <1>3, DivUnique
<1> QED
  BY <1>4, <1>5 DEF s, r

(* The places go round.                                                    *)
LEMMA PlaceApart ==
  ASSUME NEW a \in Int, NEW b \in Int, a <= b, b - a < Items, Place(a) = Place(b)
  PROVE  a = b
<1>1. Items \in Nat \ {0} /\ a % Items = b % Items
  BY Bounds DEF Place
<1> QED
  BY <1>1, ModApart

LEMMA PlaceOf ==
  ASSUME NEW a \in Int
  PROVE  /\ Place(a) \in Places
         /\ a \in Places => Place(a) = a
         /\ a = -1 => Place(a) = Items - 1
         /\ a >= 0 => Place(a) <= a
<1>1. Items \in Nat \ {0}
  BY Bounds
<1> QED
  BY <1>1, DivMod, ModOf DEF Place, Places

LEMMA PlaceNext ==
  ASSUME NEW a \in Int, NEW d \in Int
  PROVE  Place(Place(a) + d) = Place(a + d)
<1>1. Items \in Nat \ {0}
  BY Bounds
<1> QED
  BY <1>1, ModNext DEF Place

----------------------------------------------------------------------------
(* What the player hears, and what the length byte says *)

LEMMA HeardStream ==
  ASSUME NEW p \in 1..Interval, NEW n \in 1..p
  PROVE  Heard(p, 0, n) = p - n
<1>1. Hear(p, 0) = p - 1
  BY Bounds DEF Hear
<1> QED
  BY <1>1, Bounds DEF Heard, Lost

LEMMA HeardSilence == Heard(0, 0, 1) = Interval
<1>1. Hear(0, 0) = Interval
  BY Bounds DEF Hear
<1> QED
  BY <1>1, Bounds DEF Heard, Lost

LEMMA HeardBlock ==
  ASSUME NEW r \in Nat \ {0}, NEW n \in 1..r, NEW byte
  PROVE  Heard(-r, byte, n) = IF n = r THEN Interval ELSE -(r - n)
<1>1. Hear(-r, byte) = IF r = 1 THEN Interval ELSE 1 - r
  BY Bounds DEF Hear
<1>2. -r # Lost
  BY Bounds DEF Lost
<1>3. CASE r = 1
  BY <1>1, <1>2, <1>3, Bounds DEF Heard
<1>4. CASE r # 1
  BY <1>1, <1>2, <1>4, Bounds DEF Heard
<1> QED
  BY <1>3, <1>4

LEMMA HeardLength ==
  ASSUME NEW r \in Nat \ {0}, NEW k \in Nat \ {0}, r = k * Unit + 1, NEW n \in 1..r
  PROVE  Heard(0, k, n) = IF n = r THEN Interval ELSE -(r - n)
<1> DEFINE m == k * Unit
<1>1. m \in Nat /\ m >= 1
  <2>1. k * Unit >= k
    BY Bounds
  <2> QED
    BY <2>1, Bounds
<1>2. Hear(0, k) = -m
  BY Bounds DEF Hear
<1>3. 0 # Lost /\ r = m + 1
  BY Bounds DEF Lost
<1> HIDE DEF m
<1>4. CASE n = r
  BY <1>1, <1>2, <1>3, <1>4, Bounds DEF Heard
<1>5. CASE n # r
  BY <1>1, <1>2, <1>3, <1>5, Bounds DEF Heard
<1> QED
  BY <1>4, <1>5

(* Of a title that fits, the block is as long as its first byte says.      *)
LEMMA FitsSayable ==
  ASSUME NEW n \in Nat, Fits(n)
  PROVE  Sayable(BlockLength(n))
<1> DEFINE a == n + Unit - 1
           q == a \div Unit
           r == a % Unit
<1>1. a \in Int /\ Unit \in Nat \ {0}
  BY Bounds
<1>2. q \in Int /\ r \in 0..Unit-1 /\ a = Unit * q + r
  BY <1>1, DivMod
<1>3. a >= 0 /\ a < Unit * (Units - 1)
  <2>1. Unit * (Units - 1) = Unit * (Units - 2) + Unit
    BY Bounds
  <2>2. Unit * (Units - 2) \in Int
    BY Bounds
  <2> QED
    BY <2>1, <2>2, Bounds DEF Fits
<1> HIDE DEF q, r, a
<1>4. q >= 0
  <2>1. SUFFICES ASSUME q <= -1 PROVE FALSE
    BY <1>2
  <2>2. Unit * q <= -Unit
    BY <2>1, <1>1, <1>2
  <2> QED
    BY <2>2, <1>1, <1>2, <1>3
<1>5. q <= Units - 2
  <2>1. SUFFICES ASSUME q >= Units - 1 PROVE FALSE
    BY <1>2, Bounds
  <2>2. Unit * q >= Unit * (Units - 1)
    BY <2>1, <1>1, <1>2, Bounds
  <2>3. Unit * (Units - 1) \in Int /\ Unit * q \in Int
    BY <1>1, <1>2, Bounds
  <2> QED
    BY <2>2, <2>3, <1>1, <1>2, <1>3
<1>6. q % Units = q
  BY <1>2, <1>4, <1>5, ModOf, Bounds
<1>7. BlockLength(n) = (q + 1) * Unit + 1
  BY <1>6 DEF BlockLength, q, a
<1>8. q + 1 \in 1..Units-1
  BY <1>2, <1>4, <1>5, Bounds
<1> QED
  BY <1>7, <1>8 DEF Sayable

LEMMA BlockLengthIs == ASSUME NEW n \in Nat PROVE BlockLength(n) \in Nat /\ BlockLength(n) >= 1
<1> DEFINE q == (n + Unit - 1) \div Unit
           k == q % Units
<1>1. n + Unit - 1 \in Int /\ Unit \in Nat \ {0} /\ Units \in Nat \ {0}
  BY Bounds
<1>2. q \in Int
  BY <1>1, DivMod
<1>3. k \in Nat
  <2>1. k \in 0..Units-1
    BY <1>1, <1>2, DivMod
  <2> QED
    BY <2>1, <1>1
<1>4. (k + 1) * Unit \in Nat
  BY <1>1, <1>3
<1> QED
  BY <1>4 DEF BlockLength

LEMMA LengthByteIs ==
  ASSUME NEW k \in 1..Units-1
  PROVE  LengthByte(k * Unit + 1) = k /\ k * Unit + 1 \in Nat \ {0}
<1>1. Unit \in Nat \ {0} /\ Units \in Nat \ {0} /\ k \in Nat /\ 1 \in 0..Unit-1
  BY Bounds
<1>2. (Unit * k + 1) \div Unit = k
  BY <1>1, DivUnique
<1>3. Unit * k = k * Unit /\ k * Unit \in Nat
  BY <1>1
<1>4. k % Units = k
  BY <1>1, ModOf
<1> QED
  BY <1>2, <1>3, <1>4 DEF LengthByte

----------------------------------------------------------------------------
(* Counting *)

Counting(S, f, b) == Cardinality({d \in S : f[d] = b})

(* How many elements of S have b, after c has changed.                     *)
LEMMA Recount ==
  ASSUME NEW S, IsFiniteSet(S), NEW c \in S, NEW f, NEW g, NEW b,
         \A d \in S : d # c => g[d] = f[d]
  PROVE  /\ Counting(S, f, b) \in Nat /\ Counting(S, g, b) \in Nat
         /\ (f[c] = b <=> g[c] = b) => Counting(S, g, b) = Counting(S, f, b)
         /\ f[c] = b /\ g[c] # b => Counting(S, g, b) = Counting(S, f, b) - 1
         /\ f[c] # b /\ g[c] = b => Counting(S, g, b) = Counting(S, f, b) + 1
<1> DEFINE R == {d \in S \ {c} : f[d] = b}
           F == {d \in S : f[d] = b}
           G == {d \in S : g[d] = b}
<1>1. IsFiniteSet(R) /\ c \notin R
  BY FS_Subset
<1>2. Cardinality(R) \in Nat /\ Cardinality(R \cup {c}) = Cardinality(R) + 1
  BY <1>1, FS_AddElement, FS_CardinalityType
<1>3. F = IF f[c] = b THEN R \cup {c} ELSE R
  OBVIOUS
<1>4. G = IF g[c] = b THEN R \cup {c} ELSE R
  OBVIOUS
<1> HIDE DEF R, F, G
<1>5. Cardinality(F) = Cardinality(R) + (IF f[c] = b THEN 1 ELSE 0)
  BY <1>2, <1>3
<1>6. Cardinality(G) = Cardinality(R) + (IF g[c] = b THEN 1 ELSE 0)
  BY <1>2, <1>4
<1>7. /\ Cardinality(F) \in Nat /\ Cardinality(G) \in Nat
      /\ (f[c] = b <=> g[c] = b) => Cardinality(G) = Cardinality(F)
      /\ f[c] = b /\ g[c] # b => Cardinality(G) = Cardinality(F) - 1
      /\ f[c] # b /\ g[c] = b => Cardinality(G) = Cardinality(F) + 1
  BY <1>2, <1>5, <1>6
<1> QED
  BY <1>7 DEF F, G, Counting

Having(b) == Cardinality({c \in MP3Clients : mp3[c].meta = b})

(* The listeners with block b, after one listener has changed.             *)
LEMMA HavingChanges ==
  ASSUME NEW c \in MP3Clients, NEW b,
         \A d \in MP3Clients : d # c => mp3'[d] = mp3[d]
  PROVE  /\ Having(b) \in Nat /\ Having(b)' \in Nat
         /\ (mp3[c].meta = b <=> mp3'[c].meta = b) => Having(b)' = Having(b)
         /\ mp3[c].meta = b /\ mp3'[c].meta # b => Having(b)' = Having(b) - 1
         /\ mp3[c].meta # b /\ mp3'[c].meta = b => Having(b)' = Having(b) + 1
<1> DEFINE f == [d \in MP3Clients |-> mp3[d].meta]
           g == [d \in MP3Clients |-> mp3'[d].meta]
           n == Counting(MP3Clients, f, b)
           m == Counting(MP3Clients, g, b)
<1>1. IsFiniteSet(MP3Clients) /\ \A d \in MP3Clients : d # c => g[d] = f[d]
  BY Bounds
<1>2. /\ n \in Nat /\ m \in Nat
      /\ (f[c] = b <=> g[c] = b) => m = n
      /\ f[c] = b /\ g[c] # b => m = n - 1
      /\ f[c] # b /\ g[c] = b => m = n + 1
  <2> HIDE DEF f, g
  <2> QED
    BY <1>1, Recount
<1>3. {d \in MP3Clients : f[d] = b} = {d \in MP3Clients : mp3[d].meta = b}
  OBVIOUS
<1>4. {d \in MP3Clients : g[d] = b} = {d \in MP3Clients : mp3'[d].meta = b}
  OBVIOUS
<1>5. n = Having(b) /\ m = Having(b)'
  BY <1>3, <1>4 DEF Having, Counting
<1>6. f[c] = mp3[c].meta /\ g[c] = mp3'[c].meta
  OBVIOUS
<1> HIDE DEF n, m, f, g
<1> QED
  BY <1>2, <1>5, <1>6

(* A block that a listener has is in use; one that is not, nobody has.     *)
LEMMA HavingIs ==
  ASSUME NEW b
  PROVE  Having(b) \in Nat /\ (Having(b) = 0 <=> \A c \in MP3Clients : mp3[c].meta # b)
<1> DEFINE S == {c \in MP3Clients : mp3[c].meta = b}
<1>1. IsFiniteSet(S)
  BY Bounds, FS_Subset
<1>2. Cardinality(S) \in Nat /\ (Cardinality(S) = 0 <=> S = {})
  BY <1>1, FS_CardinalityType, FS_EmptySet
<1> QED
  BY <1>2 DEF Having

LEMMA HoldersAre ==
  ASSUME NEW b
  PROVE  BlockHolders(b) = Having(b) + (IF psMP3Meta = b /\ Unlocked THEN 1 ELSE 0)
BY DEF BlockHolders, Having

LEMMA InUse ==
  ASSUME MP3Inv
  PROVE  /\ \A c \in MP3Clients : mp3[c].meta # None =>
              mp3[c].meta \in Blocks /\ block[mp3[c].meta].ulUsed > 0
         /\ psMP3Meta # None /\ Unlocked => psMP3Meta \in Blocks /\ block[psMP3Meta].ulUsed > 0
<1>1. ASSUME NEW c \in MP3Clients, mp3[c].meta # None
      PROVE  mp3[c].meta \in Blocks /\ block[mp3[c].meta].ulUsed > 0
  <2> DEFINE b == mp3[c].meta
  <2>1. b \in Blocks
    BY <1>1 DEF MP3Inv, MP3Typed, MP3Records
  <2>2. Having(b) \in Nat /\ Having(b) # 0
    BY HavingIs
  <2>3. block[b].ulUsed = Having(b) + (IF psMP3Meta = b /\ Unlocked THEN 1 ELSE 0)
    BY <2>1, HoldersAre DEF MP3Inv, BlocksCounted
  <2> QED
    BY <2>1, <2>2, <2>3
<1>2. ASSUME psMP3Meta # None, Unlocked
      PROVE  psMP3Meta \in Blocks /\ block[psMP3Meta].ulUsed > 0
  <2>1. psMP3Meta \in Blocks
    BY <1>2 DEF MP3Inv, MP3Typed
  <2>2. Having(psMP3Meta) \in Nat
    BY HavingIs
  <2>3. block[psMP3Meta].ulUsed = Having(psMP3Meta) + 1
    BY <1>2, <2>1, HoldersAre DEF MP3Inv, BlocksCounted
  <2> QED
    BY <2>1, <2>2, <2>3
<1> QED
  BY <1>1, <1>2

----------------------------------------------------------------------------
(* The steps of an MP3 listener *)

NoEdgeYet == mp3edge \cap {"raced", "lapped"} = {}

BlockRecent ==
  psMP3Meta # None /\ Unlocked => Recent(block[psMP3Meta].ulId, block[psMP3Meta].turn)

OnlyOf(c) == \A d \in MP3Clients : d # c => mp3'[d] = mp3[d]

(* The step of one listener c: what it does to its own record, and to the  *)
(* blocks others do not have.                                              *)
LEMMA ClientStep ==
  ASSUME MP3Inv, psMethods = "mp3", UNCHANGED <<psMethods, titles>>,
         NEW c \in MP3Clients, OnlyOf(c), MP3Typed',
         \A b \in Blocks : (\E d \in MP3Clients : d # c /\ mp3[d].meta = b) =>
                              block'[b].ulLength = block[b].ulLength,
         Shaped(mp3[c])', At(c, "copy")' => Unlocked,
         BlocksCounted',
         NoEdgeYet' => NoEdgeYet,
         "long" \notin mp3edge' =>
           /\ "long" \notin mp3edge
           /\ \A b \in Blocks : block'[b].ulUsed > 0 => Sayable(block'[b].ulLength)
           /\ (mp3[c].player = Due(mp3[c]))',
         LookedUp(mp3[c])',
         NoEdgeYet => Informed(mp3[c])' /\ BlockRecent'
  PROVE  MP3Inv'
<1>1. ASSUME NEW d \in MP3Clients, d # c
      PROVE  /\ mp3'[d] = mp3[d]
             /\ mp3[d].meta # None => block'[mp3[d].meta].ulLength = block[mp3[d].meta].ulLength
  <2>1. mp3'[d] = mp3[d]
    BY <1>1 DEF OnlyOf
  <2>2. mp3[d].meta \in Blocks \cup {None}
    BY DEF MP3Inv, MP3Typed, MP3Records
  <2> QED
    BY <1>1, <2>1, <2>2
<1>2. MP3Shaped'
  <2>1. ASSUME NEW d \in MP3Clients PROVE Shaped(mp3[d])'
    <3>1. CASE d = c
      BY <3>1
    <3>2. CASE d # c
      <4>1. Shaped(mp3[d])
        BY DEF MP3Inv, MP3Shaped
      <4> QED
        BY <4>1, <3>2, <1>1 DEF Shaped
    <3> QED
      BY <3>1, <3>2
  <2>2. ASSUME NEW d \in MP3Clients, NEW e \in MP3Clients, At(d, "copy")', At(e, "copy")'
        PROVE  d = e
    BY <2>2, <1>1 DEF MP3Inv, MP3Shaped, At, Unlocked
  <2> QED
    BY <2>1, <2>2 DEF MP3Shaped
<1>3. InStep'
  <2> SUFFICES ASSUME "long" \notin mp3edge', NEW d \in MP3Clients
               PROVE  (mp3[d].player = Due(mp3[d]))'
    BY DEF InStep
  <2>1. CASE d = c
    BY <2>1
  <2>2. CASE d # c
    <3>1. mp3[d].player = Due(mp3[d])
      BY DEF MP3Inv, InStep
    <3>2. mp3'[d] = mp3[d]
      BY <2>2, <1>1
    <3>3. (Due(mp3[d]))' = Due(mp3[d])
      <4>1. CASE mp3[d].meta = None
        BY <4>1, <3>2 DEF Due
      <4>2. CASE mp3[d].meta # None
        BY <4>2, <3>2, <2>2, <1>1 DEF Due
      <4> QED
        BY <4>1, <4>2
    <3> QED
      BY <3>1, <3>2, <3>3
  <2> QED
    BY <2>1, <2>2
<1>4. HistorySound'
  BY DEF MP3Inv, HistorySound, titles, InHistory, Place
<1>5. TitlesKept'
  <2>1. ASSUME NEW d \in MP3Clients PROVE LookedUp(mp3[d])'
    <3>1. CASE d = c
      BY <3>1
    <3>2. CASE d # c
      <4>1. LookedUp(mp3[d])
        BY DEF MP3Inv, TitlesKept
      <4> QED
        BY <4>1, <3>2, <1>1 DEF LookedUp, titles
    <3> QED
      BY <3>1, <3>2
  <2>2. ASSUME NoEdgeYet', NEW d \in MP3Clients PROVE Informed(mp3[d])'
    <3>1. CASE d = c
      BY <3>1, <2>2
    <3>2. CASE d # c
      <4>1. Informed(mp3[d])
        BY <2>2 DEF MP3Inv, TitlesKept, NoEdgeYet
      <4> QED
        BY <4>1, <3>2, <1>1 DEF Informed, titles, Recent
    <3> QED
      BY <3>1, <3>2
  <2>3. ASSUME NoEdgeYet' PROVE BlockRecent'
    BY <2>3
  <2> QED
    BY <2>1, <2>2, <2>3 DEF TitlesKept, NoEdgeYet, BlockRecent
<1> QED
  BY <1>2, <1>3, <1>4, <1>5 DEF MP3Inv

(* A step that leaves the blocks alone.                                    *)
LEMMA QuietStep ==
  ASSUME MP3Inv, psMethods = "mp3", UNCHANGED <<psMethods, titles, blocks, mp3edge>>,
         NEW c \in MP3Clients, NEW l \in MP3Records, Becomes(c, l),
         Shaped(l), l.meta = mp3[c].meta, ~At(c, "copy"), l.pc # "copy",
         "long" \notin mp3edge /\ mp3[c].player = Due(mp3[c]) => l.player = Due(l),
         LookedUp(l),
         NoEdgeYet => Informed(l)
  PROVE  MP3Inv'
<1>0. mp3 \in [MP3Clients -> MP3Records] /\ mp3' = [mp3 EXCEPT ![c] = l]
  BY DEF MP3Inv, MP3Typed, Becomes
<1>1. mp3' \in [MP3Clients -> MP3Records] /\ mp3'[c] = l /\ OnlyOf(c)
  BY <1>0 DEF OnlyOf
<1>2. block' = block /\ psMP3Meta' = psMP3Meta /\ mp3edge' = mp3edge
  BY DEF blocks
<1>3. MP3Typed'
  <2>1. MP3Typed
    BY DEF MP3Inv
  <2> QED
    BY <2>1, <1>1, <1>2 DEF MP3Typed, titles
<1>4. Unlocked' <=> Unlocked
  BY <1>1 DEF Unlocked, At, OnlyOf
<1>5. BlocksCounted'
  <2> SUFFICES ASSUME NEW b \in Blocks PROVE (block[b].ulUsed = BlockHolders(b))'
    BY DEF BlocksCounted
  <2>1. Having(b)' = Having(b)
    BY <1>1, HavingChanges DEF OnlyOf
  <2>2. block[b].ulUsed = BlockHolders(b)
    BY DEF MP3Inv, BlocksCounted
  <2>3. BlockHolders(b) = Having(b) + (IF psMP3Meta = b /\ Unlocked THEN 1 ELSE 0)
    BY HoldersAre
  <2>4. BlockHolders(b)' = Having(b)' + (IF psMP3Meta' = b /\ Unlocked' THEN 1 ELSE 0)
    BY DEF BlockHolders, Having
  <2> QED
    BY <2>1, <2>2, <2>3, <2>4, <1>2, <1>4
<1>6. Shaped(mp3[c])' /\ LookedUp(mp3[c])'
  BY <1>1, <1>2 DEF Shaped, LookedUp, titles
<1>7. NoEdgeYet => Informed(mp3[c])' /\ BlockRecent'
  BY <1>1, <1>2, <1>4 DEF Informed, titles, Recent, BlockRecent, MP3Inv, TitlesKept, NoEdgeYet
<1>8. (Due(mp3[c]))' = Due(l)
  BY <1>1, <1>2 DEF Due
<1>9. "long" \notin mp3edge =>
        /\ \A b \in Blocks : block[b].ulUsed > 0 => Sayable(block[b].ulLength)
        /\ (mp3[c].player = Due(mp3[c]))'
  BY <1>1, <1>8 DEF MP3Inv, InStep
<1>10. ~At(c, "copy")'
  BY <1>1 DEF At
<1> QED
  BY <1>1, <1>2, <1>3, <1>5, <1>6, <1>7, <1>9, <1>10, ClientStep DEF NoEdgeYet

(* What the invariant says of one listener.                                *)
LEMMA ListenerIs ==
  ASSUME MP3Inv, NEW c \in MP3Clients
  PROVE  /\ mp3[c] \in MP3Records /\ Shaped(mp3[c]) /\ LookedUp(mp3[c])
         /\ NoEdgeYet => Informed(mp3[c])
         /\ "long" \notin mp3edge => mp3[c].player = Due(mp3[c])
         /\ ulMetaIdx \in Places /\ said \in Turns
BY DEF MP3Inv, MP3Typed, MP3Shaped, TitlesKept, InStep, NoEdgeYet

LEMMA AwayIs ==
  /\ Away \in MP3Records /\ Shaped(Away) /\ LookedUp(Away) /\ Informed(Away)
  /\ Away.player = Due(Away) /\ Away.meta = None /\ Away.pc = "away"
<1>1. 0 \in Places /\ 0 \in Turns /\ Interval \in Nat
  BY Bounds, LengthsAre DEF Places, Turns
<1>2. Away \in MP3Records
  BY <1>1, Bounds DEF Away, MP3Records, NoTitle, None
<1> QED
  BY <1>1, <1>2, Bounds DEF Away, Shaped, LookedUp, Informed, Due, None

LEMMA NewKeeps ==
  ASSUME MP3Inv, psMethods = "mp3", UNCHANGED psMethods, NEW c \in MP3Clients, MP3ClientNew(c)
  PROVE  MP3Inv'
<1> DEFINE a == Away
           l == [a EXCEPT !.pc = "read"]
<1>1. Becomes(c, l) /\ At(c, "away") /\ UNCHANGED <<titles, blocks, mp3edge>>
  BY DEF MP3ClientNew
<1>2. a \in MP3Records /\ a.meta = None /\ a.player = Interval /\ a.ulMetaCount = 0 /\ a.lastId = None
  BY AwayIs DEF Away
<1>3. mp3[c].meta = None
  BY <1>1, ListenerIs DEF Shaped, At
<1> HIDE DEF a
<1>4. /\ l \in MP3Records /\ l.pc = "read" /\ l.meta = None /\ l.player = Interval
      /\ l.ulMetaCount = 0 /\ l.lastId = None
  BY <1>2 DEF MP3Records
<1> HIDE DEF l
<1>5. Shaped(l) /\ LookedUp(l) /\ Informed(l) /\ l.player = Due(l)
  BY <1>4, Bounds DEF Shaped, LookedUp, Informed, Due
<1> QED
  BY <1>1, <1>3, <1>4, <1>5, QuietStep DEF At

LEMMA ReadKeeps ==
  ASSUME MP3Inv, psMethods = "mp3", UNCHANGED psMethods, NEW c \in MP3Clients, MP3Read(c)
  PROVE  MP3Inv'
<1> DEFINE k == mp3[c]
<1>1. PICK n \in ReadLens : Becomes(c, [k EXCEPT !.left = n])
  BY DEF MP3Read
<1>2. UNCHANGED <<titles, blocks, mp3edge>> /\ k.pc = "read"
  BY DEF MP3Read, At
<1>3. /\ k \in MP3Records /\ Shaped(k) /\ LookedUp(k) /\ (NoEdgeYet => Informed(k))
  BY ListenerIs
<1> HIDE DEF k
<1> DEFINE l == [k EXCEPT !.left = n]
<1>4. l \in MP3Records /\ l.pc = "read" /\ l.meta = k.meta /\ l.player = k.player
      /\ l.ulMetaCount = k.ulMetaCount /\ l.lastId = k.lastId /\ l.at = k.at /\ l.told = k.told
  BY <1>2, <1>3, Bounds DEF MP3Records
<1>5. Becomes(c, l)
  BY <1>1
<1> HIDE DEF l
<1>6. Shaped(l) /\ LookedUp(l) /\ (NoEdgeYet => Informed(l)) /\ Due(l) = Due(k)
  BY <1>2, <1>3, <1>4 DEF Shaped, LookedUp, Informed, Due
<1> QED
  BY <1>2, <1>4, <1>5, <1>6, QuietStep DEF At, k

LEMMA LookKeeps ==
  ASSUME MP3Inv, psMethods = "mp3", UNCHANGED psMethods, NEW c \in MP3Clients, MetaLook(c)
  PROVE  MP3Inv'
<1> DEFINE k == mp3[c]
           l == [k EXCEPT !.pc = "lock", !.idx = ulMetaIdx]
<1>1. UNCHANGED <<titles, blocks, mp3edge>> /\ k.pc = "look" /\ Becomes(c, l)
  BY DEF MetaLook, At
<1>2. /\ k \in MP3Records /\ Shaped(k) /\ (NoEdgeYet => Informed(k)) /\ ulMetaIdx \in Places
  BY ListenerIs
<1>3. ulMetaIdx <= said
  <2>1. ulMetaIdx = Place(said) /\ said \in Nat
    BY LengthsAre DEF MP3Inv, HistorySound, MP3Typed, Turns
  <2> QED
    BY <2>1, PlaceOf
<1> HIDE DEF k
<1>4. l \in MP3Records /\ l.pc = "lock" /\ l.meta = k.meta /\ l.player = k.player
      /\ l.ulMetaCount = k.ulMetaCount /\ l.lastId = k.lastId /\ l.at = k.at /\ l.told = k.told
      /\ l.idx = ulMetaIdx
  BY <1>1, <1>2 DEF MP3Records
<1> HIDE DEF l
<1>5. Shaped(l) /\ LookedUp(l) /\ (NoEdgeYet => Informed(l)) /\ Due(l) = Due(k)
  BY <1>1, <1>2, <1>3, <1>4 DEF Shaped, LookedUp, Informed, Due
<1> QED
  BY <1>1, <1>4, <1>5, QuietStep DEF At, k

LEMMA NoteKeeps ==
  ASSUME MP3Inv, psMethods = "mp3", UNCHANGED psMethods, NEW c \in MP3Clients, MetaNote(c)
  PROVE  MP3Inv'
<1> DEFINE k == mp3[c]
           l == [k EXCEPT !.pc = "read", !.ulMetaCount = 0, !.lastId = ulMetaIdx, !.at = said]
<1>1. UNCHANGED <<titles, blocks, mp3edge>> /\ k.pc = "note" /\ Becomes(c, l)
  BY DEF MetaNote, At
<1>2. /\ k \in MP3Records /\ Shaped(k) /\ (NoEdgeYet => Informed(k))
      /\ ulMetaIdx \in Places /\ said \in Turns
  BY ListenerIs
<1>3. Recent(ulMetaIdx, said)
  BY <1>2, Bounds, LengthsAre DEF MP3Inv, HistorySound, Recent, Turns
<1>4. k.meta # None => block[k.meta].ulLength \in Nat
  BY <1>2 DEF MP3Inv, MP3Typed, BlockRecords, MP3Records
<1> HIDE DEF k
<1>5. l \in MP3Records /\ l.pc = "read" /\ l.meta = k.meta /\ l.player = k.player
      /\ l.ulMetaCount = 0 /\ l.lastId = ulMetaIdx /\ l.at = said /\ l.told = k.told
  BY <1>1, <1>2 DEF MP3Records
<1> HIDE DEF l
<1>6. Shaped(l) /\ LookedUp(l) /\ (NoEdgeYet => Informed(l))
  BY <1>1, <1>2, <1>3, <1>4, <1>5 DEF Shaped, LookedUp, Informed
<1>7. k.player = Due(k) => l.player = Due(l)
  BY <1>1, <1>2, <1>5, Bounds DEF Due, Shaped
<1> QED
  BY <1>1, <1>5, <1>6, <1>7, QuietStep DEF At, k

LEMMA TitleKeeps ==
  ASSUME MP3Inv, psMethods = "mp3", UNCHANGED psMethods, NEW c \in MP3Clients, ReadTitle(c)
  PROVE  MP3Inv'
<1> DEFINE k == mp3[c]
           l == [k EXCEPT !.pc = "look"]
<1>1. /\ UNCHANGED <<titles, blocks, mp3edge>> /\ k.pc = "read" /\ k.meta = None
      /\ k.ulMetaCount = Interval /\ Becomes(c, l)
  BY DEF ReadTitle, Reading, At
<1>2. /\ k \in MP3Records /\ Shaped(k) /\ (NoEdgeYet => Informed(k))
  BY ListenerIs
<1> HIDE DEF k
<1>3. l \in MP3Records /\ l.pc = "look" /\ l.meta = k.meta /\ l.player = k.player
      /\ l.ulMetaCount = k.ulMetaCount /\ l.lastId = k.lastId /\ l.at = k.at /\ l.told = k.told
  BY <1>1, <1>2 DEF MP3Records
<1> HIDE DEF l
<1>4. Shaped(l) /\ LookedUp(l) /\ (NoEdgeYet => Informed(l)) /\ Due(l) = Due(k)
  BY <1>1, <1>2, <1>3 DEF Shaped, LookedUp, Informed, Due
<1> QED
  BY <1>1, <1>3, <1>4, QuietStep DEF At, k

LEMMA MinIs ==
  ASSUME NEW S \in SUBSET Int, NEW m \in S, \A x \in S : m <= x
  PROVE  Min(S) = m
<1> DEFINE P(x) == x \in S /\ \A y \in S : x <= y
<1>1. P(m)
  OBVIOUS
<1>2. \A x : P(x) => x = m
  OBVIOUS
<1> QED
  BY <1>1, <1>2 DEF Min

LEMMA MinOfTwo ==
  ASSUME NEW a \in Int, NEW b \in Int
  PROVE  Min({a, b}) = IF a <= b THEN a ELSE b
<1>1. CASE a <= b
  BY <1>1, MinIs
<1>2. CASE ~(a <= b)
  BY <1>2, MinIs
<1> QED
  BY <1>1, <1>2

(* n bytes more, of which the player makes p.                              *)
LEMMA Given ==
  ASSUME NEW k \in MP3Records, NEW byte, NEW n \in Nat, n <= k.left,
         NEW p \in Int, Heard(k.player, byte, n) = p
  PROVE  LET l == Give(k, byte, n)
         IN  /\ l \in MP3Records /\ l.pc = k.pc /\ l.meta = k.meta /\ l.player = p
             /\ l.ulMetaCount = k.ulMetaCount + n /\ l.lastId = k.lastId
             /\ l.at = k.at /\ l.told = k.told
<1> DEFINE l == Give(k, byte, n)
<1>1. l = [k EXCEPT !.ulMetaCount = @ + n, !.left = @ - n, !.player = p]
  BY DEF Give
<1>2. k.ulMetaCount + n \in Nat /\ k.left - n \in Nat
  BY DEF MP3Records
<1>3. /\ l \in MP3Records /\ l.pc = k.pc /\ l.meta = k.meta /\ l.player = p
      /\ l.ulMetaCount = k.ulMetaCount + n /\ l.lastId = k.lastId
      /\ l.at = k.at /\ l.told = k.told
  BY <1>1, <1>2 DEF MP3Records
<1> HIDE DEF l
<1> QED
  BY <1>3 DEF l

LEMMA StreamKeeps ==
  ASSUME MP3Inv, psMethods = "mp3", UNCHANGED psMethods, NEW c \in MP3Clients, ReadStream(c)
  PROVE  MP3Inv'
<1> DEFINE k == mp3[c]
           n == Min({Interval - k.ulMetaCount, k.left})
<1>1. /\ UNCHANGED <<titles, blocks, mp3edge>> /\ k.pc = "read" /\ k.meta = None
      /\ k.ulMetaCount < Interval /\ k.left > 0
      /\ \/ Becomes(c, Give(k, 0, n))
         \/ Becomes(c, [k EXCEPT !.left = 0])
         \/ Becomes(c, [Away EXCEPT !.pc = "dropped"])
  BY DEF ReadStream, Reading, At
<1>2. /\ k \in MP3Records /\ Shaped(k) /\ (NoEdgeYet => Informed(k))
      /\ ("long" \notin mp3edge => k.player = Due(k))
  BY ListenerIs
<1>3. n \in Nat /\ n >= 1 /\ n <= Interval - k.ulMetaCount /\ n <= k.left
  <2>1. k.ulMetaCount \in Nat /\ k.left \in Nat
    BY <1>2 DEF MP3Records
  <2> DEFINE a == Interval - k.ulMetaCount
             b == k.left
  <2>2. a \in Int /\ b \in Int /\ a >= 1 /\ b >= 1 /\ n = Min({a, b})
    BY <1>1, <2>1, Bounds
  <2> HIDE DEF k, a, b, n
  <2>3. n \in Nat /\ n >= 1 /\ n <= a /\ n <= b
    BY <2>2, MinOfTwo
  <2> QED
    BY <2>3 DEF a, b
<1> HIDE DEF k, n
<1>4. ASSUME Becomes(c, Give(k, 0, n)) PROVE MP3Inv'
  <2> DEFINE l == Give(k, 0, n)
             p == Heard(k.player, 0, n)
  <2>1. p \in Int
    <3>1. k.player \in Int
      BY <1>2 DEF MP3Records
    <3> QED
      BY <1>3, <3>1, Bounds DEF Heard, Hear, Lost
  <2>2. /\ l \in MP3Records /\ l.pc = k.pc /\ l.meta = k.meta /\ l.player = p
        /\ l.ulMetaCount = k.ulMetaCount + n /\ l.lastId = k.lastId
        /\ l.at = k.at /\ l.told = k.told
    <3> HIDE DEF p
    <3>1. Heard(k.player, 0, n) = p
      BY DEF p
    <3> QED
      BY <1>2, <1>3, <2>1, <3>1, Given
  <2>3. ASSUME k.player = Due(k) PROVE l.player = Due(l)
    <3>1. k.player = Interval - k.ulMetaCount /\ k.ulMetaCount \in Nat
      BY <2>3, <1>1, <1>2 DEF Due, MP3Records
    <3>2. k.player \in 1..Interval /\ n \in 1..k.player
      BY <3>1, <1>1, <1>3, Bounds
    <3>3. p = k.player - n
      BY <3>2, HeardStream
    <3> HIDE DEF l, p
    <3>4. Due(l) = Interval - (k.ulMetaCount + n)
      BY <2>2, <1>1 DEF Due
    <3> QED
      BY <3>1, <3>3, <3>4, <2>2, <1>3, Bounds
  <2> HIDE DEF l
  <2>4. l.ulMetaCount <= Interval /\ Becomes(c, l)
    BY <2>2, <1>1, <1>2, <1>3, <1>4, Bounds DEF MP3Records, l
  <2>5. Shaped(l) /\ LookedUp(l) /\ (NoEdgeYet => Informed(l))
    BY <1>1, <1>2, <2>2, <2>4 DEF Shaped, LookedUp, Informed
  <2> QED
    BY <1>1, <1>2, <2>2, <2>3, <2>4, <2>5, QuietStep DEF At, k
<1>5. ASSUME Becomes(c, [k EXCEPT !.left = 0]) PROVE MP3Inv'
  <2> DEFINE l == [k EXCEPT !.left = 0]
  <2>1. l \in MP3Records /\ l.pc = "read" /\ l.meta = k.meta /\ l.player = k.player
        /\ l.ulMetaCount = k.ulMetaCount /\ l.lastId = k.lastId /\ l.at = k.at /\ l.told = k.told
    BY <1>1, <1>2 DEF MP3Records
  <2>2. Becomes(c, l)
    BY <1>5
  <2> HIDE DEF l
  <2>3. Shaped(l) /\ LookedUp(l) /\ (NoEdgeYet => Informed(l)) /\ Due(l) = Due(k)
    BY <1>1, <1>2, <2>1 DEF Shaped, LookedUp, Informed, Due
  <2> QED
    BY <1>1, <2>1, <2>2, <2>3, QuietStep DEF At, k
<1>6. ASSUME Becomes(c, [Away EXCEPT !.pc = "dropped"]) PROVE MP3Inv'
  <2> DEFINE a == Away
             l == [a EXCEPT !.pc = "dropped"]
  <2>1. a \in MP3Records /\ a.meta = None /\ a.player = Interval /\ a.ulMetaCount = 0 /\ a.lastId = None
    BY AwayIs DEF Away
  <2>2. Becomes(c, l)
    BY <1>6
  <2> HIDE DEF a
  <2>3. /\ l \in MP3Records /\ l.pc = "dropped" /\ l.meta = None /\ l.player = Interval
        /\ l.ulMetaCount = 0 /\ l.lastId = None
    BY <2>1 DEF MP3Records
  <2> HIDE DEF l
  <2>4. Shaped(l) /\ LookedUp(l) /\ Informed(l) /\ l.player = Due(l)
    BY <2>3, Bounds DEF Shaped, LookedUp, Informed, Due
  <2> QED
    BY <1>1, <2>2, <2>3, <2>4, QuietStep DEF At, k
<1> QED
  BY <1>1, <1>4, <1>5, <1>6

LEMMA SilenceKeeps ==
  ASSUME MP3Inv, psMethods = "mp3", UNCHANGED psMethods, NEW c \in MP3Clients, ReadSilence(c)
  PROVE  MP3Inv'
<1> DEFINE k == mp3[c]
           g == Give(k, 0, 1)
           l == [g EXCEPT !.ulMetaCount = 0]
<1>1. /\ UNCHANGED <<titles, blocks, mp3edge>> /\ k.pc = "read" /\ k.meta = None
      /\ k.ulMetaCount = Interval /\ k.left > 0 /\ Becomes(c, l)
  BY DEF ReadSilence, Reading, At
<1>2. /\ k \in MP3Records /\ Shaped(k) /\ (NoEdgeYet => Informed(k))
      /\ ("long" \notin mp3edge => k.player = Due(k))
  BY ListenerIs
<1> HIDE DEF k
<1> DEFINE p == Heard(k.player, 0, 1)
<1>3. p \in Int
  <2>1. k.player \in Int
    BY <1>2 DEF MP3Records
  <2> QED
    BY <2>1, Bounds DEF Heard, Hear, Lost
<1>4. /\ g \in MP3Records /\ g.pc = k.pc /\ g.meta = k.meta /\ g.player = p
      /\ g.lastId = k.lastId /\ g.at = k.at /\ g.told = k.told
  <2> HIDE DEF p
  <2>1. Heard(k.player, 0, 1) = p /\ 1 <= k.left
    BY <1>1, <1>2 DEF p, MP3Records
  <2> QED
    BY <1>2, <1>3, <2>1, Given
<1> HIDE DEF g
<1>5. /\ l \in MP3Records /\ l.pc = "read" /\ l.meta = k.meta /\ l.player = p
      /\ l.ulMetaCount = 0 /\ l.lastId = k.lastId /\ l.at = k.at /\ l.told = k.told
  BY <1>1, <1>4 DEF MP3Records
<1>6. ASSUME k.player = Due(k) PROVE l.player = Due(l)
  <2>1. k.player = 0
    BY <1>6, <1>1, Bounds DEF Due
  <2>2. p = Interval
    BY <2>1, HeardSilence
  <2> HIDE DEF l, p
  <2>3. Due(l) = Interval - 0
    BY <1>1, <1>5 DEF Due
  <2> QED
    BY <2>2, <2>3, <1>5, Bounds
<1> HIDE DEF l
<1>7. Shaped(l) /\ LookedUp(l) /\ (NoEdgeYet => Informed(l))
  BY <1>1, <1>2, <1>5, Bounds DEF Shaped, LookedUp, Informed
<1> QED
  BY <1>1, <1>2, <1>5, <1>6, <1>7, QuietStep DEF At, k

LEMMA BlockKeeps ==
  ASSUME MP3Inv, psMethods = "mp3", UNCHANGED psMethods, NEW c \in MP3Clients, ReadBlock(c)
  PROVE  MP3Inv'
<1> DEFINE k == mp3[c]
           size == block[k.meta].ulLength
           n == Min({size - k.ulMetaCount, k.left})
           byte == LengthByte(size)
           l == Give(k, byte, n)
<1>1. /\ UNCHANGED <<titles, blocks, mp3edge>> /\ k.pc = "read" /\ k.meta # None
      /\ k.ulMetaCount < size /\ k.left > 0 /\ Becomes(c, l)
  BY DEF ReadBlock, Reading, At
<1>2. /\ k \in MP3Records /\ Shaped(k) /\ (NoEdgeYet => Informed(k))
      /\ ("long" \notin mp3edge => k.player = Due(k))
  BY ListenerIs
<1>3. k.meta \in Blocks /\ block[k.meta].ulUsed > 0
  BY <1>1, InUse
<1>4. size \in Nat
  BY <1>3 DEF MP3Inv, MP3Typed, BlockRecords
<1>5. "long" \notin mp3edge => Sayable(size)
  BY <1>3 DEF MP3Inv, InStep
<1> HIDE DEF k
<1>6. k.ulMetaCount \in Nat /\ k.left \in Nat /\ k.player \in Int
  BY <1>2 DEF MP3Records
<1>7. n \in Nat /\ n >= 1 /\ n <= size - k.ulMetaCount /\ n <= k.left
  <2> DEFINE d == size - k.ulMetaCount
  <2> HIDE DEF size
  <2>1. d \in Int /\ d >= 1 /\ k.left \in Int /\ k.left >= 1
    BY <1>1, <1>4, <1>6
  <2> HIDE DEF d
  <2>2. Min({d, k.left}) = IF d <= k.left THEN d ELSE k.left
    BY <2>1, MinOfTwo
  <2>3. Min({d, k.left}) \in Nat /\ Min({d, k.left}) >= 1 /\ Min({d, k.left}) <= d /\ Min({d, k.left}) <= k.left
    BY <2>1, <2>2
  <2> QED
    BY <2>3 DEF d
<1> HIDE DEF n
<1> DEFINE p == Heard(k.player, byte, n)
<1>8. byte \in Int
  <2>1. Unit \in Nat \ {0} /\ Units \in Nat \ {0}
    BY Bounds
  <2> HIDE DEF size
  <2>2. size \div Unit \in Int
    BY <1>4, <2>1, DivMod
  <2> DEFINE d == size \div Unit
  <2> HIDE DEF d
  <2>3. d % Units \in 0..Units-1
    <3>1. d \in Int
      BY <2>2 DEF d
    <3> QED
      BY <2>1, <3>1, DivMod
  <2>4. d % Units \in Int
    BY <2>1, <2>3
  <2> QED
    BY <2>4 DEF LengthByte, d
<1>9. p \in Int
  <2> HIDE DEF byte
  <2>1. byte * Unit \in Int
    BY <1>8, Bounds
  <2>2. Hear(k.player, byte) \in Int
    BY <1>6, <2>1, Bounds DEF Hear
  <2> QED
    BY <1>6, <1>7, <2>2, Bounds DEF Heard, Lost
<1>10. /\ l \in MP3Records /\ l.pc = k.pc /\ l.meta = k.meta /\ l.player = p
       /\ l.ulMetaCount = k.ulMetaCount + n /\ l.lastId = k.lastId
       /\ l.at = k.at /\ l.told = k.told
  <2> HIDE DEF p, byte
  <2>1. Heard(k.player, byte, n) = p
    BY DEF p
  <2> QED
    BY <1>2, <1>7, <1>9, <2>1, Given
<1> HIDE DEF l
<1>11. ASSUME "long" \notin mp3edge, k.player = Due(k) PROVE l.player = Due(l)
  <2>1. Due(k) = IF k.ulMetaCount = 0 THEN 0 ELSE -(size - k.ulMetaCount)
    BY <1>1, <1>4, <1>6 DEF Due
  <2>2. Due(l) = IF k.ulMetaCount + n = size THEN Interval ELSE -(size - (k.ulMetaCount + n))
    BY <1>1, <1>4, <1>6, <1>7, <1>10 DEF Due
  <2>3. CASE k.ulMetaCount = 0
    <3>1. PICK j \in 1..Units-1 : size = j * Unit + 1
      BY <1>5, <1>11 DEF Sayable
    <3>2. byte = j
      BY <3>1, LengthByteIs
    <3> HIDE DEF size, byte, p
    <3>3. p = IF n = size THEN Interval ELSE -(size - n)
      <4>1. k.player = 0 /\ j \in Nat \ {0} /\ size \in Nat \ {0} /\ n \in 1..size
        BY <1>11, <2>1, <2>3, <1>4, <1>7, <1>1, Bounds
      <4> QED
        BY <3>1, <3>2, <4>1, HeardLength DEF p
    <3> QED
      BY <2>2, <2>3, <3>3, <1>10, <1>4, <1>6, <1>7
  <2>4. CASE k.ulMetaCount # 0
    <3> DEFINE r == size - k.ulMetaCount
    <3>1. r \in Nat \ {0} /\ n \in 1..r /\ k.player = -r
      BY <1>1, <1>4, <1>6, <1>7, <1>11, <2>1, <2>4
    <3>2. p = IF n = r THEN Interval ELSE -(r - n)
      <4> HIDE DEF r, byte
      <4> QED
        BY <3>1, HeardBlock
    <3> HIDE DEF size, p
    <3> QED
      BY <2>2, <3>1, <3>2, <1>10, <1>4, <1>6, <1>7
  <2> QED
    BY <2>3, <2>4
<1>12. l.ulMetaCount <= size
  <2> HIDE DEF size
  <2> QED
    BY <1>4, <1>6, <1>7, <1>10
<1>13. Shaped(l) /\ LookedUp(l) /\ (NoEdgeYet => Informed(l))
  BY <1>1, <1>2, <1>10, <1>12 DEF Shaped, LookedUp, Informed
<1> QED
  BY <1>1, <1>2, <1>10, <1>11, <1>13, QuietStep DEF At, k

----------------------------------------------------------------------------
(* The steps that take, make and give back blocks *)

LEMMA HavingNext ==
  ASSUME NEW b
  PROVE  Having(b)' \in Nat /\ (Having(b)' = 0 <=> \A c \in MP3Clients : mp3'[c].meta # b)
<1> DEFINE S == {c \in MP3Clients : mp3'[c].meta = b}
<1>1. IsFiniteSet(S)
  BY Bounds, FS_Subset
<1>2. Cardinality(S) \in Nat /\ (Cardinality(S) = 0 <=> S = {})
  BY <1>1, FS_CardinalityType, FS_EmptySet
<1> QED
  BY <1>2 DEF Having

LEMMA HoldersNext ==
  ASSUME NEW b
  PROVE  BlockHolders(b)' = Having(b)' + (IF psMP3Meta' = b /\ Unlocked' THEN 1 ELSE 0)
BY DEF BlockHolders, Having

(* A listener becomes l, and the typing of what it changes.                *)
LEMMA Became ==
  ASSUME MP3Inv, UNCHANGED <<psMethods, titles>>, psMethods = "mp3",
         NEW c \in MP3Clients, NEW l \in MP3Records, Becomes(c, l),
         block' \in [Blocks -> BlockRecords], psMP3Meta' \in Blocks \cup {None}
  PROVE  MP3Typed' /\ mp3'[c] = l /\ OnlyOf(c)
<1>1. mp3 \in [MP3Clients -> MP3Records] /\ mp3' = [mp3 EXCEPT ![c] = l]
  BY DEF MP3Inv, MP3Typed, Becomes
<1>2. mp3' \in [MP3Clients -> MP3Records] /\ mp3'[c] = l /\ OnlyOf(c)
  BY <1>1 DEF OnlyOf
<1>3. MP3Typed
  BY DEF MP3Inv
<1> QED
  BY <1>2, <1>3 DEF MP3Typed, titles

LEMMA Released ==
  ASSUME MP3Typed, NEW b \in Blocks
  PROVE  LET r == Release(b, block, psMP3Meta)
         IN  /\ r.block \in [Blocks -> BlockRecords] /\ r.own \in Blocks \cup {None}
             /\ \A x \in Blocks : x # b => r.block[x] = block[x]
             /\ r.block[b].ulUsed = block[b].ulUsed - 1
             /\ block[b].ulUsed # 1 => r.own = psMP3Meta
             /\ block[b].ulUsed # 1 => /\ r.block[b].ulLength = block[b].ulLength
                                       /\ r.block[b].ulId = block[b].ulId
                                       /\ r.block[b].turn = block[b].turn
             /\ block[b].ulUsed = 1 => r.own = IF psMP3Meta = b THEN None ELSE psMP3Meta
<1> DEFINE k == block[b]
           used == k.ulUsed - 1
           n == [k EXCEPT !.ulUsed = used]
           r == Release(b, block, psMP3Meta)
           z == NoBlock
<1>1. block \in [Blocks -> BlockRecords] /\ k \in BlockRecords /\ psMP3Meta \in Blocks \cup {None}
  BY DEF MP3Typed
<1>2. z \in BlockRecords /\ z.ulUsed = 0
  <2>1. 0 \in Places /\ 0 \in Turns
    BY Bounds, LengthsAre DEF Places, Turns
  <2> QED
    BY <2>1 DEF NoBlock, BlockRecords
<1>3. r.block = [block EXCEPT ![b] = IF used = 0 THEN z ELSE n]
  BY <1>1 DEF Release
<1>4. r.own = IF used = 0 /\ psMP3Meta = b THEN None ELSE psMP3Meta
  BY DEF Release
<1> HIDE DEF k, z, r
<1>5. /\ n \in BlockRecords /\ n.ulUsed = used /\ n.ulLength = k.ulLength
      /\ n.ulId = k.ulId /\ n.turn = k.turn /\ k.ulUsed \in Int
  BY <1>1 DEF BlockRecords
<1> HIDE DEF n
<1>6. used = 0 <=> k.ulUsed = 1
  BY <1>5
<1>7. /\ r.block \in [Blocks -> BlockRecords]
      /\ \A x \in Blocks : x # b => r.block[x] = block[x]
      /\ r.block[b] = IF used = 0 THEN z ELSE n
  BY <1>1, <1>2, <1>3, <1>5
<1>8. r.block[b].ulUsed = used
  BY <1>7, <1>2, <1>5
<1> HIDE DEF used
<1>9. k.ulUsed # 1 => r.block[b] = n /\ r.own = psMP3Meta
  BY <1>4, <1>6, <1>7
<1>10. k.ulUsed = 1 => r.own = IF psMP3Meta = b THEN None ELSE psMP3Meta
  BY <1>4, <1>6
<1>11. r.own \in Blocks \cup {None}
  BY <1>1, <1>4
<1> QED
  BY <1>5, <1>7, <1>8, <1>9, <1>10, <1>11 DEF k, r, used

(* A listener gives its block back.                                        *)
LEMMA LetGo ==
  ASSUME MP3Inv, psMethods = "mp3", UNCHANGED <<psMethods, titles, mp3edge>>,
         NEW c \in MP3Clients, NEW l \in MP3Records, Becomes(c, l),
         mp3[c].meta # None, Unlocked,
         block' = Release(mp3[c].meta, block, psMP3Meta).block,
         psMP3Meta' = Release(mp3[c].meta, block, psMP3Meta).own,
         l.meta = None, l.pc # "copy", Shaped(l), LookedUp(l), NoEdgeYet => Informed(l),
         l.player = Due(l) \/ "long" \in mp3edge
  PROVE  MP3Inv'
<1> DEFINE b == mp3[c].meta
<1>0. MP3Typed /\ b \in Blocks /\ block[b].ulUsed > 0
  BY InUse DEF MP3Inv
<1>1. /\ block' \in [Blocks -> BlockRecords] /\ psMP3Meta' \in Blocks \cup {None}
      /\ \A x \in Blocks : x # b => block'[x] = block[x]
      /\ block'[b].ulUsed = block[b].ulUsed - 1
      /\ block[b].ulUsed # 1 => psMP3Meta' = psMP3Meta
      /\ block[b].ulUsed # 1 => /\ block'[b].ulLength = block[b].ulLength
                                /\ block'[b].ulId = block[b].ulId
                                /\ block'[b].turn = block[b].turn
      /\ block[b].ulUsed = 1 => psMP3Meta' = IF psMP3Meta = b THEN None ELSE psMP3Meta
  <2> HIDE DEF b
  <2>1. block' = Release(b, block, psMP3Meta).block /\ psMP3Meta' = Release(b, block, psMP3Meta).own
    BY DEF b
  <2> QED
    BY <1>0, <2>1, Released
<1>2. MP3Typed' /\ mp3'[c] = l /\ OnlyOf(c)
  BY <1>1, Became
<1>3. Unlocked'
  BY <1>2 DEF Unlocked, At, OnlyOf
<1> HIDE DEF b
<1>4. ASSUME NEW x \in Blocks PROVE (block[x].ulUsed = BlockHolders(x))'
  <2>1. /\ Having(x) \in Nat /\ Having(x)' \in Nat
        /\ Having(x)' = IF x = b THEN Having(x) - 1 ELSE Having(x)
    <3>1. mp3[c].meta = b /\ mp3'[c].meta # x
      BY <1>2, <1>0 DEF b, Blocks, None
    <3> QED
      BY <1>2, <3>1, HavingChanges DEF OnlyOf
  <2>2. block[x].ulUsed = Having(x) + (IF psMP3Meta = x THEN 1 ELSE 0)
    BY HoldersAre DEF MP3Inv, BlocksCounted
  <2>3. BlockHolders(x)' = Having(x)' + (IF psMP3Meta' = x THEN 1 ELSE 0)
    BY <1>3, HoldersNext
  <2>4. CASE x # b
    <3>1. psMP3Meta' = x <=> psMP3Meta = x
      BY <1>1, <2>4 DEF Blocks, None
    <3> QED
      BY <1>1, <2>1, <2>2, <2>3, <2>4, <3>1
  <2>5. CASE x = b
    <3>1. Having(b) # 0
      BY HavingIs DEF b
    <3>2. psMP3Meta' = b <=> psMP3Meta = b
      BY <1>1, <2>1, <2>2, <2>5, <3>1
    <3> QED
      BY <1>1, <2>1, <2>2, <2>3, <2>5, <3>2
  <2> QED
    BY <2>4, <2>5
<1>5. ASSUME NEW x \in Blocks, \E d \in MP3Clients : d # c /\ mp3[d].meta = x
      PROVE  block'[x].ulLength = block[x].ulLength
  <2>1. PICK d \in MP3Clients : d # c /\ mp3'[d].meta = x
    BY <1>2, <1>5 DEF OnlyOf
  <2>2. Having(x)' \in Nat /\ Having(x)' # 0
    BY <2>1, HavingNext
  <2>3. block'[x].ulUsed # 0
    BY <1>4, <2>2, HoldersNext
  <2> QED
    BY <1>0, <1>1, <2>3
<1>6. Shaped(mp3[c])' /\ LookedUp(mp3[c])' /\ (NoEdgeYet => Informed(mp3[c])')
  BY <1>2 DEF Shaped, LookedUp, Informed, titles, Recent
<1>7. NoEdgeYet => BlockRecent'
  <2> SUFFICES ASSUME NoEdgeYet, psMP3Meta' # None
               PROVE  Recent(block[psMP3Meta].ulId, block[psMP3Meta].turn)'
    BY DEF BlockRecent
  <2>1. psMP3Meta' = psMP3Meta
    BY <1>1
  <2>2. block'[psMP3Meta].ulId = block[psMP3Meta].ulId /\ block'[psMP3Meta].turn = block[psMP3Meta].turn
    <3>1. CASE psMP3Meta = b
      <4>1. block[b].ulUsed # 1
        BY <1>1, <2>1, <3>1
      <4> QED
        BY <1>1, <3>1, <4>1
    <3>2. CASE psMP3Meta # b
      BY <1>1, <2>1, <3>2
    <3> QED
      BY <3>1, <3>2
  <2>3. Recent(block[psMP3Meta].ulId, block[psMP3Meta].turn)
    BY <2>1 DEF MP3Inv, TitlesKept, NoEdgeYet
  <2> QED
    BY <2>1, <2>2, <2>3 DEF Recent, titles
<1>8. (Due(mp3[c]))' = Due(l)
  BY <1>2 DEF Due
<1>9. "long" \notin mp3edge =>
        /\ \A x \in Blocks : block'[x].ulUsed > 0 => Sayable(block'[x].ulLength)
        /\ (mp3[c].player = Due(mp3[c]))'
  <2> SUFFICES ASSUME "long" \notin mp3edge, NEW x \in Blocks, block'[x].ulUsed > 0
               PROVE  Sayable(block'[x].ulLength)
    BY <1>2, <1>8
  <2>1. block[x].ulUsed > 0 => Sayable(block[x].ulLength)
    BY DEF MP3Inv, InStep
  <2> QED
    BY <1>0, <1>1, <2>1
<1>10. BlocksCounted'
  BY <1>4 DEF BlocksCounted
<1> QED
  BY <1>2, <1>5, <1>6, <1>7, <1>9, <1>10, ClientStep DEF NoEdgeYet

LEMMA BlockEndKeeps ==
  ASSUME MP3Inv, psMethods = "mp3", UNCHANGED psMethods, NEW c \in MP3Clients, ReadBlockEnd(c)
  PROVE  MP3Inv'
<1> DEFINE k == mp3[c]
           l == [k EXCEPT !.meta = None, !.ulMetaCount = 0]
<1>1. /\ UNCHANGED <<titles, mp3edge>> /\ k.pc = "read" /\ k.meta # None
      /\ k.ulMetaCount = block[k.meta].ulLength /\ Unlocked /\ Becomes(c, l)
      /\ block' = Release(k.meta, block, psMP3Meta).block
      /\ psMP3Meta' = Release(k.meta, block, psMP3Meta).own
  BY DEF ReadBlockEnd, Reading, At
<1>2. /\ k \in MP3Records /\ Shaped(k) /\ (NoEdgeYet => Informed(k))
      /\ ("long" \notin mp3edge => k.player = Due(k))
  BY ListenerIs
<1>3. k.meta \in Blocks /\ block[k.meta].ulUsed > 0
  BY <1>1, InUse
<1>4. "long" \notin mp3edge => k.player = Interval
  <2> SUFFICES ASSUME "long" \notin mp3edge PROVE k.player = Interval
    OBVIOUS
  <2>1. PICK j \in 1..Units-1 : block[k.meta].ulLength = j * Unit + 1
    BY <1>3 DEF MP3Inv, InStep, Sayable
  <2>2. block[k.meta].ulLength \in Nat \ {0}
    BY <2>1, LengthByteIs
  <2> HIDE DEF k
  <2>3. Due(k) = Interval
    BY <1>1, <2>2 DEF Due
  <2> QED
    BY <1>2, <2>3
<1> HIDE DEF k
<1>5. /\ l \in MP3Records /\ l.pc = "read" /\ l.meta = None /\ l.player = k.player
      /\ l.ulMetaCount = 0 /\ l.lastId = k.lastId /\ l.at = k.at /\ l.told = k.told
  BY <1>1, <1>2 DEF MP3Records
<1> HIDE DEF l
<1>6. /\ Shaped(l) /\ LookedUp(l) /\ (NoEdgeYet => Informed(l))
      /\ l.player = Due(l) \/ "long" \in mp3edge
  BY <1>1, <1>2, <1>4, <1>5, Bounds DEF Shaped, LookedUp, Informed, Due
<1> QED
  BY <1>1, <1>5, <1>6, LetGo DEF k

LEMMA DestroyKeeps ==
  ASSUME MP3Inv, psMethods = "mp3", UNCHANGED psMethods, NEW c \in MP3Clients, MP3ClientDestroy(c)
  PROVE  MP3Inv'
<1> DEFINE l == Away
<1>1. /\ UNCHANGED <<titles, mp3edge>> /\ Becomes(c, l) /\ mp3[c].pc \in {"dropped", "read"}
  BY DEF MP3ClientDestroy, CanLeave, At
<1>2. /\ l \in MP3Records /\ Shaped(l) /\ LookedUp(l) /\ Informed(l)
      /\ l.player = Due(l) /\ l.meta = None /\ l.pc = "away"
  BY AwayIs
<1>3. CASE mp3[c].meta = None
  <2>1. UNCHANGED blocks
    BY <1>3 DEF MP3ClientDestroy
  <2> HIDE DEF l
  <2> QED
    BY <1>1, <1>2, <1>3, <2>1, QuietStep DEF At
<1>4. CASE mp3[c].meta # None
  <2>1. /\ Unlocked /\ block' = Release(mp3[c].meta, block, psMP3Meta).block
        /\ psMP3Meta' = Release(mp3[c].meta, block, psMP3Meta).own
    BY <1>4 DEF MP3ClientDestroy
  <2> HIDE DEF l
  <2> QED
    BY <1>1, <1>2, <1>4, <2>1, LetGo
<1> QED
  BY <1>3, <1>4

LEMMA FoundKeeps ==
  ASSUME MP3Inv, psMethods = "mp3", UNCHANGED psMethods, NEW c \in MP3Clients, MetaFound(c)
  PROVE  MP3Inv'
<1> DEFINE k == mp3[c]
           b == psMP3Meta
           l == [k EXCEPT !.pc = "note", !.meta = b, !.told = block[b].turn]
           n == [block[b] EXCEPT !.ulUsed = @ + 1]
<1>1. /\ UNCHANGED <<titles, psMP3Meta, mp3edge>> /\ k.pc = "lock" /\ Unlocked /\ b # None
      /\ block[b].ulId = k.idx /\ block' = [block EXCEPT ![b].ulUsed = @ + 1] /\ Becomes(c, l)
  BY DEF MetaFound, Current, At
<1>2. /\ k \in MP3Records /\ Shaped(k) /\ LookedUp(k) /\ (NoEdgeYet => Informed(k))
      /\ ("long" \notin mp3edge => k.player = Due(k)) /\ said \in Turns
  BY ListenerIs
<1>3. b \in Blocks /\ block[b].ulUsed > 0 /\ block \in [Blocks -> BlockRecords]
  BY <1>1, InUse DEF MP3Inv, MP3Typed
<1>4. /\ n \in BlockRecords /\ n.ulUsed = block[b].ulUsed + 1 /\ n.ulLength = block[b].ulLength
      /\ n.ulId = block[b].ulId /\ n.turn = block[b].turn /\ block[b].turn \in Turns
  <2> DEFINE m == block[b]
  <2>1. m \in BlockRecords
    BY <1>3
  <2> HIDE DEF m
  <2>2. LET q == [m EXCEPT !.ulUsed = @ + 1]
        IN  /\ q \in BlockRecords /\ q.ulUsed = m.ulUsed + 1 /\ q.ulLength = m.ulLength
            /\ q.ulId = m.ulId /\ q.turn = m.turn /\ m.turn \in Turns
    BY <2>1 DEF BlockRecords
  <2> QED
    BY <2>2 DEF m
<1>5. /\ block' \in [Blocks -> BlockRecords] /\ block'[b] = n
      /\ \A x \in Blocks : x # b => block'[x] = block[x]
  BY <1>1, <1>3, <1>4
<1> HIDE DEF n
<1>6. psMP3Meta' = b
  BY <1>1
<1>7. k.meta = None /\ k.ulMetaCount = Interval
  BY <1>1, <1>2 DEF Shaped
<1>8. ASSUME NoEdgeYet PROVE block[b].turn = said /\ Recent(block[b].ulId, block[b].turn)
  <2>1. Recent(block[b].ulId, block[b].turn)
    BY <1>1, <1>8 DEF MP3Inv, TitlesKept, NoEdgeYet
  <2>2. k.idx = Place(said)
    BY <1>1, <1>2, <1>8 DEF Informed, MP3Inv, HistorySound
  <2>3. block[b].turn \in Int /\ said \in Int
    BY <1>2, <1>4, LengthsAre DEF Turns
  <2>4. block[b].turn = said
    BY <1>1, <2>1, <2>2, <2>3, PlaceApart DEF Recent
  <2> QED
    BY <2>1, <2>4
<1> HIDE DEF k
<1>9. /\ l \in MP3Records /\ l.pc = "note" /\ l.meta = b /\ l.player = k.player
      /\ l.ulMetaCount = Interval /\ l.lastId = k.lastId /\ l.at = k.at /\ l.told = block[b].turn
  BY <1>1, <1>2, <1>3, <1>4, <1>7 DEF MP3Records
<1> HIDE DEF l
<1>10. MP3Typed' /\ mp3'[c] = l /\ OnlyOf(c)
  <2>1. psMP3Meta' \in Blocks \cup {None}
    BY <1>3, <1>6
  <2> QED
    BY <1>1, <1>5, <1>9, <2>1, Became
<1>11. Unlocked' /\ ~At(c, "copy")'
  BY <1>1, <1>9, <1>10 DEF Unlocked, At, OnlyOf
<1>12. BlocksCounted'
  <2> SUFFICES ASSUME NEW x \in Blocks PROVE (block[x].ulUsed = BlockHolders(x))'
    BY DEF BlocksCounted
  <2>1. /\ Having(x) \in Nat /\ Having(x)' \in Nat
        /\ Having(x)' = IF x = b THEN Having(x) + 1 ELSE Having(x)
    <3>1. mp3[c].meta # x /\ mp3'[c].meta = b
      BY <1>7, <1>9, <1>10 DEF k, Blocks, None
    <3> QED
      BY <1>10, <3>1, HavingChanges DEF OnlyOf
  <2>2. block[x].ulUsed = Having(x) + (IF b = x THEN 1 ELSE 0)
    BY <1>1, HoldersAre DEF MP3Inv, BlocksCounted
  <2>3. BlockHolders(x)' = Having(x)' + (IF b = x THEN 1 ELSE 0)
    BY <1>6, <1>11, HoldersNext
  <2> QED
    BY <1>4, <1>5, <2>1, <2>2, <2>3
<1>13. \A x \in Blocks : block'[x].ulLength = block[x].ulLength
  BY <1>4, <1>5
<1>14. b # None
  BY <1>1
<1>15. Shaped(mp3[c])' /\ LookedUp(mp3[c])'
  BY <1>9, <1>10, <1>14 DEF Shaped, LookedUp
<1>16. NoEdgeYet => Informed(mp3[c])' /\ BlockRecent'
  <2> SUFFICES ASSUME NoEdgeYet PROVE Informed(mp3[c])' /\ BlockRecent'
    OBVIOUS
  <2>1. Informed(mp3[c])'
    BY <1>1, <1>2, <1>8, <1>9, <1>10 DEF Informed, Recent, titles
  <2>2. BlockRecent'
    BY <1>1, <1>4, <1>5, <1>6, <1>8 DEF BlockRecent, Recent, titles
  <2> QED
    BY <2>1, <2>2
<1>17. "long" \notin mp3edge' =>
         /\ "long" \notin mp3edge
         /\ \A x \in Blocks : block'[x].ulUsed > 0 => Sayable(block'[x].ulLength)
         /\ (mp3[c].player = Due(mp3[c]))'
  <2> SUFFICES ASSUME "long" \notin mp3edge'
               PROVE  /\ \A x \in Blocks : block'[x].ulUsed > 0 => Sayable(block'[x].ulLength)
                      /\ (mp3[c].player = Due(mp3[c]))'
    BY <1>1
  <2>1. \A x \in Blocks : block[x].ulUsed > 0 => Sayable(block[x].ulLength)
    BY <1>1 DEF MP3Inv, InStep
  <2>2. \A x \in Blocks : block'[x].ulUsed > 0 => Sayable(block'[x].ulLength)
    BY <1>3, <1>4, <1>5, <2>1
  <2>3. Due(k) = Interval - Interval
    BY <1>7 DEF Due
  <2>4. (Due(mp3[c]))' = Interval - Interval
    BY <1>9, <1>10 DEF Due
  <2>5. k.player = Due(k)
    BY <1>1, <1>2
  <2> QED
    BY <1>9, <1>10, <2>2, <2>3, <2>4, <2>5
<1> QED
  BY <1>1, <1>10, <1>11, <1>12, <1>13, <1>15, <1>16, <1>17, ClientStep DEF NoEdgeYet

(* The title a listener takes for the index it has looked at.              *)
LEMMA TitleIs ==
  ASSUME MP3Inv, psMethods = "mp3", NEW i \in Places, i <= said
  PROVE  LET t == apsMeta[Place(i - 1)]
         IN  /\ t \in Turns /\ t <= said
             /\ t = NoTitle => i = 0
             /\ t # NoTitle => Place(t) = i
             /\ i = ulMetaIdx => t = said
<1> DEFINE p == Place(i - 1)
           t == apsMeta[p]
<1>0. i \in Int /\ i \in 0..Items - 1 /\ Items \in Int /\ Items >= 2
  BY Bounds DEF Places
<1>1. p \in Places /\ (i # 0 => p = i - 1) /\ (i = 0 => p = Items - 1)
  <2>1. CASE i = 0
    BY <1>0, <2>1, PlaceOf
  <2>2. CASE i # 0
    <3>1. i - 1 \in Places
      BY <1>0, <2>2 DEF Places
    <3> QED
      BY <1>0, <2>2, <3>1, PlaceOf
  <2> QED
    BY <2>1, <2>2
<1>2. t \in Turns /\ t \in Nat /\ said \in Nat /\ ulMetaIdx = Place(said)
  BY <1>1, LengthsAre DEF MP3Inv, MP3Typed, HistorySound, Turns
<1>3. (t = NoTitle /\ said <= p) \/ InHistory(p, t)
  BY <1>1 DEF MP3Inv, HistorySound
<1> HIDE DEF p, t
<1>4. CASE t = NoTitle /\ said <= p
  <2>1. i = 0 /\ said \in Places
    BY <1>0, <1>1, <1>2, <1>4 DEF Places
  <2>2. Place(said) = said
    BY <2>1, <1>2, PlaceOf
  <2>3. /\ t \in Turns /\ t <= said /\ (t = NoTitle => i = 0) /\ (t # NoTitle => Place(t) = i)
        /\ i = ulMetaIdx => t = said
    BY <1>2, <1>4, <2>1, <2>2 DEF NoTitle
  <2> QED
    BY <2>3 DEF t, p
<1>5. CASE InHistory(p, t)
  <2>1. t \in 1..said /\ Place(t - 1) = p /\ said - t < Items
    BY <1>5 DEF InHistory
  <2>2. Place(t) = Place(p + 1)
    <3>1. Place(Place(t - 1) + 1) = Place((t - 1) + 1)
      <4>1. t - 1 \in Int /\ 1 \in Int
        BY <1>2
      <4> QED
        BY <4>1, PlaceNext
    <3>2. (t - 1) + 1 = t
      BY <1>2
    <3> QED
      BY <2>1, <3>1, <3>2
  <2>3. Place(i) = Place(p + 1)
    <3>1. Place(Place(i - 1) + 1) = Place((i - 1) + 1)
      <4>1. i - 1 \in Int /\ 1 \in Int
        BY <1>0
      <4> QED
        BY <4>1, PlaceNext
    <3>2. (i - 1) + 1 = i
      BY <1>0
    <3> QED
      BY <3>1, <3>2 DEF p
  <2>4. Place(t) = i
    BY <2>2, <2>3, <1>0, PlaceOf
  <2>5. i = ulMetaIdx => t = said
    BY <1>2, <2>1, <2>4, PlaceApart
  <2>6. /\ t \in Turns /\ t <= said /\ (t = NoTitle => i = 0) /\ (t # NoTitle => Place(t) = i)
        /\ i = ulMetaIdx => t = said
    BY <1>2, <2>1, <2>4, <2>5 DEF NoTitle
  <2> QED
    BY <2>6 DEF t, p
<1> QED
  BY <1>3, <1>4, <1>5

LEMMA BeginKeeps ==
  ASSUME MP3Inv, psMethods = "mp3", UNCHANGED psMethods, NEW c \in MP3Clients, MetaBegin(c)
  PROVE  MP3Inv'
<1> DEFINE k == mp3[c]
           b == psMP3Meta
           t == apsMeta[Place(k.idx - 1)]
           l == [k EXCEPT !.pc = "copy", !.title = t]
<1>1. /\ UNCHANGED <<titles, mp3edge>> /\ k.pc = "lock" /\ Unlocked /\ Becomes(c, l)
      /\ b = None => UNCHANGED blocks
      /\ b # None => /\ block' = Release(b, block, b).block
                     /\ psMP3Meta' = Release(b, block, b).own
  BY DEF MetaBegin, At
<1>2. /\ k \in MP3Records /\ Shaped(k) /\ LookedUp(k) /\ (NoEdgeYet => Informed(k))
      /\ ("long" \notin mp3edge => k.player = Due(k)) /\ said \in Turns
  BY ListenerIs
<1>3. k.idx \in Places /\ k.idx <= said /\ k.meta = None /\ k.ulMetaCount = Interval
  BY <1>1, <1>2 DEF MP3Records, LookedUp, Shaped
<1>4. /\ t \in Turns /\ t <= said /\ (t = NoTitle => k.idx = 0) /\ (t # NoTitle => Place(t) = k.idx)
      /\ k.idx = ulMetaIdx => t = said
  <2> HIDE DEF k
  <2> QED
    BY <1>3, TitleIs
<1>5. /\ block' \in [Blocks -> BlockRecords] /\ psMP3Meta' \in Blocks \cup {None}
      /\ \A x \in Blocks : x # b => block'[x] = block[x]
      /\ b # None => b \in Blocks /\ block[b].ulUsed > 0
                     /\ block'[b].ulUsed = block[b].ulUsed - 1
                     /\ (block[b].ulUsed # 1 => block'[b].ulLength = block[b].ulLength)
  <2>0. MP3Typed
    BY DEF MP3Inv
  <2>1. CASE b = None
    BY <1>1, <2>0, <2>1 DEF blocks, MP3Typed
  <2>2. CASE b # None
    <3>1. b \in Blocks /\ block[b].ulUsed > 0
      BY <1>1, <2>2, InUse
    <3> QED
      BY <1>1, <2>0, <2>2, <3>1, Released
  <2> QED
    BY <2>1, <2>2
<1> HIDE DEF k, t
<1>6. /\ l \in MP3Records /\ l.pc = "copy" /\ l.meta = None /\ l.player = k.player
      /\ l.ulMetaCount = Interval /\ l.lastId = k.lastId /\ l.at = k.at /\ l.told = k.told
      /\ l.idx = k.idx /\ l.title = t
  BY <1>1, <1>2, <1>3, <1>4 DEF MP3Records
<1> HIDE DEF l
<1>7. MP3Typed' /\ mp3'[c] = l /\ OnlyOf(c)
  BY <1>1, <1>5, <1>6, Became
<1>8. ~Unlocked'
  BY <1>6, <1>7 DEF Unlocked, At
<1>9. ASSUME NEW x \in Blocks PROVE Having(x)' \in Nat /\ (block[x].ulUsed = BlockHolders(x))'
                                    /\ block'[x].ulUsed = Having(x)'
  <2>1. Having(x) \in Nat /\ Having(x)' \in Nat /\ Having(x)' = Having(x)
    <3>1. mp3[c].meta # x /\ mp3'[c].meta # x
      BY <1>3, <1>6, <1>7 DEF k, Blocks, None
    <3> QED
      BY <1>7, <3>1, HavingChanges DEF OnlyOf
  <2>2. block[x].ulUsed = Having(x) + (IF b = x THEN 1 ELSE 0)
    BY <1>1, HoldersAre DEF MP3Inv, BlocksCounted
  <2>3. BlockHolders(x)' = Having(x)' + 0
    BY <1>8, HoldersNext
  <2>4. block'[x].ulUsed = Having(x)
    <3>1. CASE x = b
      <4>1. b # None
        BY <3>1 DEF Blocks, None
      <4> QED
        BY <1>5, <2>1, <2>2, <3>1, <4>1
    <3>2. CASE x # b
      BY <1>5, <2>1, <2>2, <3>2
    <3> QED
      BY <3>1, <3>2
  <2> QED
    BY <2>1, <2>3, <2>4
<1>10. ASSUME NEW x \in Blocks, \E d \in MP3Clients : d # c /\ mp3[d].meta = x
       PROVE  block'[x].ulLength = block[x].ulLength
  <2>1. PICK d \in MP3Clients : d # c /\ mp3'[d].meta = x
    BY <1>7, <1>10 DEF OnlyOf
  <2>2. Having(x)' \in Nat /\ Having(x)' # 0
    BY <2>1, HavingNext
  <2>3. block'[x].ulUsed # 0
    BY <1>9, <2>2
  <2>4. CASE x = b
    <3>1. b # None
      BY <2>4 DEF Blocks, None
    <3> QED
      BY <1>5, <2>3, <2>4, <3>1
  <2>5. CASE x # b
    BY <1>5, <2>5
  <2> QED
    BY <2>4, <2>5
<1>11. said' = said /\ ulMetaIdx' = ulMetaIdx
  BY <1>1 DEF titles
<1>12. Shaped(mp3[c])' /\ LookedUp(mp3[c])'
  BY <1>4, <1>6, <1>7, <1>11, Bounds DEF Shaped, LookedUp
<1>13. NoEdgeYet => Informed(mp3[c])' /\ BlockRecent'
  <2> SUFFICES ASSUME NoEdgeYet PROVE Informed(mp3[c])'
    BY <1>8 DEF BlockRecent
  <2>1. k.idx = ulMetaIdx /\ t = said
    BY <1>1, <1>2, <1>4 DEF Informed
  <2> QED
    BY <1>1, <1>2, <1>6, <1>7, <1>11, <2>1 DEF Informed, Recent
<1>14. "long" \notin mp3edge' =>
         /\ "long" \notin mp3edge
         /\ \A x \in Blocks : block'[x].ulUsed > 0 => Sayable(block'[x].ulLength)
         /\ (mp3[c].player = Due(mp3[c]))'
  <2> SUFFICES ASSUME "long" \notin mp3edge'
               PROVE  /\ \A x \in Blocks : block'[x].ulUsed > 0 => Sayable(block'[x].ulLength)
                      /\ (mp3[c].player = Due(mp3[c]))'
    BY <1>1
  <2>1. \A x \in Blocks : block[x].ulUsed > 0 => Sayable(block[x].ulLength)
    BY <1>1 DEF MP3Inv, InStep
  <2>2. ASSUME NEW x \in Blocks, block'[x].ulUsed > 0 PROVE Sayable(block'[x].ulLength)
    <3>1. CASE x = b
      <4>1. b # None /\ b \in Blocks
        BY <3>1 DEF Blocks, None
      <4>2. block[b].ulUsed # 1
        BY <1>5, <2>2, <3>1, <4>1
      <4> QED
        BY <1>5, <2>1, <3>1, <4>1, <4>2
    <3>2. CASE x # b
      BY <1>5, <2>1, <2>2, <3>2
    <3> QED
      BY <3>1, <3>2
  <2>3. Due(k) = Interval - Interval
    BY <1>3 DEF Due
  <2>4. (Due(mp3[c]))' = Interval - Interval
    BY <1>6, <1>7 DEF Due
  <2>5. k.player = Due(k)
    BY <1>1, <1>2
  <2> QED
    BY <1>6, <1>7, <2>2, <2>3, <2>4, <2>5
<1>15. BlocksCounted'
  BY <1>9 DEF BlocksCounted
<1> QED
  BY <1>1, <1>7, <1>10, <1>12, <1>13, <1>14, <1>15, ClientStep DEF NoEdgeYet

(* A set of naturals that is not empty has a least element.                *)
LEMMA Least ==
  ASSUME NEW S \in SUBSET Nat, S # {}
  PROVE  \E m \in S : \A k \in S : m <= k
<1> DEFINE R == {p \in Nat \X Nat : p[1] < p[2]}
<1>1. R = OpToRel(<, Nat)
  BY Zenon DEF OpToRel
<1>2. IsWellFoundedOn(R, Nat)
  BY <1>1, NatLessThanWellFounded, Zenon
<1>3. \A a, b \in Nat : a < b => <<a, b>> \in R
  OBVIOUS
<1> HIDE DEF R
<1>4. PICK m \in S : \A y \in S : ~(<<y, m>> \in R)
  BY <1>2, WFMin
<1>5. \A y \in S : ~(y < m)
  BY <1>3, <1>4
<1> QED
  BY <1>5

(* There is one block more than listeners, so that one is free while the   *)
(* format's is let go.                                                     *)
LEMMA FreeBlock ==
  ASSUME MP3Inv, NEW c \in MP3Clients, At(c, "copy")
  PROVE  LET b == Min({x \in Blocks : block[x].ulUsed = 0})
         IN  b \in Blocks /\ block[b].ulUsed = 0 /\ Having(b) = 0
<1> DEFINE S == {x \in Blocks : block[x].ulUsed = 0}
<1>1. ~Unlocked
  BY DEF Unlocked
<1>2. ASSUME NEW x \in Blocks PROVE block[x].ulUsed = Having(x) /\ Having(x) \in Nat
  <2>1. block[x].ulUsed = Having(x) + 0
    BY <1>1, HoldersAre DEF MP3Inv, BlocksCounted
  <2> QED
    BY <2>1, HavingIs
<1>3. S # {}
  <2> SUFFICES ASSUME \A x \in Blocks : block[x].ulUsed # 0 PROVE FALSE
    OBVIOUS
  <2> DEFINE f == [x \in Blocks |-> CHOOSE d \in MP3Clients : mp3[d].meta = x]
  <2>1. ASSUME NEW x \in Blocks PROVE f[x] \in MP3Clients /\ mp3[f[x]].meta = x
    <3>1. \E d \in MP3Clients : mp3[d].meta = x
      BY <1>2, HavingIs
    <3> QED
      BY <3>1
  <2>2. f \in [Blocks -> MP3Clients]
    BY <2>1
  <2>3. Cardinality(MP3Clients) \in Nat /\ IsFiniteSet(MP3Clients)
    BY Bounds, FS_CardinalityType
  <2>4. IsFiniteSet(Blocks) /\ Cardinality(MP3Clients) < Cardinality(Blocks)
    <3> DEFINE n == Cardinality(MP3Clients) + 1
    <3>1. IsFiniteSet(1..n) /\ Cardinality(1..n) = n
      <4>1. 1 \in Int /\ n \in Int /\ ~(1 > n) /\ n - 1 + 1 = n
        BY <2>3
      <4> HIDE DEF n
      <4> QED
        BY <4>1, FS_Interval
    <3> QED
      BY <2>3, <3>1 DEF Blocks
  <2> HIDE DEF f
  <2>5. \E x, y \in Blocks : x # y /\ f[x] = f[y]
    BY <2>2, <2>3, <2>4, FS_PigeonHole
  <2> QED
    BY <2>1, <2>5
<1>4. S \in SUBSET Nat
  BY DEF Blocks
<1> HIDE DEF S
<1>5. PICK m \in S : \A x \in S : m <= x
  BY <1>3, <1>4, Least
<1>6. Min(S) = m
  BY <1>4, <1>5, MinIs
<1>7. m \in Blocks /\ block[m].ulUsed = 0
  BY <1>5 DEF S
<1>8. Having(m) = 0
  BY <1>2, <1>7
<1> QED
  BY <1>6, <1>7, <1>8 DEF S

LEMMA EndKeeps ==
  ASSUME MP3Inv, psMethods = "mp3", UNCHANGED psMethods, NEW c \in MP3Clients, MetaEnd(c)
  PROVE  MP3Inv'
<1> DEFINE k == mp3[c]
           b == Min({x \in Blocks : block[x].ulUsed = 0})
           t == k.title
           size == BlockLength(Length(t))
           n == [ulUsed |-> 2, ulId |-> ulMetaIdx, turn |-> t, ulLength |-> size]
           l == [k EXCEPT !.pc = "note", !.meta = b, !.told = t, !.title = NoTitle]
<1>1. /\ UNCHANGED titles /\ k.pc = "copy" /\ block' = [block EXCEPT ![b] = n]
      /\ psMP3Meta' = b /\ Becomes(c, l)
      /\ mp3edge' = mp3edge \cup (IF Fits(Length(t)) THEN {} ELSE {"long"})
  BY DEF MetaEnd, At
<1>2. /\ k \in MP3Records /\ Shaped(k) /\ LookedUp(k) /\ (NoEdgeYet => Informed(k))
      /\ ("long" \notin mp3edge => k.player = Due(k)) /\ said \in Turns /\ ulMetaIdx \in Places
  BY ListenerIs
<1>3. b \in Blocks /\ block[b].ulUsed = 0 /\ Having(b) = 0
  BY <1>1, FreeBlock DEF At
<1> HIDE DEF b
<1>4. k.meta = None /\ k.ulMetaCount = Interval /\ t \in Turns /\ Length(t) \in Nat
  BY <1>1, <1>2, LengthsAre DEF Shaped, MP3Records
<1>5. size \in Nat
  BY <1>4, BlockLengthIs
<1> HIDE DEF size
<1>6. n \in BlockRecords /\ n.ulUsed = 2 /\ n.ulId = ulMetaIdx /\ n.turn = t /\ n.ulLength = size
  BY <1>2, <1>4, <1>5 DEF BlockRecords
<1> HIDE DEF n
<1>7. /\ block' \in [Blocks -> BlockRecords] /\ block'[b] = n
      /\ \A x \in Blocks : x # b => block'[x] = block[x]
  BY <1>1, <1>3, <1>6 DEF MP3Inv, MP3Typed
<1>8. NoEdgeYet => t = said
  BY <1>1, <1>2 DEF Informed
<1> HIDE DEF k, t
<1>9. NoTitle \in Turns
  BY LengthsAre DEF NoTitle, Turns
<1>10. /\ l \in MP3Records /\ l.pc = "note" /\ l.meta = b /\ l.player = k.player
       /\ l.ulMetaCount = Interval /\ l.lastId = k.lastId /\ l.at = k.at /\ l.told = t
  BY <1>2, <1>3, <1>4, <1>9 DEF MP3Records
<1> HIDE DEF l
<1>11. MP3Typed' /\ mp3'[c] = l /\ OnlyOf(c)
  <2>1. psMP3Meta' \in Blocks \cup {None}
    BY <1>1, <1>3
  <2> QED
    BY <1>1, <1>7, <1>10, <2>1, Became
<1>12. Unlocked' /\ ~Unlocked
  <2>1. \A d \in MP3Clients : d # c => ~At(d, "copy")
    BY <1>1 DEF MP3Inv, MP3Shaped, At, k
  <2> QED
    BY <1>1, <1>10, <1>11, <2>1 DEF Unlocked, At, OnlyOf, k
<1>13. ASSUME NEW x \in Blocks PROVE (block[x].ulUsed = BlockHolders(x))'
  <2>1. /\ Having(x) \in Nat /\ Having(x)' \in Nat
        /\ Having(x)' = IF x = b THEN Having(x) + 1 ELSE Having(x)
    <3>1. mp3[c].meta # x /\ mp3'[c].meta = b
      BY <1>4, <1>10, <1>11 DEF k, Blocks, None
    <3> QED
      BY <1>11, <3>1, HavingChanges DEF OnlyOf
  <2>2. block[x].ulUsed = Having(x) + 0
    BY <1>12, HoldersAre DEF MP3Inv, BlocksCounted
  <2>3. BlockHolders(x)' = Having(x)' + (IF b = x THEN 1 ELSE 0)
    BY <1>1, <1>12, HoldersNext
  <2> QED
    BY <1>3, <1>6, <1>7, <2>1, <2>2, <2>3
<1>14. ASSUME NEW x \in Blocks, \E d \in MP3Clients : d # c /\ mp3[d].meta = x
       PROVE  block'[x].ulLength = block[x].ulLength
  <2>1. x # b
    BY <1>3, <1>14, HavingIs
  <2> QED
    BY <1>7, <2>1
<1>15. b # None
  BY <1>3 DEF Blocks, None
<1>16. Shaped(mp3[c])' /\ LookedUp(mp3[c])'
  BY <1>10, <1>11, <1>15 DEF Shaped, LookedUp
<1>17. said' = said /\ ulMetaIdx' = ulMetaIdx
  BY <1>1 DEF titles
<1>18. NoEdgeYet => Informed(mp3[c])' /\ BlockRecent'
  <2> SUFFICES ASSUME NoEdgeYet PROVE Informed(mp3[c])' /\ BlockRecent'
    OBVIOUS
  <2>1. Informed(mp3[c])'
    BY <1>2, <1>8, <1>10, <1>11, <1>17 DEF Informed, Recent
  <2>2. Recent(ulMetaIdx, said)
    BY <1>2, Bounds, LengthsAre DEF MP3Inv, HistorySound, Recent, Turns
  <2>3. BlockRecent'
    BY <1>1, <1>6, <1>7, <1>8, <1>17, <2>2 DEF BlockRecent, Recent
  <2> QED
    BY <2>1, <2>3
<1>19. "long" \notin mp3edge' =>
         /\ "long" \notin mp3edge
         /\ \A x \in Blocks : block'[x].ulUsed > 0 => Sayable(block'[x].ulLength)
         /\ (mp3[c].player = Due(mp3[c]))'
  <2> SUFFICES ASSUME "long" \notin mp3edge'
               PROVE  /\ "long" \notin mp3edge
                      /\ \A x \in Blocks : block'[x].ulUsed > 0 => Sayable(block'[x].ulLength)
                      /\ (mp3[c].player = Due(mp3[c]))'
    OBVIOUS
  <2>1. "long" \notin mp3edge /\ Fits(Length(t))
    BY <1>1
  <2>2. Sayable(size)
    BY <1>4, <2>1, FitsSayable DEF size
  <2>3. \A x \in Blocks : block[x].ulUsed > 0 => Sayable(block[x].ulLength)
    BY <2>1 DEF MP3Inv, InStep
  <2>4. \A x \in Blocks : block'[x].ulUsed > 0 => Sayable(block'[x].ulLength)
    BY <1>6, <1>7, <2>2, <2>3
  <2>5. Due(k) = Interval - Interval
    BY <1>4 DEF Due
  <2>6. (Due(mp3[c]))' = Interval - Interval
    BY <1>10, <1>11 DEF Due
  <2>7. k.player = Due(k)
    BY <1>2, <2>1
  <2> QED
    BY <1>10, <1>11, <2>1, <2>4, <2>5, <2>6, <2>7
<1>20. BlocksCounted'
  BY <1>13 DEF BlocksCounted
<1>21. NoEdgeYet' => NoEdgeYet
  BY <1>1 DEF NoEdgeYet
<1>22. ~At(c, "copy")'
  BY <1>10, <1>11 DEF At
<1> QED
  BY <1>1, <1>11, <1>14, <1>16, <1>18, <1>19, <1>20, <1>21, <1>22, ClientStep

----------------------------------------------------------------------------
(* Titles, and the end of the source *)

(* The history has the last titles, each in its place, after one more.     *)
LEMMA HistoryGrows ==
  ASSUME MP3Inv, psMethods = "mp3", UNCHANGED psMethods, SetMeta
  PROVE  HistorySound' /\ ulMetaIdx' \in Places /\ apsMeta' \in [Places -> Turns]
         /\ said' = said + 1 /\ said' \in Turns /\ said \in Nat
<1>1. /\ said < Len(Lengths) /\ said' = said + 1
      /\ apsMeta' = [apsMeta EXCEPT ![ulMetaIdx] = said + 1]
      /\ ulMetaIdx' = IF ulMetaIdx + 1 = Items THEN 0 ELSE ulMetaIdx + 1
  BY DEF SetMeta
<1>2. /\ said \in Nat /\ said + 1 \in Turns /\ ulMetaIdx \in Places /\ ulMetaIdx = Place(said)
      /\ apsMeta \in [Places -> Turns]
      /\ \A p \in Places : (apsMeta[p] = NoTitle /\ said <= p) \/ InHistory(p, apsMeta[p])
  BY <1>1, LengthsAre DEF MP3Inv, MP3Typed, HistorySound, Turns
<1>3. ulMetaIdx' \in Places /\ ulMetaIdx' = Place(said + 1)
  <2> DEFINE i == ulMetaIdx
  <2>1. i \in Int /\ i \in 0..Items-1 /\ Items \in Int /\ Items >= 2
    BY <1>2, Bounds DEF Places
  <2>2. Place(i + 1) = Place(said + 1)
    BY <1>2, PlaceNext
  <2>3. CASE i + 1 = Items
    <3>1. Items % Items = 0
      <4>1. (Items * 1 + 0) % Items = 0
        BY Bounds, DivUnique
      <4> QED
        BY <4>1, Bounds
    <3> QED
      BY <1>1, <2>1, <2>2, <2>3, <3>1 DEF Places, Place
  <2>4. CASE i + 1 # Items
    <3>1. i + 1 \in Places
      BY <2>1, <2>4 DEF Places
    <3>2. Place(i + 1) = i + 1
      BY <2>1, <3>1, PlaceOf
    <3> QED
      BY <1>1, <2>2, <2>4, <3>1, <3>2
  <2> QED
    BY <2>3, <2>4
<1>4. ASSUME NEW p \in Places
      PROVE  (apsMeta'[p] = NoTitle /\ said + 1 <= p) \/
             (apsMeta'[p] \in 1..said + 1 /\ Place(apsMeta'[p] - 1) = p /\ (said + 1) - apsMeta'[p] < Items)
  <2>0. p \in Int /\ p >= 0 /\ p < Items /\ Items \in Int /\ Items >= 2
    BY Bounds DEF Places
  <2>1. CASE p = ulMetaIdx
    <3>1. apsMeta'[p] = said + 1 /\ (said + 1) - 1 = said
      BY <1>1, <1>2, <2>1
    <3> QED
      BY <1>2, <2>0, <2>1, <3>1
  <2>2. CASE p # ulMetaIdx
    <3> DEFINE t == apsMeta[p]
    <3>1. apsMeta'[p] = t
      BY <1>1, <1>2, <2>2
    <3>2. CASE t = NoTitle /\ said <= p
      <4>1. said # p
        <5>1. said \in Places => Place(said) = said
          BY <1>2, PlaceOf
        <5> QED
          BY <1>2, <2>2, <5>1
      <4> QED
        BY <1>2, <2>0, <3>1, <3>2, <4>1
    <3>3. CASE InHistory(p, t)
      <4>1. t \in 1..said /\ Place(t - 1) = p /\ said - t < Items
        BY <3>3 DEF InHistory
      <4>2. said - t # Items - 1
        <5> SUFFICES ASSUME said - t = Items - 1 PROVE FALSE
          OBVIOUS
        <5>1. said = (t - 1) + Items
          BY <1>2, <2>0, <4>1
        <5>2. Place(said) = Place(t - 1)
          <6>1. Place(Place(t - 1) + Items) = Place((t - 1) + Items)
            <7>1. t - 1 \in Int /\ Items \in Int
              BY <1>2, <2>0, <4>1
            <7> HIDE DEF t
            <7> QED
              BY <7>1, PlaceNext
          <6>2. (Items * 1 + p) % Items = p
            <7>1. p \in 0..Items-1 /\ Items \in Nat \ {0}
              BY <2>0
            <7> QED
              BY <7>1, DivUnique
          <6>3. Items * 1 + p = p + Items
            BY <2>0
          <6> QED
            BY <4>1, <5>1, <6>1, <6>2, <6>3 DEF Place
        <5> QED
          BY <1>2, <2>2, <4>1, <5>2
      <4> HIDE DEF t
      <4>3. (said + 1) - t < Items /\ t \in 1..said + 1
        BY <1>2, <2>0, <4>1, <4>2
      <4> QED
        BY <3>1, <4>1, <4>3
    <3> QED
      BY <1>2, <3>2, <3>3
  <2> QED
    BY <2>1, <2>2
<1>5. HistorySound'
  BY <1>1, <1>3, <1>4 DEF HistorySound, InHistory, Place
<1>6. apsMeta' \in [Places -> Turns]
  BY <1>1, <1>2
<1> QED
  BY <1>1, <1>2, <1>3, <1>5, <1>6

LEMMA SetKeeps ==
  ASSUME MP3Inv, psMethods = "mp3", UNCHANGED psMethods, SetMeta
  PROVE  MP3Inv'
<1>1. block' = block /\ psMP3Meta' = psMP3Meta /\ mp3' = mp3
  BY DEF SetMeta, blocks
<1>2. /\ HistorySound' /\ ulMetaIdx' \in Places /\ apsMeta' \in [Places -> Turns]
      /\ said' = said + 1 /\ said' \in Turns /\ said \in Nat
  BY HistoryGrows
<1>3. "long" \notin mp3edge' => "long" \notin mp3edge
  BY DEF SetMeta
<1>4. MP3Typed' /\ MP3Shaped' /\ BlocksCounted' /\ InStep'
  <2>1. MP3Typed'
    BY <1>1, <1>2 DEF MP3Inv, MP3Typed, At
  <2>2. MP3Shaped'
    BY <1>1 DEF MP3Inv, MP3Shaped, Shaped, At
  <2>3. BlocksCounted'
    BY <1>1 DEF MP3Inv, BlocksCounted, BlockHolders, Unlocked, At
  <2>4. InStep'
    BY <1>1, <1>3 DEF MP3Inv, InStep, Due
  <2> QED
    BY <2>1, <2>2, <2>3, <2>4
<1>5. ASSUME NEW c \in MP3Clients PROVE LookedUp(mp3[c])'
  <2>1. LookedUp(mp3[c]) /\ mp3[c] \in MP3Records
    BY ListenerIs
  <2>2. mp3[c].idx \in Int /\ mp3[c].title \in Int
    <3>1. mp3[c].idx \in Places /\ mp3[c].title \in Turns
      BY <2>1 DEF MP3Records
    <3> QED
      BY <3>1, LengthsAre, Bounds DEF Places, Turns
  <2> QED
    BY <1>1, <1>2, <2>1, <2>2 DEF LookedUp
<1>6. ASSUME NoEdgeYet' PROVE /\ NoEdgeYet
                              /\ \A c \in MP3Clients : mp3[c].pc \notin {"lock", "copy", "note"}
                              /\ \A c \in MP3Clients : mp3[c].lastId # None => ~(said + 1 - mp3[c].at >= Items)
                              /\ psMP3Meta # None => ~(said + 1 - block[psMP3Meta].turn >= Items)
  BY <1>6 DEF SetMeta, NoEdgeYet
<1>7. ASSUME NoEdgeYet', NEW c \in MP3Clients PROVE Informed(mp3[c])'
  <2>1. Informed(mp3[c]) /\ mp3[c] \in MP3Records
    BY <1>6, <1>7, ListenerIs
  <2>2. mp3[c].at \in Int /\ Items \in Int
    BY <2>1, LengthsAre, Bounds DEF MP3Records, Turns
  <2> QED
    BY <1>1, <1>2, <1>6, <1>7, <2>1, <2>2 DEF Informed, Recent
<1>8. ASSUME NoEdgeYet' PROVE BlockRecent'
  <2> SUFFICES ASSUME psMP3Meta # None, Unlocked
               PROVE  Recent(block[psMP3Meta].ulId, block[psMP3Meta].turn)'
    BY <1>1 DEF BlockRecent, Unlocked, At
  <2>1. Recent(block[psMP3Meta].ulId, block[psMP3Meta].turn)
    BY <1>6, <1>8 DEF MP3Inv, TitlesKept, NoEdgeYet
  <2>2. block[psMP3Meta].turn \in Int /\ Items \in Int
    BY LengthsAre, Bounds DEF MP3Inv, MP3Typed, BlockRecords, Turns
  <2> QED
    BY <1>1, <1>2, <1>6, <1>8, <2>1, <2>2 DEF Recent
<1> QED
  BY <1>2, <1>4, <1>5, <1>7, <1>8 DEF MP3Inv, TitlesKept, NoEdgeYet, BlockRecent

LEMMA MP3EndKeeps ==
  ASSUME MP3Inv, MP3Destroy
  PROVE  MP3Inv'
<1>1. /\ psMethods' = "gone" /\ \A c \in MP3Clients : mp3[c].pc = "away"
      /\ apsMeta' = [i \in Places |-> NoTitle] /\ ulMetaIdx' = ulMetaIdx /\ said' = said
      /\ block' = block /\ psMP3Meta' = psMP3Meta /\ mp3' = mp3 /\ mp3edge' = mp3edge
  BY DEF MP3Destroy, At, blocks
<1>2. MP3Typed'
  <2>1. NoTitle \in Turns
    BY LengthsAre DEF NoTitle, Turns
  <2> QED
    BY <1>1, <2>1 DEF MP3Inv, MP3Typed, At
<1>3. MP3Shaped' /\ BlocksCounted' /\ InStep' /\ HistorySound' /\ TitlesKept'
  BY <1>1 DEF MP3Inv, MP3Shaped, Shaped, BlocksCounted, BlockHolders, Unlocked, At,
              InStep, Due, HistorySound, TitlesKept, LookedUp, Informed, Recent
<1> QED
  BY <1>2, <1>3 DEF MP3Inv

LEMMA MP3Starts == Init => MP3Inv
<1> SUFFICES ASSUME Init PROVE MP3Inv
  OBVIOUS
<1>1. /\ apsMeta = [i \in Places |-> NoTitle] /\ ulMetaIdx = 0 /\ said = 0
      /\ psMP3Meta = None /\ block = [b \in Blocks |-> NoBlock]
      /\ mp3 = [c \in MP3Clients |-> Away] /\ psMethods \in {"mp3", "ogg"}
  BY DEF Init, MP3Init
<1>2. 0 \in Places /\ 0 \in Turns /\ NoTitle = 0
  BY Bounds, LengthsAre DEF Places, Turns, NoTitle
<1>3. NoBlock \in BlockRecords /\ NoBlock.ulUsed = 0
  BY <1>2 DEF NoBlock, BlockRecords
<1>4. MP3Typed
  <2>1. apsMeta \in [Places -> Turns] /\ block \in [Blocks -> BlockRecords]
    BY <1>1, <1>2, <1>3
  <2>2. mp3 \in [MP3Clients -> MP3Records] /\ \A c \in MP3Clients : At(c, "away")
    <3>1. \A c \in MP3Clients : mp3[c] = Away
      BY <1>1
    <3> QED
      BY <1>1, <3>1, AwayIs DEF At
  <2> QED
    BY <1>1, <1>2, <2>1, <2>2 DEF MP3Typed
<1>5. MP3Shaped /\ InStep /\ TitlesKept
  <2>1. \A c \in MP3Clients : mp3[c] = Away
    BY <1>1
  <2>2. MP3Shaped
    BY <2>1, AwayIs DEF MP3Shaped, At
  <2>3. InStep
    BY <1>1, <1>3, <2>1, AwayIs DEF InStep
  <2>4. TitlesKept
    BY <1>1, <2>1, AwayIs DEF TitlesKept
  <2> QED
    BY <2>2, <2>3, <2>4
<1>6. BlocksCounted
  <2> SUFFICES ASSUME NEW b \in Blocks PROVE block[b].ulUsed = BlockHolders(b)
    BY DEF BlocksCounted
  <2>1. b # None
    BY DEF Blocks, None
  <2>2. Having(b) = 0
    BY <1>1, <2>1, HavingIs, AwayIs
  <2> QED
    BY <1>1, <1>3, <2>1, <2>2, HoldersAre
<1>7. HistorySound
  <2>1. Place(0) = 0
    BY <1>2, PlaceOf
  <2> QED
    BY <1>1, <1>2, <2>1 DEF HistorySound, Places
<1> QED
  BY <1>4, <1>5, <1>6, <1>7 DEF MP3Inv

LEMMA MP3Steps == MP3Inv /\ [Next]_vars => MP3Inv'
<1> SUFFICES ASSUME MP3Inv, [Next]_vars PROVE MP3Inv'
  OBVIOUS
<1>1. ASSUME UNCHANGED <<psMethods, mp3vars>> PROVE MP3Inv'
  <2>1. /\ psMethods' = psMethods /\ apsMeta' = apsMeta /\ ulMetaIdx' = ulMetaIdx /\ said' = said
        /\ psMP3Meta' = psMP3Meta /\ block' = block /\ mp3' = mp3 /\ mp3edge' = mp3edge
    BY <1>1 DEF mp3vars, titles, blocks
  <2> QED
    BY <2>1 DEF MP3Inv, MP3Typed, MP3Shaped, Shaped, BlocksCounted, BlockHolders, Unlocked, At,
                InStep, Due, HistorySound, InHistory, TitlesKept, LookedUp, Informed, Recent
<1>2. CASE UNCHANGED vars
  BY <1>1, <1>2 DEF vars
<1>3. ASSUME psMethods = "mp3", MP3Next, UNCHANGED psMethods PROVE MP3Inv'
  <2>1. CASE SetMeta
    BY <1>3, <2>1, SetKeeps
  <2>2. ASSUME NEW c \in MP3Clients, MP3Listener(c) PROVE MP3Inv'
    <3>1. CASE MP3ClientNew(c)
      BY <1>3, <3>1, NewKeeps
    <3>2. CASE MP3ClientDestroy(c)
      BY <1>3, <3>2, DestroyKeeps
    <3>3. CASE MP3Read(c)
      BY <1>3, <3>3, ReadKeeps
    <3>4. CASE ReadStream(c)
      BY <1>3, <3>4, StreamKeeps
    <3>5. CASE ReadSilence(c)
      BY <1>3, <3>5, SilenceKeeps
    <3>6. CASE ReadTitle(c)
      BY <1>3, <3>6, TitleKeeps
    <3>7. CASE MetaLook(c)
      BY <1>3, <3>7, LookKeeps
    <3>8. CASE MetaFound(c)
      BY <1>3, <3>8, FoundKeeps
    <3>9. CASE MetaBegin(c)
      BY <1>3, <3>9, BeginKeeps
    <3>10. CASE MetaEnd(c)
      BY <1>3, <3>10, EndKeeps
    <3>11. CASE MetaNote(c)
      BY <1>3, <3>11, NoteKeeps
    <3>12. CASE ReadBlock(c)
      BY <1>3, <3>12, BlockKeeps
    <3>13. CASE ReadBlockEnd(c)
      BY <1>3, <3>13, BlockEndKeeps
    <3> QED
      BY <2>2, <3>1, <3>2, <3>3, <3>4, <3>5, <3>6, <3>7, <3>8, <3>9, <3>10, <3>11, <3>12, <3>13
         DEF MP3Listener
  <2> QED
    BY <1>3, <2>1, <2>2 DEF MP3Next
<1>4. ASSUME psMethods = "ogg", OGGDestroy PROVE MP3Inv'
  <2>1. /\ psMethods' = "gone" /\ apsMeta' = apsMeta /\ ulMetaIdx' = ulMetaIdx /\ said' = said
        /\ psMP3Meta' = psMP3Meta /\ block' = block /\ mp3' = mp3 /\ mp3edge' = mp3edge
    BY <1>4 DEF OGGDestroy, mp3vars, titles, blocks
  <2>2. MP3Typed'
    BY <1>4, <2>1 DEF MP3Inv, MP3Typed, At
  <2>3. MP3Shaped' /\ BlocksCounted' /\ InStep' /\ HistorySound' /\ TitlesKept'
    BY <2>1 DEF MP3Inv, MP3Shaped, Shaped, BlocksCounted, BlockHolders, Unlocked, At,
                InStep, Due, HistorySound, TitlesKept, LookedUp, Informed, Recent
  <2> QED
    BY <2>2, <2>3 DEF MP3Inv
<1> QED
  BY <1>1, <1>2, <1>3, <1>4, MP3EndKeeps DEF Next, OGGDestroy

LEMMA MP3Holds == Spec => []MP3Inv
BY MP3Starts, MP3Steps, PTL DEF Spec

----------------------------------------------------------------------------
(* The latest title *)

LEMMA InvToldLatest == MP3Inv => ToldLatest
<1> SUFFICES ASSUME MP3Inv PROVE ToldLatest
  OBVIOUS
<1>1. said \in Nat /\ Items \in Nat
  BY LengthsAre, Bounds DEF MP3Inv, MP3Typed, Turns
<1>2. ASSUME NEW c \in MP3Clients, NoEdgeYet, ~At(c, "away"), mp3[c].lastId = ulMetaIdx
      PROVE  mp3[c].told = said
  <2> DEFINE k == mp3[c]
  <2>1. /\ k \in MP3Records /\ Informed(k) /\ k.lastId = ulMetaIdx
        /\ psMethods = "mp3" /\ k.at \in Int /\ k.lastId # None
    <3>1. k \in MP3Records /\ Informed(k) /\ ulMetaIdx \in Places
      BY <1>2, ListenerIs
    <3>2. ulMetaIdx # None
      BY <3>1 DEF Places, None
    <3>3. psMethods = "mp3"
      BY <1>2 DEF MP3Inv, MP3Typed
    <3>4. k.at \in Int
      <4>1. k.at \in Turns
        BY <3>1 DEF MP3Records
      <4> QED
        BY <4>1, LengthsAre DEF Turns
    <3> QED
      BY <1>2, <3>1, <3>2, <3>3, <3>4
  <2> HIDE DEF k
  <2>2. Place(k.at) = Place(said) /\ k.at <= said /\ said - k.at < Items
    BY <2>1 DEF Informed, Recent, MP3Inv, HistorySound
  <2>3. k.at = said
    BY <1>1, <2>1, <2>2, PlaceApart
  <2>4. k.told = said
    BY <2>1, <2>3 DEF Informed
  <2> QED
    BY <2>4 DEF k
<1>3. ASSUME NEW c \in MP3Clients, At(c, "copy"), said - mp3[c].title < Items
      PROVE  apsMeta[Place(mp3[c].idx - 1)] = mp3[c].title
  <2> DEFINE i == mp3[c].idx
             t == mp3[c].title
             p == Place(i - 1)
             u == apsMeta[p]
  <2>1. LookedUp(mp3[c]) /\ mp3[c] \in MP3Records /\ psMethods = "mp3" /\ mp3[c].pc = "copy"
    BY <1>3, ListenerIs DEF MP3Inv, MP3Typed, At
  <2>2. /\ i \in Places /\ t \in Nat /\ t <= said /\ said - t < Items
        /\ t = 0 => i = 0
        /\ t # 0 => Place(t) = i
    <3>1. mp3[c].title \in Turns /\ mp3[c].idx \in Places
      BY <2>1 DEF MP3Records
    <3>2. mp3[c].title \in Nat
      BY <3>1, LengthsAre DEF Turns
    <3> QED
      BY <1>3, <2>1, <3>1, <3>2 DEF LookedUp, NoTitle
  <2>3. i \in Int /\ i - 1 \in Int /\ p \in Places /\ p \in Int /\ p >= 0 /\ p < Items
    <3>1. i \in Int /\ i - 1 \in Int
      BY <2>2, Bounds DEF Places
    <3>2. p \in Places
      BY <3>1, PlaceOf
    <3> QED
      BY <3>1, <3>2, Bounds DEF Places
  <2>4. (u = 0 /\ said <= p) \/ (u \in 1..said /\ Place(u - 1) = p /\ said - u < Items)
    BY <2>1, <2>3 DEF MP3Inv, HistorySound, InHistory, NoTitle
  <2> HIDE DEF i, t, u, p
  <2> SUFFICES u = t
    BY DEF i, t, u, p
  <2>5. CASE t = 0
    <3>1. i = 0 /\ said < Items
      BY <1>1, <2>2, <2>5
    <3>2. p = Items - 1
      BY <2>3, <3>1, PlaceOf DEF p
    <3>3. ~(u \in 1..said /\ Place(u - 1) = p)
      <4> SUFFICES ASSUME u \in 1..said, Place(u - 1) = p PROVE FALSE
        OBVIOUS
      <4>1. u - 1 \in Int /\ u - 1 >= 0 /\ u - 1 < Items - 1
        BY <1>1, <3>1
      <4>2. Place(u - 1) <= u - 1
        BY <4>1, PlaceOf
      <4> QED
        BY <1>1, <3>2, <4>1, <4>2
    <3> QED
      BY <2>4, <2>5, <3>3
  <2>6. CASE t # 0
    <3>1. Place(t - 1) = p
      <4>1. Place(Place(t) + (-1)) = Place(t + (-1))
        BY <2>2, PlaceNext
      <4>2. t + (-1) = t - 1 /\ i + (-1) = i - 1
        BY <2>2, <2>3
      <4> QED
        BY <2>2, <2>6, <4>1, <4>2 DEF p
    <3>2. t - 1 \in Int /\ t - 1 >= 0
      BY <2>2, <2>6
    <3>3. u # 0
      <4>1. Place(t - 1) <= t - 1
        BY <3>2, PlaceOf
      <4> QED
        BY <1>1, <2>2, <2>3, <2>4, <3>1, <3>2, <4>1
    <3>4. u \in 1..said /\ Place(u - 1) = p /\ said - u < Items /\ u - 1 \in Int
      BY <1>1, <2>4, <3>3
    <3>5. CASE u <= t
      <4>1. u - 1 <= t - 1 /\ (t - 1) - (u - 1) < Items
        BY <1>1, <2>2, <3>4, <3>5
      <4>2. u - 1 = t - 1
        BY <3>1, <3>2, <3>4, <4>1, PlaceApart
      <4> QED
        BY <2>2, <3>4, <4>2
    <3>6. CASE t <= u
      <4>1. t - 1 <= u - 1 /\ (u - 1) - (t - 1) < Items
        BY <1>1, <2>2, <3>4, <3>6
      <4>2. u - 1 = t - 1
        BY <3>1, <3>2, <3>4, <4>1, PlaceApart
      <4> QED
        BY <2>2, <3>4, <4>2
    <3>7. u = t
      BY <2>2, <3>4, <3>5, <3>6
    <3> QED
      BY <3>7
  <2> QED
    BY <2>5, <2>6
<1> QED
  BY <1>2, <1>3 DEF ToldLatest, NoEdgeYet

(* A title leaves alone all places but the one that is one too many.       *)
LEMMA HistoryKept ==
  ASSUME MP3Inv, [Next]_vars, psMethods' = "mp3", ~UNCHANGED titles, NEW k \in 0..Items-2
  PROVE  apsMeta'[HistoryPlace(k)] = apsMeta[HistoryPlace(k)]
<1>1. psMethods = "mp3" /\ SetMeta
  <2>1. CASE psMethods = "mp3" /\ MP3Next /\ UNCHANGED <<psMethods, oggvars>>
    <3>1. ASSUME NEW c \in MP3Clients, MP3Listener(c) PROVE UNCHANGED titles
      BY <3>1 DEF MP3Listener, MP3ClientNew, MP3ClientDestroy, MP3Read, ReadStream, ReadSilence,
                  ReadTitle, MetaLook, MetaFound, MetaBegin, MetaEnd, MetaNote, ReadBlock, ReadBlockEnd
    <3> QED
      BY <2>1, <3>1 DEF MP3Next
  <2>2. CASE UNCHANGED vars
    BY <2>2 DEF vars, mp3vars
  <2>3. CASE psMethods = "ogg" /\ OGGNext /\ UNCHANGED <<psMethods, mp3vars>>
    BY <2>3 DEF mp3vars
  <2> QED
    BY <2>1, <2>2, <2>3 DEF Next, MP3Destroy, OGGDestroy
<1> DEFINE i == ulMetaIdx
           j == (i - 1) - k
<1>2. i \in Places /\ apsMeta \in [Places -> Turns] /\ apsMeta' = [apsMeta EXCEPT ![i] = said + 1]
  BY <1>1 DEF MP3Inv, MP3Typed, SetMeta
<1>3. i \in 0..Items-1 /\ Items \in Int /\ Items >= 2 /\ i \in Int /\ j \in Int /\ j <= i /\ i - j < Items /\ i # j
  BY <1>2, Bounds DEF Places
<1>4. Place(i) = i /\ Place(j) \in Places
  BY <1>2, <1>3, PlaceOf
<1>5. Place(j) # i
  <2> HIDE DEF j
  <2> QED
    BY <1>3, <1>4, PlaceApart
<1>6. HistoryPlace(k) = Place(j)
  BY DEF HistoryPlace
<1> HIDE DEF j
<1> QED
  BY <1>2, <1>4, <1>5, <1>6

(* A listener that is told nothing new has been told the latest title, and *)
(* one that copies a title copies the one it looked up, for any number of  *)
(* listeners, titles and places; setting a title (FormatSetMeta) never     *)
(* touches a place that FormatGetMetaDataHistoryItem can give.             *)
THEOREM LatestTitleHolds == Spec => LatestTitle
<1>1. MP3Inv => ToldLatest
  BY InvToldLatest
<1> DEFINE Kept == psMethods' = "mp3" =>
             \A k \in 0..Items-2 : apsMeta'[HistoryPlace(k)] = apsMeta[HistoryPlace(k)]
<1>2. MP3Inv /\ [Next]_vars => [Kept]_titles
  BY HistoryKept
<1> HIDE DEF Kept
<1>3. Spec => []ToldLatest /\ [][Kept]_titles
  BY <1>1, <1>2, MP3Holds, PTL DEF Spec
<1> QED
  BY <1>3 DEF LatestTitle, Kept

----------------------------------------------------------------------------
(* OGG: vectors, and streams that are counted *)

LEMMA OGGBounds == HdrPages \in Nat /\ HdrPages >= 2 /\ IsFiniteSet(OGGClients) /\ MaxStreams \in Nat
<1>1. HdrPages \in Nat \ {0, 1} /\ MaxStreams \in Nat \ {0} /\ IsFiniteSet(OGGClients)
  BY OGGAssumption
<1> QED
  BY <1>1

LEMMA StreamsAre ==
  ASSUME OGGTyped
  PROVE  /\ StreamIds = 1..Len(stream) /\ Len(stream) \in Nat
         /\ \A s \in StreamIds : stream[s] \in StreamRecords
<1>1. stream \in Seq(StreamRecords)
  BY DEF OGGTyped
<1> QED
  BY <1>1 DEF StreamIds

LEMMA VectorHas ==
  ASSUME NEW v, Vector(v)
  PROVE  \A s : Contains(v, s) => s \in StreamIds
BY DEF Vector, Contains

LEMMA EmptyVector == Vector(<<>>) /\ \A s : ~Contains(<<>>, s)
BY OGGBounds DEF Vector, Contains

LEMMA SingleVector ==
  ASSUME NEW v, Vector(v), Len(v) = 1
  PROVE  \A s : Contains(v, s) <=> s = v[1]
BY DEF Vector, Contains

(* What may be left of a vector.                                           *)
LEMMA VecDelIs ==
  ASSUME OGGTyped, NEW v, Vector(v), NEW i \in 1..Len(v), NEW w \in VecDel(v, i)
  PROVE  Vector(w) /\ (Len(v) = 1 => w = <<>>)
<1> DEFINE n == Len(v) - 1
<1>1. Len(v) \in Nat /\ Len(v) <= MaxStreams /\ Len(v) >= 1 /\ MaxStreams \in Nat
  BY OGGBounds DEF Vector
<1>2. n \in Nat /\ n <= MaxStreams /\ (Len(v) = 1 => n = 0)
  BY <1>1
<1>3. w \in [1..n -> StreamIds]
  BY DEF VecDel, StreamIds
<1>4. StreamIds \subseteq Nat
  <2>1. StreamIds = DOMAIN stream
    BY DEF StreamIds
  <2> QED
    BY <2>1, StreamsAre
<1> HIDE DEF n
<1>5. w \in [1..n -> Nat]
  BY <1>3, <1>4
<1>6. w \in Seq(Nat) /\ Len(w) = n
  BY <1>2, <1>5
<1>7. Vector(w)
  BY <1>2, <1>3, <1>6 DEF Vector
<1>8. n = 0 => w = <<>>
  BY <1>6
<1> QED
  BY <1>2, <1>7, <1>8

(* The streams when a vector has counted itself in or out.                 *)
LEMMA CountedIs ==
  ASSUME OGGTyped, NEW v, NEW d \in Int, stream' = Counted(v, d)
  PROVE  /\ stream' \in Seq(StreamRecords) /\ Len(stream') = Len(stream) /\ StreamIds' = StreamIds
         /\ \A s \in StreamIds :
              /\ stream'[s].ulPagesCount = stream[s].ulPagesCount
              /\ stream'[s].lSerialNumber = stream[s].lSerialNumber
              /\ stream'[s].ulUsed = stream[s].ulUsed + (IF Contains(v, s) THEN d ELSE 0)
<1> DEFINE n == Len(stream)
           k(s) == IF Contains(v, s) THEN d ELSE 0
<1>1. n \in Nat /\ StreamIds = 1..n /\ \A s \in 1..n : stream[s] \in StreamRecords
  BY StreamsAre
<1>2. ASSUME NEW s \in 1..n
      PROVE  /\ stream'[s] \in StreamRecords
             /\ stream'[s].ulPagesCount = stream[s].ulPagesCount
             /\ stream'[s].lSerialNumber = stream[s].lSerialNumber
             /\ stream'[s].ulUsed = stream[s].ulUsed + k(s)
  <2> DEFINE r == stream[s]
             m == k(s)
  <2>1. stream'[s] = [r EXCEPT !.ulUsed = @ + m]
    BY <1>1 DEF Counted, StreamIds
  <2>2. r \in StreamRecords /\ m \in Int
    BY <1>1
  <2> HIDE DEF r, m
  <2>3. stream'[s] \in StreamRecords /\ stream'[s].ulPagesCount = r.ulPagesCount
        /\ stream'[s].lSerialNumber = r.lSerialNumber /\ stream'[s].ulUsed = r.ulUsed + m
    BY <2>1, <2>2 DEF StreamRecords
  <2> QED
    BY <2>3 DEF r, m
<1>3. DOMAIN stream' = 1..n /\ stream' = [s \in 1..n |-> stream'[s]]
  BY <1>1 DEF Counted, StreamIds
<1> HIDE DEF k, n
<1>4. stream' \in [1..n -> StreamRecords]
  BY <1>2, <1>3
<1>5. stream' \in Seq(StreamRecords) /\ Len(stream') = n
  BY <1>1, <1>4
<1> QED
  BY <1>1, <1>2, <1>3, <1>5 DEF n, k, StreamIds

Listening(s) == Cardinality({c \in OGGClients : Contains(ogg[c].sSVec, s)})

LEMMA StreamHoldersAre ==
  ASSUME NEW s
  PROVE  /\ StreamHolders(s) = Listening(s) + (IF Contains(sSVec, s) THEN 1 ELSE 0)
         /\ StreamHolders(s)' = Listening(s)' + (IF Contains(sSVec', s) THEN 1 ELSE 0)
BY DEF StreamHolders, Listening

(* How many listeners have stream s, after one has changed.                *)
LEMMA ListeningChanges ==
  ASSUME NEW s, NEW c \in OGGClients,
         \A d \in OGGClients : d # c => ogg'[d].sSVec = ogg[d].sSVec
  PROVE  /\ Listening(s) \in Nat /\ Listening(s)' \in Nat
         /\ (Contains(ogg[c].sSVec, s) <=> Contains(ogg'[c].sSVec, s)) => Listening(s)' = Listening(s)
         /\ Contains(ogg[c].sSVec, s) /\ ~Contains(ogg'[c].sSVec, s) => Listening(s)' = Listening(s) - 1
         /\ ~Contains(ogg[c].sSVec, s) /\ Contains(ogg'[c].sSVec, s) => Listening(s)' = Listening(s) + 1
<1> DEFINE f == [d \in OGGClients |-> IF Contains(ogg[d].sSVec, s) THEN 1 ELSE 0]
           g == [d \in OGGClients |-> IF Contains(ogg'[d].sSVec, s) THEN 1 ELSE 0]
           n == Counting(OGGClients, f, 1)
           m == Counting(OGGClients, g, 1)
<1>1. IsFiniteSet(OGGClients) /\ \A d \in OGGClients : d # c => g[d] = f[d]
  BY OGGBounds
<1>2. /\ n \in Nat /\ m \in Nat
      /\ (f[c] = 1 <=> g[c] = 1) => m = n
      /\ f[c] = 1 /\ g[c] # 1 => m = n - 1
      /\ f[c] # 1 /\ g[c] = 1 => m = n + 1
  <2> HIDE DEF f, g
  <2> QED
    BY <1>1, Recount
<1>3. {d \in OGGClients : f[d] = 1} = {d \in OGGClients : Contains(ogg[d].sSVec, s)}
  OBVIOUS
<1>4. {d \in OGGClients : g[d] = 1} = {d \in OGGClients : Contains(ogg'[d].sSVec, s)}
  OBVIOUS
<1>5. n = Listening(s) /\ m = Listening(s)'
  BY <1>3, <1>4 DEF Listening, Counting
<1>6. (f[c] = 1 <=> Contains(ogg[c].sSVec, s)) /\ (g[c] = 1 <=> Contains(ogg'[c].sSVec, s))
  OBVIOUS
<1> HIDE DEF n, m, f, g
<1> QED
  BY <1>2, <1>5, <1>6

LEMMA ListeningSame ==
  ASSUME NEW s, \A d \in OGGClients : ogg'[d].sSVec = ogg[d].sSVec
  PROVE  Listening(s)' = Listening(s)
<1>1. {d \in OGGClients : Contains(ogg'[d].sSVec, s)} = {d \in OGGClients : Contains(ogg[d].sSVec, s)}
  OBVIOUS
<1> QED
  BY <1>1 DEF Listening

LEMMA ListeningIs ==
  ASSUME NEW s
  PROVE  Listening(s) \in Nat /\ ((\A c \in OGGClients : ~Contains(ogg[c].sSVec, s)) => Listening(s) = 0)
<1> DEFINE S == {c \in OGGClients : Contains(ogg[c].sSVec, s)}
<1>1. IsFiniteSet(S)
  BY OGGBounds, FS_Subset
<1>2. Cardinality(S) \in Nat /\ (S = {} => Cardinality(S) = 0)
  BY <1>1, FS_CardinalityType, FS_EmptySet
<1> QED
  BY <1>2 DEF Listening

----------------------------------------------------------------------------
(* OGG: a step of the writer keeps what is sound *)

In(s) == Contains(sSVec, s)
ThenIn(s) == Contains(sSVec', s)
ThenFilled(s) == stream'[s].ulPagesCount = HdrPages

(* What a page of data, or the headers of a stream, add to the ring.       *)
StoredData(s) ==
  /\ stored' = Store(s, FALSE) /\ ulSyncPos' = Len(stored) + 1
  /\ s \in StreamIds /\ ((In(s) /\ Filled(s)) \/ s = ending)
  /\ \A t \in StreamIds : ThenFilled(t) => Filled(t)

StoredHeaders(s) ==
  /\ stored' = Store(s, TRUE) /\ ulSyncPos' = ulSyncPos
  /\ s \in StreamIds /\ In(s)
  /\ \A t \in StreamIds : ThenFilled(t) => Filled(t) \/ t = s

StoredNothing ==
  /\ stored' = stored /\ ulSyncPos' = ulSyncPos
  /\ \A t \in StreamIds : ThenFilled(t) => Filled(t)

(* Streams begin, and are filled while they are in the vector.             *)
StreamsGrow ==
  /\ StreamIds \subseteq StreamIds'
  /\ \A s \in StreamIds' : s \notin StreamIds => ~ThenFilled(s)
  /\ \A s \in StreamIds : /\ Filled(s) => ThenFilled(s)
                          /\ ~In(s) => (~mixed' => ~ThenIn(s)) /\ (ThenFilled(s) => Filled(s))

(* Who is joining parts from the streams that leave the vector, unless the *)
(* wrong one of several is cut off.                                        *)
PartersKnow ==
  \A c \in OGGClients :
    /\ ogg'[c].pc = ogg[c].pc /\ ogg'[c].sSVec = ogg[c].sSVec
    /\ ogg'[c].ulHdrPage = ogg[c].ulHdrPage /\ ogg'[c].ulReadPos = ogg[c].ulReadPos
    /\ ogg'[c].unplaced = ogg[c].unplaced /\ ogg'[c].known = ogg[c].known
    /\ ogg'[c].heard = ogg[c].heard /\ ogg[c].parted \subseteq ogg'[c].parted
    /\ ~mixed' /\ ogg[c].pc = "join" =>
         /\ \A s \in StreamIds : In(s) /\ ~ThenIn(s) => s \in ogg'[c].parted
         /\ ending' \in {ending, NoStream} \cup ogg'[c].parted

WriterMoves ==
  /\ StoredNothing \/ \E s : StoredData(s) \/ StoredHeaders(s)
  /\ StreamsGrow /\ PartersKnow
  /\ ending' \in {ending, NoStream} \/ In(ending')
  /\ ~mixed' => ~mixed /\ ~ThenIn(ending')

(* The ring only grows.                                                    *)
LEMMA RingGrows ==
  ASSUME OGGTyped, WriterMoves
  PROVE  /\ Len(stored) \in Nat /\ Len(stored') \in Nat /\ Len(stored) <= Len(stored')
         /\ \A j \in 1..Len(stored) : stored'[j] = stored[j]
         /\ StoredNothing => stored' = stored
         /\ \A s : StoredData(s) => Len(stored') = Len(stored) + 1 /\ stored'[Len(stored) + 1] = [stream |-> s, head |-> FALSE]
         /\ \A s : StoredHeaders(s) => Len(stored') = Len(stored) + 1 /\ stored'[Len(stored) + 1] = [stream |-> s, head |-> TRUE]
<1>1. stored \in Seq(Pages) /\ Len(stored) \in Nat
  BY DEF OGGTyped
<1>2. ASSUME NEW p, stored' = Append(stored, p)
      PROVE  Len(stored') = Len(stored) + 1 /\ stored'[Len(stored) + 1] = p
             /\ \A j \in 1..Len(stored) : stored'[j] = stored[j]
  BY <1>1, <1>2
<1>3. CASE StoredNothing
  <2>1. \A s : ~StoredData(s) /\ ~StoredHeaders(s)
    BY <1>1, <1>2, <1>3 DEF StoredNothing, StoredData, StoredHeaders, Store
  <2> QED
    BY <1>1, <1>3, <2>1 DEF StoredNothing
<1>4. CASE \E s : StoredData(s) \/ StoredHeaders(s)
  <2> DEFINE D(s) == [stream |-> s, head |-> FALSE]
             H(s) == [stream |-> s, head |-> TRUE]
  <2>1. PICK p : stored' = Append(stored, p)
    BY <1>4 DEF StoredData, StoredHeaders, Store
  <2>2. Len(stored') = Len(stored) + 1 /\ stored'[Len(stored) + 1] = p
        /\ \A j \in 1..Len(stored) : stored'[j] = stored[j]
    BY <1>2, <2>1
  <2>3. \A s : StoredData(s) => p = D(s)
    BY <1>2, <2>2 DEF StoredData, Store
  <2>4. \A s : StoredHeaders(s) => p = H(s)
    BY <1>2, <2>2 DEF StoredHeaders, Store
  <2>5. ~StoredNothing
    BY <1>1, <2>2 DEF StoredNothing
  <2> HIDE DEF D, H
  <2>6. /\ Len(stored) <= Len(stored') /\ Len(stored') \in Nat
    BY <1>1, <2>2
  <2> QED
    BY <1>1, <2>2, <2>3, <2>4, <2>5, <2>6 DEF D, H
<1> QED
  BY <1>3, <1>4 DEF WriterMoves

(* A stream that has pages of data in the ring but not its headers is gone *)
(* and will not get them.                                                  *)
LEMMA NeverFilled ==
  ASSUME OGGTyped, WriterMoves, WriterSound
  PROVE  \A j \in 1..Len(stored) : ~stored[j].head /\ ~Filled(stored[j].stream) => ~ThenFilled(stored[j].stream)
<1> SUFFICES ASSUME NEW j \in 1..Len(stored), ~stored[j].head, ~Filled(stored[j].stream)
             PROVE  ~ThenFilled(stored[j].stream)
  OBVIOUS
<1> DEFINE s == stored[j].stream
<1>1. s \in StreamIds /\ ~In(s)
  BY DEF OGGTyped, WriterSound, In
<1>2. \A t \in StreamIds : ~In(t) /\ ThenFilled(t) => Filled(t)
  BY DEF WriterMoves, StreamsGrow
<1> HIDE DEF s
<1>3. ~ThenFilled(s)
  BY <1>1, <1>2 DEF s
<1> QED
  BY <1>3 DEF s

LEMMA WriterKeeps ==
  ASSUME OGGTyped, WriterMoves, WriterSound, ~mixed'
  PROVE  WriterSound'
<1>1. ~ThenIn(ending')
  BY DEF WriterMoves
<1>2. ASSUME NEW j \in 1..Len(stored'), ~stored'[j].head
      PROVE  /\ ThenFilled(stored'[j].stream) \/ ~ThenIn(stored'[j].stream)
             /\ j <= ulSyncPos'
  <2>1. \A t \in StreamIds : (Filled(t) => ThenFilled(t)) /\ (~In(t) => ~ThenIn(t))
    BY DEF WriterMoves, StreamsGrow, In
  <2>2. ulSyncPos \in 0..Len(stored) \cup {-1} /\ Len(stored) \in Nat
    BY RingGrows DEF OGGTyped, NoPos
  <2>3. CASE j \in 1..Len(stored)
    <3>1. stored'[j] = stored[j]
      BY <2>3, RingGrows
    <3>2. stored[j].stream \in StreamIds
      BY <2>3 DEF OGGTyped
    <3>3. (Filled(stored[j].stream) \/ ~In(stored[j].stream)) /\ j <= ulSyncPos
      BY <1>2, <2>3, <3>1 DEF WriterSound, In
    <3>4. ulSyncPos' = ulSyncPos \/ ulSyncPos' = Len(stored) + 1
      BY DEF WriterMoves, StoredNothing, StoredData, StoredHeaders
    <3>5. j <= ulSyncPos'
      BY <2>2, <2>3, <3>3, <3>4
    <3> DEFINE s == stored[j].stream
    <3>7. ThenFilled(s) \/ ~ThenIn(s)
      <4>1. s \in StreamIds /\ (Filled(s) \/ ~In(s))
        BY <3>2, <3>3
      <4> HIDE DEF s
      <4>2. ThenFilled(s) \/ ~ThenIn(s)
        BY <2>1, <4>1
      <4> QED
        BY <4>2
    <3> QED
      BY <3>1, <3>5, <3>7
  <2>4. CASE j \notin 1..Len(stored)
    <3>1. j = Len(stored) + 1 /\ \E s : StoredData(s) \/ StoredHeaders(s)
      <4>1. ~StoredNothing
        BY <2>4, RingGrows
      <4>2. \E s : StoredData(s) \/ StoredHeaders(s)
        BY <4>1 DEF WriterMoves
      <4>3. Len(stored') = Len(stored) + 1
        BY <4>2, RingGrows
      <4> QED
        BY <2>2, <2>4, <4>2, <4>3
    <3>2. PICK s : StoredData(s)
      <4>1. ASSUME NEW s, StoredHeaders(s) PROVE FALSE
        <5>1. stored'[Len(stored) + 1] = [stream |-> s, head |-> TRUE]
          BY <4>1, RingGrows
        <5> QED
          BY <1>2, <3>1, <5>1
      <4> QED
        BY <3>1, <4>1
    <3>3. stored'[j].stream = s /\ ulSyncPos' = j
      <4>1. stored'[Len(stored) + 1] = [stream |-> s, head |-> FALSE]
        BY <3>2, RingGrows
      <4>2. ulSyncPos' = Len(stored) + 1
        BY <3>2 DEF StoredData
      <4> QED
        BY <3>1, <4>1, <4>2
    <3>4. s \in StreamIds /\ ((In(s) /\ Filled(s)) \/ s = ending) /\ ~In(ending)
      BY <3>2 DEF StoredData, WriterSound, In
    <3>5. ThenFilled(s) \/ ~ThenIn(s)
      BY <2>1, <3>4
    <3> QED
      BY <3>3, <3>5
  <2> QED
    BY <2>3, <2>4
<1> QED
  BY <1>1, <1>2 DEF WriterSound, ThenIn, ThenFilled, Filled

LEMMA HeardKeeps ==
  ASSUME OGGTyped, WriterMoves, ~mixed', NEW c \in OGGClients, HeardSound(ogg[c])
  PROVE  HeardSound(ogg[c])'
<1> SUFFICES ASSUME NEW s \in ogg'[c].heard
             PROVE  s \in ogg'[c].known \cup ogg'[c].parted \/ (~ThenFilled(s) /\ ~ThenIn(s))
  BY DEF HeardSound, ThenFilled, ThenIn, Filled
<1>1. /\ ogg'[c].heard = ogg[c].heard /\ ogg'[c].known = ogg[c].known
      /\ ogg[c].parted \subseteq ogg'[c].parted
  BY DEF WriterMoves, PartersKnow
<1>2. s \in StreamIds
  BY <1>1 DEF OGGTyped, Placed
<1>3. s \in ogg[c].known \cup ogg[c].parted \/ (~Filled(s) /\ ~In(s))
  BY <1>1 DEF HeardSound, In
<1>4. ~Filled(s) /\ ~In(s) => ~ThenFilled(s) /\ ~ThenIn(s)
  BY <1>2 DEF WriterMoves, StreamsGrow
<1> QED
  BY <1>1, <1>3, <1>4

(* The page that the writer has added, if it is not of the headers.        *)
LEMMA NewPage ==
  ASSUME OGGTyped, WriterMoves,
         NEW j \in 1..Len(stored'), j \notin 1..Len(stored), ~stored'[j].head
  PROVE  /\ StoredData(stored'[j].stream)
         /\ j = Len(stored) + 1 /\ Len(stored') = j
<1>1. Len(stored) \in Nat
  BY RingGrows
<1>2. ~StoredNothing
  BY RingGrows
<1>3. PICK s : StoredData(s) \/ StoredHeaders(s)
  BY <1>2 DEF WriterMoves
<1>4. Len(stored') = Len(stored) + 1
  BY <1>3, RingGrows
<1>5. j = Len(stored) + 1
  BY <1>1, <1>4
<1>6. ~StoredHeaders(s)
  <2>1. StoredHeaders(s) => stored'[j] = [stream |-> s, head |-> TRUE]
    BY <1>5, RingGrows
  <2> QED
    BY <2>1
<1>7. stored'[j] = [stream |-> s, head |-> FALSE]
  BY <1>3, <1>5, <1>6, RingGrows
<1>8. stored'[j].stream = s
  BY <1>7
<1>9. StoredData(s)
  BY <1>3, <1>6
<1> QED
  BY <1>4, <1>5, <1>8, <1>9

LEMMA JoinKeeps ==
  ASSUME OGGTyped, WriterMoves, WriterSound, ~mixed',
         NEW c \in OGGClients, ogg[c].pc = "join", JoinSound(ogg[c])
  PROVE  JoinSound(ogg[c])'
<1>1. /\ ogg'[c].ulReadPos = ogg[c].ulReadPos /\ ogg[c].parted \subseteq ogg'[c].parted
      /\ \A s \in StreamIds : In(s) /\ ~ThenIn(s) => s \in ogg'[c].parted
      /\ ending' \in {ending, NoStream} \cup ogg'[c].parted
  BY DEF WriterMoves, PartersKnow
<1>2. ending # NoStream => ending \in ogg[c].parted
  BY DEF JoinSound
<1>3. ASSUME NEW j \in 1..Len(stored'), ogg'[c].ulReadPos < j, ~stored'[j].head
      PROVE  \/ ThenIn(stored'[j].stream) \/ stored'[j].stream \in ogg'[c].parted
             \/ ~ThenFilled(stored'[j].stream)
  <2>1. CASE j \in 1..Len(stored)
    <3> DEFINE s == stored[j].stream
    <3>1. stored'[j] = stored[j]
      BY <2>1, RingGrows
    <3>2. s \in StreamIds
      BY <2>1 DEF OGGTyped
    <3>3. In(s) \/ s \in ogg[c].parted \/ ~Filled(s)
      BY <1>1, <1>3, <2>1, <3>1 DEF JoinSound, In
    <3>4. ~Filled(s) => ~ThenFilled(s)
      BY <1>3, <2>1, <3>1, NeverFilled
    <3> HIDE DEF s
    <3>5. ThenIn(s) \/ s \in ogg'[c].parted \/ ~ThenFilled(s)
      BY <1>1, <3>2, <3>3, <3>4
    <3> QED
      BY <3>1, <3>5 DEF s
  <2>2. CASE j \notin 1..Len(stored)
    <3> DEFINE s == stored'[j].stream
    <3>1. StoredData(s)
      BY <1>3, <2>2, NewPage
    <3> HIDE DEF s
    <3>2. s \in StreamIds /\ (In(s) \/ s = ending)
      BY <3>1 DEF StoredData
    <3>3. s # NoStream
      BY <3>2, StreamsAre DEF NoStream
    <3>4. ThenIn(s) \/ s \in ogg'[c].parted
      BY <1>1, <1>2, <3>2, <3>3
    <3> QED
      BY <3>4 DEF s
  <2> QED
    BY <2>1, <2>2
<1>4. ending' # NoStream => ending' \in ogg'[c].parted
  BY <1>1, <1>2
<1> QED
  BY <1>3, <1>4 DEF JoinSound, ThenIn, ThenFilled, Filled

ThenAhead(l, s, j) == \E i \in 1..j : l.ulReadPos < i /\ stored'[i].head /\ stored'[i].stream = s

LEMMA AheadStays ==
  ASSUME OGGTyped, WriterMoves, NEW c \in OGGClients, NEW s,
         NEW j \in 0..Len(stored), HeaderAhead(ogg[c], s, j)
  PROVE  \A k \in Nat : k >= j => ThenAhead(ogg'[c], s, k)
<1>1. PICK i \in 1..j : ogg[c].ulReadPos < i /\ stored[i].head /\ stored[i].stream = s
  BY DEF HeaderAhead
<1>2. i \in 1..Len(stored) /\ \A k \in Nat : k >= j => i \in 1..k
  BY RingGrows
<1>3. stored'[i] = stored[i]
  BY <1>2, RingGrows
<1>4. ogg'[c].ulReadPos = ogg[c].ulReadPos
  BY DEF WriterMoves, PartersKnow
<1> QED
  BY <1>1, <1>2, <1>3, <1>4 DEF ThenAhead

LEMMA IdleKeeps ==
  ASSUME OGGTyped, WriterMoves, WriterSound, ~mixed',
         NEW c \in OGGClients, ogg[c].pc = "idle", IdleSound(ogg[c])
  PROVE  IdleSound(ogg[c])'
<1>1. /\ ogg'[c].ulReadPos = ogg[c].ulReadPos /\ ogg[c].parted \subseteq ogg'[c].parted
      /\ ogg'[c].known = ogg[c].known /\ ogg'[c].sSVec = ogg[c].sSVec
      /\ ogg'[c].ulHdrPage = ogg[c].ulHdrPage
  BY DEF WriterMoves, PartersKnow
<1>2. \A s : Ready(ogg[c], s) => Ready(ogg'[c], s)
  BY <1>1 DEF Ready
<1>3. Len(stored) \in Nat /\ Len(stored') \in Nat /\ Len(stored) <= Len(stored')
  BY RingGrows
(* A stream whose data may come now, and that is filled, has its headers.  *)
<1>4. ASSUME NEW s \in StreamIds, In(s) \/ s = ending, Filled(s), NEW k \in Nat, k >= Len(stored)
      PROVE  Ready(ogg'[c], s) \/ ThenAhead(ogg'[c], s, k)
  <2>1. Ready(ogg[c], s) \/ HeaderAhead(ogg[c], s, Len(stored))
    BY <1>4 DEF IdleSound, In
  <2>2. CASE Ready(ogg[c], s)
    BY <1>2, <2>2
  <2>3. CASE HeaderAhead(ogg[c], s, Len(stored))
    <3>1. Len(stored) \in 0..Len(stored)
      BY <1>3
    <3> QED
      BY <1>4, <2>3, <3>1, AheadStays
  <2> QED
    BY <2>1, <2>2, <2>3
<1>5. ASSUME NEW j \in 1..Len(stored'), ogg'[c].ulReadPos < j, ~stored'[j].head
      PROVE  \/ Ready(ogg'[c], stored'[j].stream) \/ ~ThenFilled(stored'[j].stream)
             \/ ThenAhead(ogg'[c], stored'[j].stream, j)
  <2>1. CASE j \in 1..Len(stored)
    <3> DEFINE s == stored[j].stream
    <3>1. stored'[j] = stored[j]
      BY <2>1, RingGrows
    <3>2. Ready(ogg[c], s) \/ ~Filled(s) \/ HeaderAhead(ogg[c], s, j)
      BY <1>1, <1>5, <2>1, <3>1 DEF IdleSound
    <3>3. ~Filled(s) => ~ThenFilled(s)
      BY <1>5, <2>1, <3>1, NeverFilled
    <3>4. j \in Nat /\ j \in 0..Len(stored) /\ j >= j
      BY <2>1, <1>3
    <3> HIDE DEF s
    <3>5. HeaderAhead(ogg[c], s, j) => ThenAhead(ogg'[c], s, j)
      BY <3>4, AheadStays
    <3>6. Ready(ogg'[c], s) \/ ~ThenFilled(s) \/ ThenAhead(ogg'[c], s, j)
      BY <1>2, <3>2, <3>3, <3>5
    <3> QED
      BY <3>1, <3>6 DEF s
  <2>2. CASE j \notin 1..Len(stored)
    <3> DEFINE s == stored'[j].stream
    <3>1. StoredData(s) /\ j = Len(stored) + 1
      BY <1>5, <2>2, NewPage
    <3> HIDE DEF s
    <3>2. s \in StreamIds /\ (In(s) \/ s = ending) /\ (ThenFilled(s) => Filled(s))
      BY <3>1 DEF StoredData
    <3>3. j \in Nat /\ j >= Len(stored)
      BY <1>3, <3>1
    <3>4. Ready(ogg'[c], s) \/ ~ThenFilled(s) \/ ThenAhead(ogg'[c], s, j)
      BY <1>4, <3>2, <3>3
    <3> QED
      BY <3>4 DEF s
  <2> QED
    BY <2>1, <2>2
<1>6. ASSUME NEW s \in StreamIds', ThenIn(s) \/ s = ending', ThenFilled(s)
      PROVE  Ready(ogg'[c], s) \/ ThenAhead(ogg'[c], s, Len(stored'))
  <2>1. s \in StreamIds
    BY <1>6 DEF WriterMoves, StreamsGrow
  <2>2. s # NoStream
    BY <2>1, StreamsAre DEF NoStream
  <2>3. In(s) \/ s = ending
    BY <1>6, <2>1, <2>2 DEF WriterMoves, StreamsGrow
  <2>4. CASE Filled(s)
    BY <1>3, <1>4, <2>1, <2>3, <2>4
  <2>5. CASE ~Filled(s)
    <3>1. StoredHeaders(s)
      BY <1>6, <2>1, <2>5 DEF WriterMoves, StoredNothing, StoredData, StoredHeaders
    <3>2. Len(stored') = Len(stored) + 1 /\ stored'[Len(stored')] = [stream |-> s, head |-> TRUE]
      BY <3>1, RingGrows
    <3>3. stored'[Len(stored')].head /\ stored'[Len(stored')].stream = s
      BY <3>2
    <3>4. ogg'[c].ulReadPos < Len(stored') /\ Len(stored') \in 1..Len(stored')
      <4>1. ogg[c].ulReadPos <= Len(stored) /\ ogg[c].ulReadPos \in Nat \cup {-1}
        BY DEF OGGTyped, Placed, OGGRecords, NoPos
      <4> QED
        BY <1>1, <1>3, <3>2, <4>1
    <3> QED
      BY <3>3, <3>4 DEF ThenAhead
  <2> QED
    BY <2>4, <2>5
<1>7. ASSUME NEW s \in StreamIds', Contains(ogg'[c].sSVec, s) PROVE ThenFilled(s)
  <2>1. Contains(ogg[c].sSVec, s) /\ Vector(ogg[c].sSVec)
    BY <1>1, <1>7 DEF OGGTyped, Placed
  <2>2. s \in StreamIds
    BY <2>1, VectorHas
  <2>3. Filled(s)
    BY <2>1, <2>2 DEF IdleSound
  <2> QED
    BY <2>2, <2>3 DEF WriterMoves, StreamsGrow
<1>8. ogg'[c].ulHdrPage <= HdrPages
      /\ (ogg'[c].sSVec # <<>> /\ ogg'[c].ulHdrPage = HdrPages => ogg'[c].sSVec[1] \in ogg'[c].known)
  BY <1>1 DEF IdleSound
<1> QED
  BY <1>5, <1>6, <1>7, <1>8 DEF IdleSound, ThenIn, ThenFilled, Filled, ThenAhead, HeaderAhead, Ready

LEMMA WriterStep ==
  ASSUME OGGTyped, HeadersFirst, WriterMoves
  PROVE  HeadersFirst'
<1> SUFFICES ASSUME ~mixed'
             PROVE  WriterSound' /\ \A c \in OGGClients : ~ogg'[c].unplaced => ListenerSound(ogg[c])'
  BY DEF HeadersFirst
<1>1. ~mixed
  BY DEF WriterMoves
<1>2. WriterSound /\ \A c \in OGGClients : ~ogg[c].unplaced => ListenerSound(ogg[c])
  BY <1>1 DEF HeadersFirst
<1>3. ASSUME NEW c \in OGGClients, ~ogg'[c].unplaced PROVE ListenerSound(ogg[c])'
  <2>1. ogg'[c].pc = ogg[c].pc /\ ogg'[c].unplaced = ogg[c].unplaced /\ ogg'[c].ulReadPos = ogg[c].ulReadPos
    BY DEF WriterMoves, PartersKnow
  <2>2. ListenerSound(ogg[c])
    BY <1>2, <1>3, <2>1
  <2>3. HeardSound(ogg[c])'
    BY <2>2, HeardKeeps DEF ListenerSound
  <2>4. ogg[c].pc = "join" => JoinSound(ogg[c])'
    BY <1>2, <2>2, JoinKeeps DEF ListenerSound
  <2>5. ogg[c].pc = "idle" => IdleSound(ogg[c])'
    BY <1>2, <2>2, IdleKeeps DEF ListenerSound
  <2> QED
    BY <2>1, <2>2, <2>3, <2>4, <2>5 DEF ListenerSound, NoPos
<1>4. WriterSound'
  BY <1>2, WriterKeeps
<1> QED
  BY <1>3, <1>4

----------------------------------------------------------------------------
(* OGG: a step of a listener *)

Has(l, s) == IF Contains(l.sSVec, s) THEN 1 ELSE 0

(* Listener c becomes m; the streams are counted accordingly.              *)
ListenerBecomes(c, m) ==
  /\ UNCHANGED Writer
  /\ ogg' = [ogg EXCEPT ![c] = m] /\ m \in OGGRecords /\ Placed(m)
  /\ mixed' \in BOOLEAN /\ (~mixed' => ~mixed)
  /\ stream' \in Seq(StreamRecords) /\ StreamIds' = StreamIds
  /\ \A s \in StreamIds : stream'[s].ulPagesCount = stream[s].ulPagesCount
  /\ ~mixed' => \A s \in StreamIds :
       stream'[s].ulUsed + Has(ogg[c], s) = stream[s].ulUsed + Has(m, s)

StaysSound(c, m) ==
  ~mixed' /\ WriterSound /\ (~ogg[c].unplaced => ListenerSound(ogg[c])) /\ ~m.unplaced
    => ListenerSound(m)

LEMMA OthersStay ==
  ASSUME OGGTyped, NEW c \in OGGClients, NEW m, ListenerBecomes(c, m)
  PROVE  /\ ogg' \in [OGGClients -> OGGRecords] /\ ogg'[c] = m
         /\ \A d \in OGGClients : d # c => ogg'[d] = ogg[d]
         /\ stored' = stored /\ ulSyncPos' = ulSyncPos /\ sSVec' = sSVec /\ ending' = ending
BY DEF OGGTyped, ListenerBecomes, Writer

LEMMA ListenerTyped ==
  ASSUME OGGTyped, NEW c \in OGGClients, NEW m, ListenerBecomes(c, m)
  PROVE  OGGTyped'
<1>1. /\ ogg' \in [OGGClients -> OGGRecords] /\ ogg'[c] = m
      /\ \A d \in OGGClients : d # c => ogg'[d] = ogg[d]
      /\ stored' = stored /\ ulSyncPos' = ulSyncPos /\ sSVec' = sSVec /\ ending' = ending
  BY OthersStay
<1>2. StreamIds' = StreamIds
  BY DEF ListenerBecomes
<1>3. \A d \in OGGClients : Placed(ogg'[d])
  BY <1>1 DEF OGGTyped, ListenerBecomes
<1>4. ASSUME NEW d \in OGGClients PROVE Placed(ogg[d])'
  <2> DEFINE l == ogg'[d]
  <2>1. Placed(l)
    BY <1>3
  <2>2. /\ l.sSVec \in Seq(Nat) /\ Len(l.sSVec) <= MaxStreams
        /\ \A i \in 1..Len(l.sSVec) : l.sSVec[i] \in StreamIds
        /\ l.pc \in {"away", "join"} => l.sSVec = <<>> /\ l.ulHdrPage = 0
        /\ l.ulReadPos <= Len(stored) /\ l.heard \subseteq StreamIds
    BY <2>1 DEF Placed, Vector
  <2> QED
    BY <1>1, <1>2, <2>2 DEF Placed, Vector
<1>5. Vector(sSVec)'
  BY <1>1, <1>2 DEF OGGTyped, Vector
<1>6. stream' \in Seq(StreamRecords) /\ mixed' \in BOOLEAN
  BY DEF ListenerBecomes
<1>7. /\ stored' \in Seq(Pages) /\ \A j \in 1..Len(stored') : stored'[j].stream \in StreamIds'
      /\ ulSyncPos' \in 0..Len(stored') \cup {NoPos} /\ ending' \in StreamIds' \cup {NoStream}
  BY <1>1, <1>2 DEF OGGTyped
<1> QED
  BY <1>1, <1>4, <1>5, <1>6, <1>7 DEF OGGTyped

LEMMA UsedIs ==
  ASSUME OGGTyped, NEW s \in StreamIds
  PROVE  stream[s].ulUsed \in Int /\ stream[s].ulPagesCount \in 1..HdrPages
BY StreamsAre DEF StreamRecords

LEMMA ListenerCounted ==
  ASSUME OGGTyped, StreamsCounted, NEW c \in OGGClients, NEW m, ListenerBecomes(c, m)
  PROVE  StreamsCounted'
<1> SUFFICES ASSUME ~mixed', NEW s \in StreamIds
             PROVE  stream'[s].ulUsed = StreamHolders(s)'
  BY DEF StreamsCounted, ListenerBecomes
<1>1. ogg'[c] = m /\ sSVec' = sSVec /\ \A d \in OGGClients : d # c => ogg'[d].sSVec = ogg[d].sSVec
  BY OthersStay
<1>2. stream[s].ulUsed = StreamHolders(s)
  BY DEF StreamsCounted, ListenerBecomes
<1>3. stream'[s].ulUsed + Has(ogg[c], s) = stream[s].ulUsed + Has(m, s)
  BY DEF ListenerBecomes
<1>4. /\ Listening(s) \in Nat /\ Listening(s)' \in Nat
      /\ Listening(s)' + Has(ogg[c], s) = Listening(s) + Has(m, s)
  BY <1>1, ListeningChanges DEF Has
<1>5. Has(ogg[c], s) \in Int /\ Has(m, s) \in Int
  BY DEF Has
<1>6. stream[s].ulUsed \in Int /\ stream'[s].ulUsed \in Int
  <2>1. OGGTyped' /\ s \in StreamIds'
    BY ListenerTyped DEF ListenerBecomes
  <2>2. stream' \in Seq(StreamRecords) /\ StreamIds' = DOMAIN stream'
    BY DEF ListenerBecomes, StreamIds
  <2>3. stream'[s] \in StreamRecords
    BY <2>1, <2>2
  <2> QED
    BY <2>3, UsedIs DEF StreamRecords
<1> DEFINE k == IF Contains(sSVec, s) THEN 1 ELSE 0
<1>7. k \in Int /\ StreamHolders(s) = Listening(s) + k /\ StreamHolders(s)' = Listening(s)' + k
  BY <1>1, StreamHoldersAre
<1> DEFINE h == Has(ogg[c], s)
           n == Has(m, s)
<1> HIDE DEF k, h, n
<1>8. stream'[s].ulUsed + h = Listening(s) + k + n /\ Listening(s)' + h = Listening(s) + n
  BY <1>2, <1>3, <1>4, <1>7 DEF h, n
<1>9. h \in Int /\ n \in Int
  BY <1>5 DEF h, n
<1>10. stream'[s].ulUsed = Listening(s)' + k
  BY <1>4, <1>6, <1>7, <1>8, <1>9
<1> QED
  BY <1>7, <1>10

LEMMA ListenerStep ==
  ASSUME OGGTyped, HeadersFirst, NEW c \in OGGClients, NEW m, ListenerBecomes(c, m), StaysSound(c, m)
  PROVE  HeadersFirst'
<1> SUFFICES ASSUME ~mixed'
             PROVE  WriterSound' /\ \A d \in OGGClients : ~ogg'[d].unplaced => ListenerSound(ogg[d])'
  BY DEF HeadersFirst
<1>1. ~mixed
  BY DEF ListenerBecomes
<1>2. WriterSound /\ \A d \in OGGClients : ~ogg[d].unplaced => ListenerSound(ogg[d])
  BY <1>1 DEF HeadersFirst
<1>3. /\ ogg'[c] = m /\ \A d \in OGGClients : d # c => ogg'[d] = ogg[d]
      /\ stored' = stored /\ ulSyncPos' = ulSyncPos /\ sSVec' = sSVec /\ ending' = ending
  BY OthersStay
<1>4. StreamIds' = StreamIds /\ \A s \in StreamIds : ThenFilled(s) <=> Filled(s)
  BY DEF ListenerBecomes, ThenFilled, Filled
<1>5. \A j \in 1..Len(stored) : stored[j].stream \in StreamIds
  BY DEF OGGTyped
<1>6. WriterSound'
  <2>1. /\ ~Contains(sSVec', ending')
        /\ \A j \in 1..Len(stored') : ~stored'[j].head =>
             /\ ThenFilled(stored'[j].stream) \/ ~Contains(sSVec', stored'[j].stream)
             /\ j <= ulSyncPos'
    BY <1>2, <1>3, <1>4, <1>5 DEF WriterSound
  <2> QED
    BY <2>1 DEF WriterSound, ThenFilled, Filled
<1>7. ASSUME NEW d \in OGGClients, ~ogg'[d].unplaced PROVE ListenerSound(ogg[d])'
  <2> DEFINE l == ogg'[d]
  <2>1. ListenerSound(l)
    BY <1>2, <1>3, <1>7 DEF StaysSound
  <2>2. l.heard \subseteq StreamIds
    BY <1>3 DEF ListenerBecomes, Placed, OGGTyped
  <2>3. HeardSound(ogg[d])'
    <3> SUFFICES ASSUME NEW s \in l.heard
                 PROVE  s \in l.known \cup l.parted \/ (~ThenFilled(s) /\ ~Contains(sSVec', s))
      BY DEF HeardSound, ThenFilled, Filled
    <3>1. s \in l.known \cup l.parted \/ (~Filled(s) /\ ~Contains(sSVec, s))
      BY <2>1 DEF ListenerSound, HeardSound
    <3>2. s \in StreamIds
      BY <2>2
    <3> QED
      BY <1>3, <1>4, <3>1, <3>2
  <2>4. JoinSound(l) => JoinSound(ogg[d])'
    <3>1. ASSUME JoinSound(l), NEW j \in 1..Len(stored), l.ulReadPos < j, ~stored[j].head
          PROVE  Contains(sSVec, stored[j].stream) \/ stored[j].stream \in l.parted \/ ~ThenFilled(stored[j].stream)
      BY <1>4, <1>5, <3>1 DEF JoinSound
    <3> QED
      BY <1>3, <3>1 DEF JoinSound, ThenFilled, Filled
  <2>5. IdleSound(l) => IdleSound(ogg[d])'
    <3> SUFFICES ASSUME IdleSound(l) PROVE IdleSound(ogg[d])'
      OBVIOUS
    <3>1. ASSUME NEW j \in 1..Len(stored), l.ulReadPos < j, ~stored[j].head
          PROVE  Ready(l, stored[j].stream) \/ ~ThenFilled(stored[j].stream) \/ HeaderAhead(l, stored[j].stream, j)
      BY <1>4, <1>5, <3>1 DEF IdleSound
    <3>2. ASSUME NEW s \in StreamIds, Contains(sSVec, s) \/ s = ending, ThenFilled(s)
          PROVE  Ready(l, s) \/ HeaderAhead(l, s, Len(stored))
      BY <1>4, <3>2 DEF IdleSound
    <3>3. \A s \in StreamIds : Contains(l.sSVec, s) => ThenFilled(s)
      BY <1>4 DEF IdleSound
    <3>4. l.ulHdrPage <= HdrPages /\ (l.sSVec # <<>> /\ l.ulHdrPage = HdrPages => l.sSVec[1] \in l.known)
      BY DEF IdleSound
    <3> QED
      BY <1>3, <1>4, <3>1, <3>2, <3>3, <3>4 DEF IdleSound, ThenFilled, Filled, Ready, HeaderAhead
  <2> QED
    BY <2>1, <2>3, <2>4, <2>5 DEF ListenerSound, NoPos
<1> QED
  BY <1>6, <1>7

LEMMA ListenerKeeps ==
  ASSUME OGGInv, NEW c \in OGGClients, NEW m, ListenerBecomes(c, m), StaysSound(c, m)
  PROVE  OGGInv'
<1>1. OGGTyped /\ StreamsCounted /\ HeadersFirst
  BY DEF OGGInv
<1>2. OGGTyped' /\ StreamsCounted' /\ HeadersFirst'
  BY <1>1, ListenerTyped, ListenerCounted, ListenerStep
<1> QED
  BY <1>2 DEF OGGInv

LEMMA QuietBecomes ==
  ASSUME OGGTyped, NEW c \in OGGClients, NEW m,
         UNCHANGED <<Writer, stream, mixed>>, ogg' = [ogg EXCEPT ![c] = m],
         m \in OGGRecords, Placed(m), m.sSVec = ogg[c].sSVec
  PROVE  ListenerBecomes(c, m)
<1>1. stream' = stream /\ mixed' = mixed
  OBVIOUS
<1>2. stream \in Seq(StreamRecords) /\ mixed \in BOOLEAN
  BY DEF OGGTyped
<1>3. \A s : Has(ogg[c], s) = Has(m, s)
  BY DEF Has
<1> QED
  BY <1>1, <1>2, <1>3 DEF ListenerBecomes, StreamIds

LEMMA CountedBecomes ==
  ASSUME OGGTyped, NEW c \in OGGClients, NEW m, NEW v, NEW d \in Int,
         UNCHANGED Writer, ogg' = [ogg EXCEPT ![c] = m],
         m \in OGGRecords, Placed(m), stream' = Counted(v, d),
         mixed' \in BOOLEAN, ~mixed' => ~mixed,
         ~mixed' => \A s \in StreamIds :
           Has(ogg[c], s) + (IF Contains(v, s) THEN d ELSE 0) = Has(m, s)
  PROVE  ListenerBecomes(c, m)
<1>1. /\ stream' \in Seq(StreamRecords) /\ StreamIds' = StreamIds
      /\ \A s \in StreamIds :
           /\ stream'[s].ulPagesCount = stream[s].ulPagesCount
           /\ stream'[s].ulUsed = stream[s].ulUsed + (IF Contains(v, s) THEN d ELSE 0)
  BY CountedIs
<1>2. ASSUME ~mixed', NEW s \in StreamIds
      PROVE  stream'[s].ulUsed + Has(ogg[c], s) = stream[s].ulUsed + Has(m, s)
  <2> DEFINE k == IF Contains(v, s) THEN d ELSE 0
             h == Has(ogg[c], s)
             n == Has(m, s)
  <2>1. k \in Int /\ h \in Int /\ n \in Int
    BY DEF Has
  <2>2. h + k = n /\ stream'[s].ulUsed = stream[s].ulUsed + k
    BY <1>1, <1>2
  <2>3. stream[s].ulUsed \in Int
    BY UsedIs
  <2> HIDE DEF k, h, n
  <2>4. stream'[s].ulUsed + h = stream[s].ulUsed + n
    BY <2>1, <2>2, <2>3
  <2> QED
    BY <2>4 DEF h, n
<1> QED
  BY <1>1, <1>2 DEF ListenerBecomes

(* What a listener is, before it does something.                           *)
LEMMA ListenerHas ==
  ASSUME OGGTyped, NEW c \in OGGClients
  PROVE  /\ ogg[c] \in OGGRecords /\ Placed(ogg[c])
         /\ ulSyncPos \in Nat \cup {-1} /\ ulSyncPos <= Len(stored) /\ Len(stored) \in Nat
BY DEF OGGTyped, NoPos

LEMMA AbsentIs == Absent \in OGGRecords /\ (OGGTyped => Placed(Absent))
<1>1. <<>> \in Seq(Nat) /\ {} \in SUBSET Nat
  OBVIOUS
<1>2. Absent \in OGGRecords
  BY <1>1 DEF Absent, OGGRecords, NoPos
<1>3. ASSUME OGGTyped PROVE Placed(Absent)
  <2>1. -1 <= Len(stored)
    BY <1>3 DEF OGGTyped
  <2> QED
    BY <2>1, EmptyVector DEF Placed, Absent, NoPos
<1> QED
  BY <1>2, <1>3

LEMMA AbsentSound == ListenerSound(Absent)
BY DEF ListenerSound, HeardSound, Absent

LEMMA OGGNewKeeps ==
  ASSUME OGGInv, NEW c \in OGGClients, OGGClientNew(c)
  PROVE  OGGInv'
<1>1. OGGTyped
  BY DEF OGGInv
<1> DEFINE m == [Absent EXCEPT !.pc = "join", !.ulReadPos = ulSyncPos,
                               !.unplaced = ulSyncPos = NoPos,
                               !.parted = {ending} \ {NoStream}]
<1>2. /\ m.pc = "join" /\ m.sSVec = <<>> /\ m.ulHdrPage = 0 /\ m.ulReadPos = ulSyncPos
      /\ m.unplaced = (ulSyncPos = NoPos) /\ m.known = {} /\ m.heard = {}
      /\ m.parted = {ending} \ {NoStream}
      /\ DOMAIN m = {"pc", "sSVec", "ulHdrPage", "ulReadPos", "unplaced", "known", "heard", "parted"}
  BY DEF Absent
<1>3. ogg' = [ogg EXCEPT ![c] = m] /\ ogg[c].pc = "away"
  BY DEF OGGClientNew
<1>4. m \in OGGRecords
  <2>1. ulSyncPos \in Nat \cup {NoPos} /\ {ending} \ {NoStream} \in SUBSET Nat
    BY <1>1, StreamsAre DEF OGGTyped, NoStream
  <2>2. (ulSyncPos = NoPos) \in BOOLEAN
    OBVIOUS
  <2> DEFINE b == ulSyncPos = NoPos
             q == {ending} \ {NoStream}
  <2>3. b \in BOOLEAN /\ q \in SUBSET Nat
    BY <2>1
  <2>4. m = [Absent EXCEPT !.pc = "join", !.ulReadPos = ulSyncPos, !.unplaced = b, !.parted = q]
    OBVIOUS
  <2> HIDE DEF m, b, q
  <2> QED
    BY <2>1, <2>3, <2>4, AbsentIs DEF OGGRecords
<1> HIDE DEF m
<1>5. Placed(m)
  BY <1>1, <1>2, ListenerHas, EmptyVector DEF Placed
<1>6. ogg[c].sSVec = <<>>
  BY <1>1, <1>3 DEF OGGTyped, Placed
<1>7. ListenerBecomes(c, m)
  BY <1>1, <1>2, <1>3, <1>4, <1>5, <1>6, QuietBecomes DEF OGGClientNew
<1>8. ASSUME WriterSound, ~m.unplaced PROVE ListenerSound(m)
  <2>1. HeardSound(m)
    BY <1>2 DEF HeardSound
  <2>2. m.ulReadPos # NoPos
    BY <1>2, <1>8
  <2>3. JoinSound(m)
    <3>1. ASSUME NEW j \in 1..Len(stored), m.ulReadPos < j, ~stored[j].head PROVE FALSE
      <4>1. j <= ulSyncPos
        BY <1>8, <3>1 DEF WriterSound
      <4> QED
        BY <1>1, <1>2, <3>1, <4>1, ListenerHas
    <3> QED
      BY <1>2, <3>1 DEF JoinSound
  <2> QED
    BY <1>2, <2>1, <2>2, <2>3 DEF ListenerSound
<1>9. StaysSound(c, m)
  BY <1>8 DEF StaysSound
<1> QED
  BY <1>7, <1>9, ListenerKeeps

LEMMA OGGJoinKeeps ==
  ASSUME OGGInv, NEW c \in OGGClients, OGGJoin(c)
  PROVE  OGGInv'
<1>1. OGGTyped
  BY DEF OGGInv
<1>2. PICK w \in SeqOf(ToSet(sSVec), Len(sSVec)) :
        /\ IsFilledOf(w, sSVec)
        /\ stream' = Counted(w, 1)
        /\ ogg' = [ogg EXCEPT ![c].pc = "idle", ![c].sSVec = w]
  BY DEF OGGJoin
<1> DEFINE l == ogg[c]
           m == [l EXCEPT !.pc = "idle", !.sSVec = w]
<1>3. l \in OGGRecords /\ Placed(l) /\ l.pc = "join" /\ l.sSVec = <<>> /\ l.ulHdrPage = 0
  BY <1>1, ListenerHas DEF OGGJoin, Placed
<1>4. Vector(sSVec)
  BY <1>1 DEF OGGTyped
<1>5. w \in Seq(Nat) /\ Len(w) <= Len(sSVec) /\ \A i \in 1..Len(w) : w[i] \in ToSet(sSVec)
  <2>1. PICK n \in 0..Len(sSVec) : w \in [1..n -> ToSet(sSVec)]
    BY <1>2 DEF SeqOf
  <2>2. ToSet(sSVec) \subseteq Nat /\ Len(sSVec) \in Nat
    BY <1>4 DEF Vector, ToSet
  <2>3. w \in [1..n -> Nat] /\ n \in Nat
    BY <2>1, <2>2
  <2>4. w \in Seq(Nat) /\ Len(w) = n
    BY <2>3
  <2> QED
    BY <2>1, <2>2, <2>4
<1>6. \A s : Contains(w, s) <=> Contains(sSVec, s) /\ Filled(s)
  <2>1. ToSet(w) = {s \in ToSet(sSVec) : Filled(s)}
    BY <1>2 DEF IsFilledOf
  <2>2. \A s : (Contains(w, s) <=> s \in ToSet(w)) /\ (Contains(sSVec, s) <=> s \in ToSet(sSVec))
    BY <1>4, <1>5 DEF Contains, ToSet, Vector
  <2> QED
    BY <2>1, <2>2
<1>7. Vector(w)
  <2>1. sSVec \in Seq(Nat) /\ Len(sSVec) \in Nat /\ Len(w) \in Nat
    BY <1>4, <1>5 DEF Vector
  <2>2. Len(w) <= MaxStreams
    <3>1. Len(sSVec) <= MaxStreams /\ MaxStreams \in Nat
      BY <1>4, OGGBounds DEF Vector
    <3> QED
      BY <1>5, <2>1, <3>1
  <2>3. \A i \in 1..Len(w) : w[i] \in StreamIds
    BY <1>4, <1>5 DEF Vector, ToSet
  <2> QED
    BY <1>5, <2>2, <2>3 DEF Vector
<1>8. /\ m.pc = "idle" /\ m.sSVec = w /\ m.ulHdrPage = 0 /\ m.ulReadPos = l.ulReadPos
      /\ m.unplaced = l.unplaced /\ m.known = l.known /\ m.heard = l.heard /\ m.parted = l.parted
  BY <1>3 DEF OGGRecords
<1>9. m \in OGGRecords
  BY <1>3, <1>5 DEF OGGRecords
<1>10. ogg' = [ogg EXCEPT ![c] = m]
  BY <1>2
<1> HIDE DEF m
<1>11. Placed(m)
  BY <1>3, <1>7, <1>8 DEF Placed
<1>12. \A s \in StreamIds : Has(ogg[c], s) + (IF Contains(w, s) THEN 1 ELSE 0) = Has(m, s)
  BY <1>3, <1>8, EmptyVector DEF Has
<1>13. mixed' = mixed /\ mixed \in BOOLEAN /\ UNCHANGED Writer
  BY <1>1 DEF OGGJoin, OGGTyped
<1>14. ListenerBecomes(c, m)
  <2>1. stream' = Counted(w, 1) /\ 1 \in Int
    BY <1>2
  <2>2. UNCHANGED Writer /\ mixed' \in BOOLEAN /\ (~mixed' => ~mixed)
    BY <1>13
  <2> QED
    BY <1>1, <1>9, <1>10, <1>11, <1>12, <2>1, <2>2, CountedBecomes
<1>15. ASSUME ListenerSound(l) PROVE ListenerSound(m)
  <2>1. HeardSound(m) /\ m.ulReadPos # NoPos /\ JoinSound(l)
    BY <1>3, <1>8, <1>15 DEF ListenerSound, HeardSound
  <2>2. \A s : Contains(sSVec, s) /\ Filled(s) => Ready(m, s)
    BY <1>6, <1>8 DEF Ready
  <2>3. \A s : s \in l.parted => Ready(m, s)
    BY <1>8 DEF Ready
  <2>4. \A j \in 1..Len(stored) : m.ulReadPos < j /\ ~stored[j].head =>
          Ready(m, stored[j].stream) \/ ~Filled(stored[j].stream)
    BY <1>8, <2>1, <2>2, <2>3 DEF JoinSound
  <2>5. \A s \in StreamIds : (Contains(sSVec, s) \/ s = ending) /\ Filled(s) => Ready(m, s)
    <3>1. \A s \in StreamIds : s # NoStream
      BY <1>1, StreamsAre DEF NoStream
    <3> QED
      BY <2>1, <2>2, <2>3, <3>1 DEF JoinSound
  <2>6. \A s \in StreamIds : Contains(m.sSVec, s) => Filled(s)
    BY <1>6, <1>8
  <2>7. m.ulHdrPage <= HdrPages /\ m.ulHdrPage # HdrPages
    BY <1>8, OGGBounds
  <2> QED
    BY <1>8, <2>1, <2>4, <2>5, <2>6, <2>7 DEF ListenerSound, IdleSound
<1>16. StaysSound(c, m)
  BY <1>8, <1>15 DEF StaysSound
<1> QED
  BY <1>14, <1>16, ListenerKeeps

(* A listener that reads headers: the first stream it has is filled.       *)
LEMMA FirstIs ==
  ASSUME OGGTyped, NEW c \in OGGClients, Heading(c)
  PROVE  /\ Len(ogg[c].sSVec) >= 1 /\ Len(ogg[c].sSVec) \in Nat
         /\ First(c) \in StreamIds /\ Contains(ogg[c].sSVec, First(c))
         /\ (IdleSound(ogg[c]) => stream[First(c)].ulPagesCount = HdrPages)
         /\ stream[First(c)].ulPagesCount \in 1..HdrPages
<1>1. Vector(ogg[c].sSVec) /\ ogg[c].sSVec # <<>>
  BY ListenerHas DEF Heading, Placed
<1>2. ogg[c].sSVec \in Seq(Nat) /\ Len(ogg[c].sSVec) \in Nat /\ Len(ogg[c].sSVec) >= 1
  BY <1>1 DEF Vector
<1>3. 1 \in 1..Len(ogg[c].sSVec) /\ 1 \in DOMAIN ogg[c].sSVec
  BY <1>2
<1>4. First(c) \in StreamIds /\ Contains(ogg[c].sSVec, First(c))
  BY <1>1, <1>3 DEF Vector, First, Contains
<1>5. IdleSound(ogg[c]) => stream[First(c)].ulPagesCount = HdrPages
  BY <1>4 DEF IdleSound, Filled
<1> QED
  BY <1>2, <1>4, <1>5, UsedIs

LEMMA OGGHeaderKeeps ==
  ASSUME OGGInv, NEW c \in OGGClients, ReadHeader(c)
  PROVE  OGGInv'
<1>1. OGGTyped
  BY DEF OGGInv
<1> DEFINE l == ogg[c]
           s == First(c)
           h == l.ulHdrPage + 1
           k == IF h = HdrPages THEN l.known \cup {s} ELSE l.known
           m == [l EXCEPT !.ulHdrPage = h, !.known = k]
<1>2. l \in OGGRecords /\ Placed(l)
  BY <1>1, ListenerHas
<1>3. s \in StreamIds /\ s \in Nat /\ (IdleSound(l) => stream[s].ulPagesCount = HdrPages) /\ Heading(c)
      /\ stream[s].ulPagesCount \in 1..HdrPages
  BY <1>1, FirstIs, StreamsAre DEF ReadHeader
<1>4. l.pc = "idle" /\ l.sSVec # <<>> /\ l.ulHdrPage < stream[s].ulPagesCount
  BY DEF ReadHeader, Heading
<1>5. ogg' = [ogg EXCEPT ![c] = m]
  BY DEF ReadHeader
<1>6. k \in SUBSET Nat /\ l.known \subseteq k /\ (h = HdrPages => s \in k) /\ h \in Nat
  BY <1>2, <1>3 DEF OGGRecords
<1>7. l.ulHdrPage \in Nat /\ HdrPages \in Nat
  BY <1>2, OGGBounds DEF OGGRecords
<1>8. s = l.sSVec[1] /\ h = l.ulHdrPage + 1
  BY DEF First
<1> HIDE DEF k, h
<1>9. /\ m.pc = l.pc /\ m.sSVec = l.sSVec /\ m.ulHdrPage = h /\ m.ulReadPos = l.ulReadPos
      /\ m.unplaced = l.unplaced /\ m.known = k /\ m.heard = l.heard /\ m.parted = l.parted
  BY <1>2 DEF OGGRecords
<1>10. m \in OGGRecords
  BY <1>2, <1>6 DEF OGGRecords
<1> HIDE DEF m, s
<1>11. Placed(m)
  BY <1>2, <1>4, <1>9 DEF Placed
<1>12. ListenerBecomes(c, m)
  BY <1>1, <1>5, <1>9, <1>10, <1>11, QuietBecomes DEF ReadHeader
<1>13. ASSUME ListenerSound(l) PROVE ListenerSound(m)
  <2>1. IdleSound(l) /\ HeardSound(l) /\ l.ulReadPos # NoPos
    BY <1>4, <1>13 DEF ListenerSound
  <2>2. \A t : Ready(l, t) => Ready(m, t)
    BY <1>6, <1>9 DEF Ready
  <2>3. \A t, j : HeaderAhead(l, t, j) => HeaderAhead(m, t, j)
    BY <1>9 DEF HeaderAhead
  <2>4. HeardSound(m)
    BY <1>6, <1>9, <2>1 DEF HeardSound
  <2>5. m.ulHdrPage <= HdrPages
    BY <1>3, <1>4, <1>7, <1>8, <1>9, <2>1
  <2>6. m.sSVec # <<>> /\ m.ulHdrPage = HdrPages => m.sSVec[1] \in m.known
    BY <1>6, <1>8, <1>9
  <2>7. IdleSound(m)
    BY <1>9, <2>1, <2>2, <2>3, <2>5, <2>6 DEF IdleSound
  <2> QED
    BY <1>4, <1>9, <2>1, <2>4, <2>7 DEF ListenerSound
<1>14. StaysSound(c, m)
  BY <1>9, <1>13 DEF StaysSound
<1> QED
  BY <1>12, <1>14, ListenerKeeps

LEMMA OGGHeaderEndKeeps ==
  ASSUME OGGInv, NEW c \in OGGClients, ReadHeaderEnd(c)
  PROVE  OGGInv'
<1>1. OGGTyped
  BY DEF OGGInv
<1> DEFINE l == ogg[c]
           s == First(c)
<1>0. PICK w \in VecDel(l.sSVec, 1) : ogg' = [ogg EXCEPT ![c].sSVec = w, ![c].ulHdrPage = 0]
  BY DEF ReadHeaderEnd
<1> DEFINE m == [l EXCEPT !.sSVec = w, !.ulHdrPage = 0]
<1>2. l \in OGGRecords /\ Placed(l) /\ Vector(l.sSVec)
  BY <1>1, ListenerHas DEF Placed
<1>3. /\ Len(l.sSVec) >= 1 /\ Len(l.sSVec) \in Nat /\ Heading(c)
      /\ (IdleSound(l) => stream[s].ulPagesCount = HdrPages)
  BY <1>1, FirstIs DEF ReadHeaderEnd
<1>4. l.pc = "idle" /\ l.sSVec # <<>> /\ l.ulHdrPage = stream[s].ulPagesCount /\ s = l.sSVec[1]
  BY DEF ReadHeaderEnd, Heading, First
<1>5. ogg' = [ogg EXCEPT ![c] = m] /\ stream' = Counted(<<s>>, -1) /\ UNCHANGED Writer
  BY <1>0 DEF ReadHeaderEnd
<1>6. mixed' \in BOOLEAN /\ (~mixed' => ~mixed /\ Len(l.sSVec) = 1)
  <2>1. mixed' = (mixed \/ Len(l.sSVec) > 1) /\ mixed \in BOOLEAN
    BY <1>1 DEF ReadHeaderEnd, OGGTyped
  <2>2. CASE Len(l.sSVec) > 1
    BY <2>1, <2>2, Zenon
  <2>3. CASE Len(l.sSVec) = 1
    <3>1. ~(Len(l.sSVec) > 1)
      BY <2>3
    <3>2. mixed' = mixed
      BY <2>1, <3>1, Zenon
    <3> QED
      BY <2>1, <2>3, <3>2
  <2>4. Len(l.sSVec) > 1 \/ Len(l.sSVec) = 1
    <3> DEFINE n == Len(l.sSVec)
    <3>1. n >= 1 /\ n \in Nat
      BY <1>3
    <3> HIDE DEF n
    <3>2. n > 1 \/ n = 1
      BY <3>1
    <3> QED
      BY <3>2 DEF n
  <2> QED
    BY <2>2, <2>3, <2>4, Zenon
<1>7. Vector(w) /\ (Len(l.sSVec) = 1 => w = <<>>)
  <2>1. 1 \in 1..Len(l.sSVec)
    BY <1>3
  <2> QED
    BY <1>0, <1>1, <1>2, <2>1, VecDelIs
<1>8. /\ m.pc = l.pc /\ m.sSVec = w /\ m.ulHdrPage = 0 /\ m.ulReadPos = l.ulReadPos
      /\ m.unplaced = l.unplaced /\ m.known = l.known /\ m.heard = l.heard /\ m.parted = l.parted
  BY <1>2 DEF OGGRecords
<1>9. m \in OGGRecords
  BY <1>2, <1>7 DEF OGGRecords, Vector
<1> HIDE DEF m, s
<1>10. Placed(m)
  BY <1>2, <1>4, <1>7, <1>8 DEF Placed
<1>11. Len(l.sSVec) = 1 => \A t : Contains(l.sSVec, t) <=> t = s
  BY <1>2, <1>4, SingleVector
<1>12. ~mixed' => \A t \in StreamIds : Has(ogg[c], t) + (IF Contains(<<s>>, t) THEN -1 ELSE 0) = Has(m, t)
  <2>1. \A t : Contains(<<s>>, t) <=> t = s
    BY DEF Contains
  <2> QED
    BY <1>6, <1>7, <1>8, <1>11, <2>1, EmptyVector DEF Has
<1>13. ListenerBecomes(c, m)
  <2>1. -1 \in Int /\ (~mixed' => ~mixed) /\ mixed' \in BOOLEAN
    BY <1>6
  <2> QED
    BY <1>1, <1>5, <1>9, <1>10, <1>12, <2>1, CountedBecomes
<1>14. ASSUME ~mixed', ListenerSound(l) PROVE ListenerSound(m)
  <2>1. IdleSound(l) /\ HeardSound(l) /\ l.ulReadPos # NoPos
    BY <1>4, <1>14 DEF ListenerSound
  <2>2. m.sSVec = <<>> /\ \A t : Contains(l.sSVec, t) <=> t = s
    BY <1>6, <1>7, <1>8, <1>11, <1>14
  <2>3. s \in l.known
    BY <1>3, <1>4, <2>1 DEF IdleSound
  <2>4. \A t : Ready(l, t) => Ready(m, t)
    BY <1>8, <2>2, <2>3 DEF Ready
  <2>5. \A t, j : HeaderAhead(l, t, j) => HeaderAhead(m, t, j)
    BY <1>8 DEF HeaderAhead
  <2>6. HeardSound(m)
    BY <1>8, <2>1 DEF HeardSound
  <2>7. m.ulHdrPage <= HdrPages
    BY <1>8, OGGBounds
  <2>8. \A t : ~Contains(m.sSVec, t)
    BY <2>2, EmptyVector
  <2>9. IdleSound(m)
    BY <1>8, <2>1, <2>2, <2>4, <2>5, <2>7, <2>8 DEF IdleSound
  <2> QED
    BY <1>4, <1>8, <2>1, <2>6, <2>9 DEF ListenerSound
<1>15. StaysSound(c, m)
  BY <1>8, <1>14 DEF StaysSound
<1> QED
  BY <1>13, <1>15, ListenerKeeps

LEMMA OGGPlaceKeeps ==
  ASSUME OGGInv, NEW c \in OGGClients, ReadPlace(c)
  PROVE  OGGInv'
<1>1. OGGTyped
  BY DEF OGGInv
<1> DEFINE l == ogg[c]
           m == [l EXCEPT !.ulReadPos = ulSyncPos]
<1>2. l \in OGGRecords /\ Placed(l) /\ ulSyncPos \in Nat \cup {-1} /\ ulSyncPos <= Len(stored)
  BY <1>1, ListenerHas
<1>3. l.pc = "idle" /\ l.ulReadPos = NoPos
  BY DEF ReadPlace, Playing
<1>4. ogg' = [ogg EXCEPT ![c] = m]
  BY DEF ReadPlace
<1>5. /\ m.pc = l.pc /\ m.sSVec = l.sSVec /\ m.ulHdrPage = l.ulHdrPage /\ m.ulReadPos = ulSyncPos
      /\ m.unplaced = l.unplaced /\ m.heard = l.heard
  BY <1>2 DEF OGGRecords
<1>6. m \in OGGRecords
  BY <1>2 DEF OGGRecords, NoPos
<1> HIDE DEF m
<1>7. Placed(m)
  BY <1>2, <1>5 DEF Placed
<1>8. ListenerBecomes(c, m)
  BY <1>1, <1>4, <1>5, <1>6, <1>7, QuietBecomes DEF ReadPlace
<1>9. StaysSound(c, m)
  BY <1>3, <1>5 DEF StaysSound, ListenerSound
<1> QED
  BY <1>8, <1>9, ListenerKeeps

LEMMA OGGTooLateKeeps ==
  ASSUME OGGInv, NEW c \in OGGClients, ReadTooLate(c)
  PROVE  OGGInv'
<1>1. OGGTyped
  BY DEF OGGInv
<1> DEFINE l == ogg[c]
           m == [l EXCEPT !.pc = "dropped"]
<1>2. l \in OGGRecords /\ Placed(l)
  BY <1>1, ListenerHas
<1>3. ogg' = [ogg EXCEPT ![c] = m]
  BY DEF ReadTooLate
<1>4. /\ m.pc = "dropped" /\ m.sSVec = l.sSVec /\ m.ulHdrPage = l.ulHdrPage /\ m.ulReadPos = l.ulReadPos
      /\ m.unplaced = l.unplaced /\ m.known = l.known /\ m.heard = l.heard /\ m.parted = l.parted
  BY <1>2 DEF OGGRecords
<1>5. m \in OGGRecords
  BY <1>2 DEF OGGRecords
<1> HIDE DEF m
<1>6. Placed(m)
  BY <1>2, <1>4 DEF Placed
<1>7. ListenerBecomes(c, m)
  BY <1>1, <1>3, <1>4, <1>5, <1>6, QuietBecomes DEF ReadTooLate
<1>8. StaysSound(c, m)
  BY <1>4 DEF StaysSound, ListenerSound, HeardSound
<1> QED
  BY <1>7, <1>8, ListenerKeeps

LEMMA OGGDestroyKeeps ==
  ASSUME OGGInv, NEW c \in OGGClients, OGGClientDestroy(c)
  PROVE  OGGInv'
<1>1. OGGTyped
  BY DEF OGGInv
<1> DEFINE v == ogg[c].sSVec
<1>2. ogg' = [ogg EXCEPT ![c] = Absent] /\ stream' = Counted(v, -1) /\ UNCHANGED Writer
      /\ mixed' = mixed /\ mixed \in BOOLEAN
  BY <1>1 DEF OGGClientDestroy, OGGTyped
<1>3. \A s \in StreamIds : Has(ogg[c], s) + (IF Contains(v, s) THEN -1 ELSE 0) = Has(Absent, s)
  <2>1. Absent.sSVec = <<>>
    BY DEF Absent
  <2> QED
    BY <2>1, EmptyVector DEF Has
<1> HIDE DEF v
<1>4. ListenerBecomes(c, Absent)
  <2>1. -1 \in Int /\ (~mixed' => ~mixed) /\ mixed' \in BOOLEAN
    BY <1>2
  <2> QED
    BY <1>1, <1>2, <1>3, <2>1, AbsentIs, CountedBecomes
<1>5. StaysSound(c, Absent)
  BY AbsentSound DEF StaysSound
<1> QED
  BY <1>4, <1>5, ListenerKeeps

LEMMA OGGPageKeeps ==
  ASSUME OGGInv, NEW c \in OGGClients, ReadPage(c)
  PROVE  OGGInv'
<1>1. OGGTyped
  BY DEF OGGInv
<1> DEFINE l == ogg[c]
           n == l.ulReadPos + 1
           p == stored[n]
           s == p.stream
           k == IF p.head THEN l.known \cup {s} ELSE l.known
           h == IF p.head THEN l.heard ELSE l.heard \cup {s}
           m == [l EXCEPT !.ulReadPos = n, !.known = k, !.heard = h]
<1>2. l \in OGGRecords /\ Placed(l) /\ Len(stored) \in Nat
  BY <1>1, ListenerHas
<1>3. l.pc = "idle" /\ l.sSVec = <<>> /\ l.ulReadPos # NoPos /\ l.ulReadPos < Len(stored)
  BY DEF ReadPage, Playing
<1>4. l.ulReadPos \in Nat /\ n \in Nat /\ n \in 1..Len(stored)
  BY <1>2, <1>3 DEF OGGRecords
<1>5. p \in Pages /\ s \in StreamIds /\ s \in Nat
  <2>1. stored \in Seq(Pages) /\ \A j \in 1..Len(stored) : stored[j].stream \in StreamIds
    BY <1>1 DEF OGGTyped
  <2> HIDE DEF n
  <2>2. p \in Pages /\ s \in StreamIds
    BY <1>4, <2>1
  <2> HIDE DEF p
  <2> QED
    BY <2>2 DEF Pages
<1>6. ogg' = [ogg EXCEPT ![c] = m]
  <2>1. ogg' = [ogg EXCEPT ![c] = IF p.head THEN [l EXCEPT !.ulReadPos = n, !.known = l.known \cup {s}]
                                          ELSE [l EXCEPT !.ulReadPos = n, !.heard = l.heard \cup {s}]]
    BY DEF ReadPage
  <2>2. m = IF p.head THEN [l EXCEPT !.ulReadPos = n, !.known = l.known \cup {s}]
                      ELSE [l EXCEPT !.ulReadPos = n, !.heard = l.heard \cup {s}]
    BY <1>2 DEF OGGRecords
  <2> QED
    BY <2>1, <2>2
<1>7. /\ k \in SUBSET Nat /\ h \in SUBSET Nat /\ l.known \subseteq k
      /\ (p.head => s \in k /\ h = l.heard) /\ (~p.head => h = l.heard \cup {s})
  BY <1>2, <1>5 DEF OGGRecords
<1> HIDE DEF k, h
<1>8. /\ m.pc = l.pc /\ m.sSVec = <<>> /\ m.ulHdrPage = l.ulHdrPage /\ m.ulReadPos = n
      /\ m.unplaced = l.unplaced /\ m.known = k /\ m.heard = h /\ m.parted = l.parted
  BY <1>2, <1>3 DEF OGGRecords
<1>9. m \in OGGRecords
  BY <1>2, <1>4, <1>7 DEF OGGRecords
<1>10. n = l.ulReadPos + 1 /\ p = stored[n] /\ s = p.stream
  OBVIOUS
<1> HIDE DEF m, n, p, s
<1>11. Placed(m)
  <2>1. h \subseteq StreamIds
    BY <1>2, <1>5, <1>7 DEF Placed
  <2>2. m.ulReadPos <= Len(stored)
    BY <1>2, <1>4, <1>8
  <2> QED
    BY <1>3, <1>8, <2>1, <2>2, EmptyVector DEF Placed
<1>12. ListenerBecomes(c, m)
  BY <1>1, <1>3, <1>6, <1>8, <1>9, <1>11, QuietBecomes DEF ReadPage
<1>13. ASSUME WriterSound, ListenerSound(l) PROVE ListenerSound(m)
  <2>1. IdleSound(l) /\ HeardSound(l)
    BY <1>3, <1>13 DEF ListenerSound
  <2>2. \A t : Ready(l, t) <=> t \in l.known \cup l.parted
    BY <1>3, EmptyVector DEF Ready
  <2>3. \A t : Ready(l, t) => Ready(m, t)
    BY <1>7, <1>8, <2>2 DEF Ready
  (* headers ahead of l are still ahead, or this page and known now *)
  <2>4. ASSUME NEW t, NEW j \in Nat, HeaderAhead(l, t, j) PROVE Ready(m, t) \/ HeaderAhead(m, t, j)
    <3>1. PICK i \in 1..j : l.ulReadPos < i /\ stored[i].head /\ stored[i].stream = t
      BY <2>4 DEF HeaderAhead
    <3>2. CASE i = n
      BY <1>7, <1>8, <1>10, <3>1, <3>2 DEF Ready
    <3>3. CASE i # n
      <4>1. m.ulReadPos < i
        BY <1>4, <1>8, <1>10, <3>1, <3>3
      <4> QED
        BY <3>1, <4>1 DEF HeaderAhead
    <3> QED
      BY <3>2, <3>3
  <2>5. ~p.head => s \in l.known \cup l.parted \/ (~Filled(s) /\ ~Contains(sSVec, s))
    <3> SUFFICES ASSUME ~p.head PROVE s \in l.known \cup l.parted \/ (~Filled(s) /\ ~Contains(sSVec, s))
      OBVIOUS
    <3>1. Ready(l, s) \/ ~Filled(s) \/ HeaderAhead(l, s, n)
      BY <1>4, <1>10, <2>1 DEF IdleSound
    <3>2. ~HeaderAhead(l, s, n)
      <4> SUFFICES ASSUME NEW i \in 1..n, l.ulReadPos < i, stored[i].head PROVE FALSE
        BY DEF HeaderAhead
      <4>1. i = n
        BY <1>4, <1>10
      <4> QED
        BY <1>10, <4>1
    <3>3. Filled(s) \/ ~Contains(sSVec, s)
      BY <1>4, <1>10, <1>13 DEF WriterSound
    <3> QED
      BY <2>2, <3>1, <3>2, <3>3
  <2>6. HeardSound(m)
    <3> SUFFICES ASSUME NEW t \in h PROVE t \in k \cup l.parted \/ (~Filled(t) /\ ~Contains(sSVec, t))
      BY <1>8 DEF HeardSound
    <3>1. CASE t \in l.heard
      BY <1>7, <2>1, <3>1 DEF HeardSound
    <3>2. CASE t \notin l.heard
      BY <1>7, <2>5, <3>2
    <3> QED
      BY <3>1, <3>2
  <2>7. ASSUME NEW j \in 1..Len(stored), m.ulReadPos < j, ~stored[j].head
        PROVE  Ready(m, stored[j].stream) \/ ~Filled(stored[j].stream) \/ HeaderAhead(m, stored[j].stream, j)
    <3>1. l.ulReadPos < j /\ j \in Nat
      BY <1>2, <1>4, <1>8, <1>10, <2>7
    <3>2. Ready(l, stored[j].stream) \/ ~Filled(stored[j].stream) \/ HeaderAhead(l, stored[j].stream, j)
      BY <2>1, <2>7, <3>1 DEF IdleSound
    <3> QED
      BY <2>3, <2>4, <3>1, <3>2
  <2>8. ASSUME NEW t \in StreamIds, Contains(sSVec, t) \/ t = ending, Filled(t)
        PROVE  Ready(m, t) \/ HeaderAhead(m, t, Len(stored))
    <3>1. Ready(l, t) \/ HeaderAhead(l, t, Len(stored))
      BY <2>1, <2>8 DEF IdleSound
    <3> QED
      BY <1>2, <2>3, <2>4, <3>1
  <2>9. /\ \A t : ~Contains(m.sSVec, t)
        /\ m.ulHdrPage <= HdrPages /\ m.sSVec = <<>>
    BY <1>8, <2>1, EmptyVector DEF IdleSound
  <2>10. IdleSound(m)
    BY <2>7, <2>8, <2>9 DEF IdleSound
  <2>11. m.ulReadPos # NoPos
    BY <1>4, <1>8 DEF NoPos
  <2> QED
    BY <1>3, <1>8, <2>6, <2>10, <2>11 DEF ListenerSound
<1>14. StaysSound(c, m)
  BY <1>8, <1>13 DEF StaysSound
<1> QED
  BY <1>12, <1>14, ListenerKeeps

LEMMA OGGListenerKeeps ==
  ASSUME OGGInv, NEW c \in OGGClients, OGGListener(c)
  PROVE  OGGInv'
BY OGGNewKeeps, OGGJoinKeeps, OGGDestroyKeeps, OGGHeaderKeeps, OGGHeaderEndKeeps, OGGPlaceKeeps,
   OGGPageKeeps, OGGTooLateKeeps DEF OGGListener

----------------------------------------------------------------------------
(* OGG: what the writer does *)

LEMMA WriterTyped ==
  ASSUME OGGTyped, WriterMoves, stream' \in Seq(StreamRecords), Vector(sSVec)',
         ending' \in StreamIds' \cup {NoStream}, ogg' \in [OGGClients -> OGGRecords], mixed' \in BOOLEAN
  PROVE  OGGTyped'
<1>1. StreamIds \subseteq StreamIds' /\ StreamIds \subseteq Nat
  BY StreamsAre DEF WriterMoves, StreamsGrow
<1>2. stored \in Seq(Pages) /\ Len(stored) \in Nat /\ \A j \in 1..Len(stored) : stored[j].stream \in StreamIds
  BY DEF OGGTyped
<1>3. ASSUME NEW p \in Pages, p.stream \in StreamIds, stored' = Append(stored, p)
      PROVE  stored' \in Seq(Pages) /\ \A j \in 1..Len(stored') : stored'[j].stream \in StreamIds'
  <2>1. /\ stored' \in Seq(Pages) /\ Len(stored') = Len(stored) + 1 /\ stored'[Len(stored) + 1] = p
        /\ \A j \in 1..Len(stored) : stored'[j] = stored[j]
    BY <1>2, <1>3
  <2>2. ASSUME NEW j \in 1..Len(stored') PROVE stored'[j].stream \in StreamIds'
    <3>1. CASE j \in 1..Len(stored)
      BY <1>1, <1>2, <2>1, <3>1
    <3>2. CASE j \notin 1..Len(stored)
      <4>1. j = Len(stored) + 1
        BY <1>2, <2>1, <3>2
      <4> QED
        BY <1>1, <1>3, <2>1, <4>1
    <3> QED
      BY <3>1, <3>2
  <2> QED
    BY <2>1, <2>2
<1>4. stored' \in Seq(Pages) /\ \A j \in 1..Len(stored') : stored'[j].stream \in StreamIds'
  <2>1. CASE StoredNothing
    <3>1. stored' = stored
      BY <2>1 DEF StoredNothing
    <3> QED
      BY <1>1, <1>2, <3>1
  <2>2. ASSUME NEW s, StoredData(s) \/ StoredHeaders(s)
        PROVE  stored' \in Seq(Pages) /\ \A j \in 1..Len(stored') : stored'[j].stream \in StreamIds'
    <3> DEFINE p == [stream |-> s, head |-> FALSE]
               q == [stream |-> s, head |-> TRUE]
    <3>1. s \in StreamIds /\ (stored' = Append(stored, p) \/ stored' = Append(stored, q))
      BY <2>2 DEF StoredData, StoredHeaders, Store
    <3>2. p \in Pages /\ q \in Pages /\ p.stream = s /\ q.stream = s
      BY <1>1, <3>1 DEF Pages
    <3> HIDE DEF p, q
    <3> QED
      BY <1>3, <3>1, <3>2
  <2> QED
    BY <2>1, <2>2 DEF WriterMoves
<1>5. ulSyncPos' \in 0..Len(stored') \cup {NoPos}
  <2>1. ulSyncPos \in 0..Len(stored) \cup {-1} /\ Len(stored') \in Nat /\ Len(stored) <= Len(stored')
    BY RingGrows DEF OGGTyped, NoPos
  <2>2. CASE StoredNothing
    BY <1>2, <2>1, <2>2 DEF StoredNothing, NoPos
  <2>3. ASSUME NEW s, StoredData(s) \/ StoredHeaders(s) PROVE ulSyncPos' \in 0..Len(stored') \cup {NoPos}
    <3>1. Len(stored') = Len(stored) + 1
      BY <2>3, RingGrows
    <3>2. ulSyncPos' = ulSyncPos \/ ulSyncPos' = Len(stored) + 1
      BY <2>3 DEF StoredData, StoredHeaders
    <3> QED
      BY <1>2, <2>1, <3>1, <3>2 DEF NoPos
  <2> QED
    BY <2>2, <2>3 DEF WriterMoves
<1>6. ASSUME NEW c \in OGGClients PROVE Placed(ogg[c])'
  <2>1. /\ ogg'[c].pc = ogg[c].pc /\ ogg'[c].sSVec = ogg[c].sSVec
        /\ ogg'[c].ulHdrPage = ogg[c].ulHdrPage /\ ogg'[c].ulReadPos = ogg[c].ulReadPos
        /\ ogg'[c].heard = ogg[c].heard
    BY DEF WriterMoves, PartersKnow
  <2>2. Placed(ogg[c]) /\ ogg[c].ulReadPos \in Int
    BY ListenerHas DEF OGGRecords, NoPos
  <2>3. Len(stored') \in Nat /\ Len(stored) <= Len(stored')
    BY RingGrows
  <2>4. ogg[c].ulReadPos <= Len(stored')
    BY <1>2, <2>2, <2>3 DEF Placed
  <2>5. Vector(ogg[c].sSVec) /\ ogg[c].heard \subseteq StreamIds
    BY <2>2 DEF Placed
  <2> QED
    BY <1>1, <2>1, <2>2, <2>4, <2>5 DEF Placed, Vector
<1> QED
  BY <1>4, <1>5, <1>6 DEF OGGTyped

InThen(s) == IF ThenIn(s) THEN 1 ELSE 0
InNow(s) == IF In(s) THEN 1 ELSE 0

LEMMA WriterCounted ==
  ASSUME OGGTyped, OGGTyped', StreamsCounted, WriterMoves,
         ~mixed' => \A s \in StreamIds :
           stream'[s].ulUsed + InNow(s) = stream[s].ulUsed + InThen(s),
         \A s \in StreamIds' : s \notin StreamIds => stream'[s].ulUsed = InThen(s)
  PROVE  StreamsCounted'
<1> SUFFICES ASSUME ~mixed', NEW s \in StreamIds'
             PROVE  stream'[s].ulUsed = StreamHolders(s)'
  BY DEF StreamsCounted
<1> DEFINE k == InThen(s)
           h == InNow(s)
<1>1. \A d \in OGGClients : ogg'[d].sSVec = ogg[d].sSVec
  BY DEF WriterMoves, PartersKnow
<1>2. Listening(s)' = Listening(s) /\ Listening(s) \in Nat
  BY <1>1, ListeningSame, ListeningIs
<1>3. StreamHolders(s)' = Listening(s)' + k /\ StreamHolders(s) = Listening(s) + h
  BY StreamHoldersAre DEF InThen, ThenIn, InNow, In
<1>4. k \in Int /\ h \in Int
  BY DEF InThen, InNow
<1>5. CASE s \in StreamIds
  <2>1. stream[s].ulUsed = StreamHolders(s)
    BY <1>5 DEF StreamsCounted, WriterMoves
  <2>2. stream'[s].ulUsed + h = stream[s].ulUsed + k
    BY <1>5
  <2>3. stream[s].ulUsed \in Int /\ stream'[s].ulUsed \in Int
    <3>1. stream' \in Seq(StreamRecords) /\ StreamIds' = DOMAIN stream'
      BY DEF OGGTyped, StreamIds
    <3>2. stream'[s] \in StreamRecords
      BY <3>1
    <3> QED
      BY <1>5, <3>2, UsedIs DEF StreamRecords
  <2> HIDE DEF k, h
  <2>4. stream'[s].ulUsed + h = Listening(s) + h + k
    BY <1>3, <2>1, <2>2
  <2>5. stream'[s].ulUsed = Listening(s) + k
    BY <1>2, <1>4, <2>3, <2>4
  <2> QED
    BY <1>2, <1>3, <2>5
<1>6. CASE s \notin StreamIds
  <2>1. \A c \in OGGClients : ~Contains(ogg[c].sSVec, s)
    <3>1. \A c \in OGGClients : Vector(ogg[c].sSVec)
      BY DEF OGGTyped, Placed
    <3> QED
      BY <1>6, <3>1, VectorHas
  <2>2. Listening(s) = 0
    BY <2>1, ListeningIs
  <2>3. stream'[s].ulUsed = k
    BY <1>6
  <2> HIDE DEF k, h
  <2> QED
    BY <1>2, <1>3, <1>4, <2>2, <2>3
<1> QED
  BY <1>5, <1>6

LEMMA OGGWriterKeeps ==
  ASSUME OGGInv, WriterMoves, stream' \in Seq(StreamRecords), Vector(sSVec)',
         ending' \in StreamIds' \cup {NoStream}, ogg' \in [OGGClients -> OGGRecords], mixed' \in BOOLEAN,
         ~mixed' => \A s \in StreamIds :
           stream'[s].ulUsed + InNow(s) = stream[s].ulUsed + InThen(s),
         \A s \in StreamIds' : s \notin StreamIds => stream'[s].ulUsed = InThen(s)
  PROVE  OGGInv'
<1>1. OGGTyped /\ StreamsCounted /\ HeadersFirst
  BY DEF OGGInv
<1>2. OGGTyped'
  BY <1>1, WriterTyped
<1>3. StreamsCounted'
  BY <1>1, <1>2, WriterCounted
<1>4. HeadersFirst'
  BY <1>1, WriterStep
<1> QED
  BY <1>2, <1>3, <1>4 DEF OGGInv

LEMMA NobodyParts ==
  ASSUME OGGTyped, ogg' = ogg, \A s \in StreamIds : In(s) => ThenIn(s), ending' \in {ending, NoStream}
  PROVE  PartersKnow /\ ogg' \in [OGGClients -> OGGRecords]
BY DEF PartersKnow, OGGTyped

LEMMA SomeParts ==
  ASSUME OGGTyped, NEW v \in Seq(Nat), ogg' = PartFrom(v),
         ~mixed' => \A s \in StreamIds : In(s) => s \in ToSet(v),
         ending' \in {ending, NoStream} \cup ToSet(v)
  PROVE  PartersKnow /\ ogg' \in [OGGClients -> OGGRecords]
<1>1. ToSet(v) \in SUBSET Nat
  BY DEF ToSet
<1> DEFINE q == ToSet(v)
<1> HIDE DEF q
<1>2. ASSUME NEW c \in OGGClients
      PROVE  /\ ogg'[c] \in OGGRecords
             /\ ogg'[c].pc = ogg[c].pc /\ ogg'[c].sSVec = ogg[c].sSVec
             /\ ogg'[c].ulHdrPage = ogg[c].ulHdrPage /\ ogg'[c].ulReadPos = ogg[c].ulReadPos
             /\ ogg'[c].unplaced = ogg[c].unplaced /\ ogg'[c].known = ogg[c].known
             /\ ogg'[c].heard = ogg[c].heard /\ ogg[c].parted \subseteq ogg'[c].parted
             /\ ogg[c].pc = "join" => q \subseteq ogg'[c].parted
  <2>1. ogg[c] \in OGGRecords
    BY DEF OGGTyped
  <2>2. q \in SUBSET Nat
    BY <1>1 DEF q
  <2>3. CASE ogg[c].pc = "join"
    <3> DEFINE r == ogg[c].parted \cup q
    <3>1. ogg'[c] = [ogg[c] EXCEPT !.parted = r]
      BY <2>3 DEF PartFrom, Joining, q
    <3>2. r \in SUBSET Nat /\ ogg[c].parted \subseteq r /\ q \subseteq r
      BY <2>1, <2>2 DEF OGGRecords
    <3> HIDE DEF r
    <3> QED
      BY <2>1, <3>1, <3>2 DEF OGGRecords
  <2>4. CASE ogg[c].pc # "join"
    <3>1. ogg'[c] = ogg[c]
      BY <2>4 DEF PartFrom, Joining
    <3> QED
      BY <2>1, <2>4, <3>1
  <2> QED
    BY <2>3, <2>4
<1>3. DOMAIN ogg' = OGGClients /\ ogg' = [c \in OGGClients |-> ogg'[c]]
  BY DEF PartFrom
<1>4. ogg' \in [OGGClients -> OGGRecords]
  BY <1>2, <1>3
<1>5. PartersKnow
  <2>1. (~mixed' => \A s \in StreamIds : In(s) => s \in q) /\ ending' \in {ending, NoStream} \cup q
    BY DEF q
  <2> QED
    BY <1>2, <2>1 DEF PartersKnow
<1> QED
  BY <1>4, <1>5

(* Streams that nobody fills: only counts change.                          *)
LEMMA StreamsStay ==
  ASSUME OGGTyped, StreamIds' = StreamIds,
         \A s \in StreamIds : stream'[s].ulPagesCount = stream[s].ulPagesCount,
         ~mixed' => \A s \in StreamIds : ThenIn(s) => In(s)
  PROVE  StreamsGrow /\ \A t \in StreamIds : ThenFilled(t) => Filled(t)
BY DEF StreamsGrow, ThenFilled, Filled

LEMMA NotInVector ==
  ASSUME OGGTyped
  PROVE  ~In(NoStream) /\ NoStream \notin StreamIds
BY StreamsAre, VectorHas DEF OGGTyped, In, NoStream

LEMMA BeginStreamKeeps ==
  ASSUME OGGInv, NEW serial \in Serials, BeginStream(serial)
  PROVE  OGGInv'
<1>1. OGGTyped
  BY DEF OGGInv
<1> DEFINE s == Len(stream) + 1
           r == [lSerialNumber |-> serial, ulUsed |-> 1, ulPagesCount |-> 1]
<1>2. /\ ending = NoStream /\ Len(sSVec) < MaxStreams
      /\ stream' = Append(stream, r) /\ sSVec' = Append(sSVec, s)
      /\ stored' = stored /\ ulSyncPos' = ulSyncPos /\ ending' = ending /\ ogg' = ogg /\ mixed' = mixed
  BY DEF BeginStream
<1>3. stream \in Seq(StreamRecords) /\ Len(stream) \in Nat /\ StreamIds = 1..Len(stream)
  BY <1>1, StreamsAre DEF OGGTyped
<1>4. r \in StreamRecords /\ r.ulPagesCount # HdrPages /\ r.ulUsed = 1
  BY OGGBounds DEF StreamRecords
<1> HIDE DEF r
<1>5. /\ stream' \in Seq(StreamRecords) /\ Len(stream') = Len(stream) + 1 /\ stream'[s] = r
      /\ \A t \in StreamIds : stream'[t] = stream[t]
  BY <1>2, <1>3, <1>4
<1>6. s \in Nat /\ s \notin StreamIds /\ StreamIds' = StreamIds \cup {s}
  <2>1. StreamIds' = 1..Len(stream')
    BY <1>5 DEF StreamIds
  <2> QED
    BY <1>3, <1>5, <2>1
<1> HIDE DEF s
<1>7. Vector(sSVec) /\ sSVec \in Seq(Nat) /\ Len(sSVec) \in Nat
  BY <1>1 DEF OGGTyped, Vector
<1>8. /\ sSVec' \in Seq(Nat) /\ Len(sSVec') = Len(sSVec) + 1 /\ sSVec'[Len(sSVec) + 1] = s
      /\ \A i \in 1..Len(sSVec) : sSVec'[i] = sSVec[i]
  BY <1>2, <1>6, <1>7
<1>9. \A i \in 1..Len(sSVec') : i \in 1..Len(sSVec) \/ i = Len(sSVec) + 1
  BY <1>7, <1>8
<1>10. Vector(sSVec)'
  <2>1. Len(sSVec') <= MaxStreams
    BY <1>2, <1>7, <1>8, OGGBounds
  <2>2. \A i \in 1..Len(sSVec) : sSVec[i] \in StreamIds
    BY <1>7 DEF Vector
  <2>4. \A i \in 1..Len(sSVec') : sSVec'[i] \in StreamIds'
    BY <1>6, <1>8, <1>9, <2>2
  <2> QED
    BY <1>8, <2>1, <2>4 DEF Vector
<1>11. \A t : ThenIn(t) <=> In(t) \/ t = s
  <2>1. \A i \in 1..Len(sSVec) : i \in 1..Len(sSVec')
    BY <1>7, <1>8
  <2>2. Len(sSVec) + 1 \in 1..Len(sSVec')
    BY <1>7, <1>8
  <2>3. DOMAIN sSVec = 1..Len(sSVec) /\ DOMAIN sSVec' = 1..Len(sSVec')
    BY <1>7, <1>8
  <2> QED
    BY <1>7, <1>8, <1>9, <2>1, <2>2, <2>3 DEF ThenIn, In, Contains
<1>12. StreamsGrow /\ \A t \in StreamIds : ThenFilled(t) => Filled(t)
  <2>1. \A t \in StreamIds : (ThenFilled(t) <=> Filled(t)) /\ t # s
    BY <1>5, <1>6 DEF ThenFilled, Filled
  <2>2. ~ThenFilled(s)
    BY <1>4, <1>5 DEF ThenFilled
  <2> QED
    BY <1>6, <1>11, <2>1, <2>2 DEF StreamsGrow
<1>13. PartersKnow /\ ogg' \in [OGGClients -> OGGRecords]
  BY <1>1, <1>2, <1>11, NobodyParts
<1>14. ~ThenIn(ending')
  <2>1. NoStream # s
    BY <1>3, <1>6 DEF s, NoStream
  <2> QED
    BY <1>1, <1>2, <1>11, <2>1, NotInVector
<1>15. WriterMoves
  BY <1>2, <1>12, <1>13, <1>14 DEF WriterMoves, StoredNothing
<1>16. \A t \in StreamIds : stream'[t].ulUsed + InNow(t) = stream[t].ulUsed + InThen(t)
  <2>1. \A t \in StreamIds : stream'[t] = stream[t] /\ InNow(t) = InThen(t)
    BY <1>5, <1>6, <1>11 DEF InNow, InThen
  <2> QED
    BY <2>1
<1>17. \A t \in StreamIds' : t \notin StreamIds => stream'[t].ulUsed = InThen(t)
  BY <1>4, <1>5, <1>6, <1>11 DEF InThen
<1>18. mixed' \in BOOLEAN /\ ending' \in StreamIds' \cup {NoStream}
  BY <1>1, <1>2 DEF OGGTyped
<1> QED
  BY <1>5, <1>10, <1>13, <1>15, <1>16, <1>17, <1>18, OGGWriterKeeps

(* What the writer has when it adds a page to stream s of its vector.      *)
LEMMA EntryIs ==
  ASSUME OGGTyped, NEW i \in DOMAIN sSVec
  PROVE  /\ sSVec[i] \in StreamIds /\ In(sSVec[i]) /\ sSVec[i] \in Nat
         /\ i \in 1..Len(sSVec) /\ Vector(sSVec) /\ Len(sSVec) \in Nat
<1>1. Vector(sSVec) /\ sSVec \in Seq(Nat)
  BY DEF OGGTyped, Vector
<1>2. i \in 1..Len(sSVec) /\ Len(sSVec) \in Nat
  BY <1>1
<1> QED
  BY <1>1, <1>2 DEF Vector, In, Contains

(* The rest of what OGGWriterKeeps needs when vectors and counts stay.     *)
LEMMA NothingCounted ==
  ASSUME OGGTyped, StreamIds' = StreamIds, sSVec' = sSVec,
         \A s \in StreamIds : stream'[s].ulUsed = stream[s].ulUsed
  PROVE  /\ Vector(sSVec)' /\ (\A s : ThenIn(s) <=> In(s))
         /\ \A s \in StreamIds : stream'[s].ulUsed + InNow(s) = stream[s].ulUsed + InThen(s)
<1>1. \A s : (ThenIn(s) <=> In(s)) /\ InNow(s) = InThen(s)
  BY DEF ThenIn, In, InNow, InThen
<1>2. Vector(sSVec)'
  BY DEF OGGTyped, Vector
<1> QED
  BY <1>1, <1>2

LEMMA CommitHeaderKeeps ==
  ASSUME OGGInv, NEW i \in DOMAIN sSVec, CommitHeader(sSVec[i])
  PROVE  OGGInv'
<1>1. OGGTyped
  BY DEF OGGInv
<1> DEFINE s == sSVec[i]
           n == stream[s].ulPagesCount + 1
           r == [stream[s] EXCEPT !.ulPagesCount = n]
<1>2. s \in StreamIds /\ In(s)
  BY <1>1, EntryIs
<1>3. /\ ending = NoStream /\ ~Filled(s)
      /\ stream' = [stream EXCEPT ![s] = r]
      /\ stored' = (IF n = HdrPages THEN Store(s, TRUE) ELSE stored)
      /\ ulSyncPos' = ulSyncPos /\ sSVec' = sSVec /\ ending' = ending /\ ogg' = ogg /\ mixed' = mixed
  BY DEF CommitHeader
<1>4. stream \in Seq(StreamRecords) /\ Len(stream) \in Nat /\ StreamIds = 1..Len(stream)
  BY <1>1, StreamsAre DEF OGGTyped
<1>5. r \in StreamRecords /\ r.ulUsed = stream[s].ulUsed /\ r.ulPagesCount = n
  <2>1. stream[s] \in StreamRecords
    BY <1>2, <1>4
  <2>2. n \in 1..HdrPages
    BY <1>3, <2>1, OGGBounds DEF StreamRecords, Filled
  <2> HIDE DEF n
  <2> QED
    BY <2>1, <2>2 DEF StreamRecords
<1> HIDE DEF r, n, s
<1>6. /\ stream' \in Seq(StreamRecords) /\ StreamIds' = StreamIds /\ stream'[s] = r
      /\ \A t \in StreamIds : t # s => stream'[t] = stream[t]
  BY <1>2, <1>3, <1>4, <1>5 DEF StreamIds
<1>7. \A t \in StreamIds : stream'[t].ulUsed = stream[t].ulUsed
  BY <1>5, <1>6
<1>8. /\ Vector(sSVec)' /\ (\A t : ThenIn(t) <=> In(t))
      /\ \A t \in StreamIds : stream'[t].ulUsed + InNow(t) = stream[t].ulUsed + InThen(t)
  BY <1>1, <1>3, <1>6, <1>7, NothingCounted
<1>9. \A t \in StreamIds : t # s => (ThenFilled(t) <=> Filled(t))
  BY <1>6 DEF ThenFilled, Filled
<1>10. ThenFilled(s) <=> n = HdrPages
  BY <1>5, <1>6 DEF ThenFilled
<1>11. StoredNothing \/ StoredHeaders(s)
  <2>1. CASE n = HdrPages
    BY <1>2, <1>3, <1>9, <2>1 DEF StoredHeaders
  <2>2. CASE n # HdrPages
    BY <1>3, <1>9, <1>10, <2>2 DEF StoredNothing
  <2> QED
    BY <2>1, <2>2
<1>12. StreamsGrow
  BY <1>2, <1>3, <1>6, <1>8, <1>9 DEF StreamsGrow
<1>13. PartersKnow /\ ogg' \in [OGGClients -> OGGRecords]
  BY <1>1, <1>3, <1>8, NobodyParts
<1>14. WriterMoves
  BY <1>1, <1>3, <1>8, <1>11, <1>12, <1>13, NotInVector DEF WriterMoves
<1>15. mixed' \in BOOLEAN /\ ending' \in StreamIds' \cup {NoStream}
  BY <1>1, <1>3 DEF OGGTyped
<1> QED
  BY <1>6, <1>8, <1>13, <1>14, <1>15, OGGWriterKeeps

LEMMA CommitDataKeeps ==
  ASSUME OGGInv, NEW i \in DOMAIN sSVec, CommitData(sSVec[i])
  PROVE  OGGInv'
<1>1. OGGTyped
  BY DEF OGGInv
<1> DEFINE s == sSVec[i]
<1>2. s \in StreamIds /\ In(s)
  BY <1>1, EntryIs
<1>3. /\ ending = NoStream /\ Filled(s) /\ stored' = Store(s, FALSE) /\ ulSyncPos' = Len(stored')
      /\ stream' = stream /\ sSVec' = sSVec /\ ending' = ending /\ ogg' = ogg /\ mixed' = mixed
  BY DEF CommitData
<1> HIDE DEF s
<1>4. stream' \in Seq(StreamRecords) /\ StreamIds' = StreamIds
  BY <1>1, <1>3 DEF OGGTyped, StreamIds
<1>5. /\ Vector(sSVec)' /\ (\A t : ThenIn(t) <=> In(t))
      /\ \A t \in StreamIds : stream'[t].ulUsed + InNow(t) = stream[t].ulUsed + InThen(t)
  BY <1>1, <1>3, <1>4, NothingCounted
<1>6. StreamsGrow /\ \A t \in StreamIds : ThenFilled(t) => Filled(t)
  BY <1>1, <1>3, <1>4, <1>5, StreamsStay
<1>7. ulSyncPos' = Len(stored) + 1
  BY <1>1, <1>3 DEF Store, OGGTyped
<1>8. StoredData(s)
  BY <1>2, <1>3, <1>6, <1>7 DEF StoredData
<1>9. PartersKnow /\ ogg' \in [OGGClients -> OGGRecords]
  BY <1>1, <1>3, <1>5, NobodyParts
<1>10. WriterMoves
  BY <1>1, <1>3, <1>5, <1>6, <1>8, <1>9, NotInVector DEF WriterMoves
<1>11. mixed' \in BOOLEAN /\ ending' \in StreamIds' \cup {NoStream}
  BY <1>1, <1>3, <1>4 DEF OGGTyped
<1> QED
  BY <1>4, <1>5, <1>9, <1>10, <1>11, OGGWriterKeeps

LEMMA StoreLastKeeps ==
  ASSUME OGGInv, StoreLast
  PROVE  OGGInv'
<1>1. OGGTyped
  BY DEF OGGInv
<1>2. /\ ending # NoStream /\ stored' = Store(ending, FALSE) /\ ulSyncPos' = Len(stored')
      /\ stream' = stream /\ sSVec' = sSVec /\ ending' = NoStream /\ ogg' = ogg /\ mixed' = mixed
  BY DEF StoreLast
<1>3. stream' \in Seq(StreamRecords) /\ StreamIds' = StreamIds /\ ending \in StreamIds
  BY <1>1, <1>2 DEF OGGTyped, StreamIds
<1>4. /\ Vector(sSVec)' /\ (\A t : ThenIn(t) <=> In(t))
      /\ \A t \in StreamIds : stream'[t].ulUsed + InNow(t) = stream[t].ulUsed + InThen(t)
  BY <1>1, <1>2, <1>3, NothingCounted
<1>5. StreamsGrow /\ \A t \in StreamIds : ThenFilled(t) => Filled(t)
  BY <1>1, <1>2, <1>3, <1>4, StreamsStay
<1>6. ulSyncPos' = Len(stored) + 1
  BY <1>1, <1>2 DEF Store, OGGTyped
<1>7. StoredData(ending)
  BY <1>2, <1>3, <1>5, <1>6 DEF StoredData
<1>8. PartersKnow /\ ogg' \in [OGGClients -> OGGRecords]
  BY <1>1, <1>2, <1>4, NobodyParts
<1>9. WriterMoves
  BY <1>1, <1>2, <1>4, <1>5, <1>7, <1>8, NotInVector DEF WriterMoves
<1>10. mixed' \in BOOLEAN /\ ending' \in StreamIds' \cup {NoStream}
  BY <1>1, <1>2 DEF OGGTyped
<1> QED
  BY <1>3, <1>4, <1>8, <1>9, <1>10, OGGWriterKeeps

(* A vector w from which all of v is gone, as long as it is sound.         *)
LEMMA StreamsLeave ==
  ASSUME OGGInv, NEW v \in Seq(Nat), stream' = Counted(v, -1), Vector(sSVec'),
         ~mixed' => ~mixed /\ \A s : (In(s) <=> Contains(v, s)) /\ ~ThenIn(s),
         stored' = stored, ulSyncPos' = ulSyncPos, mixed' \in BOOLEAN,
         PartersKnow, ogg' \in [OGGClients -> OGGRecords],
         ending' \in {ending, NoStream} \/ (ending' \in StreamIds /\ In(ending'))
  PROVE  OGGInv'
<1>1. OGGTyped
  BY DEF OGGInv
<1>2. /\ stream' \in Seq(StreamRecords) /\ StreamIds' = StreamIds
      /\ \A s \in StreamIds :
           /\ stream'[s].ulPagesCount = stream[s].ulPagesCount
           /\ stream'[s].ulUsed = stream[s].ulUsed + (IF Contains(v, s) THEN -1 ELSE 0)
  <2>1. -1 \in Int
    OBVIOUS
  <2> QED
    BY <1>1, <2>1, CountedIs
<1>3. Vector(sSVec)'
  BY <1>2 DEF Vector
<1>4. StreamsGrow /\ \A t \in StreamIds : ThenFilled(t) => Filled(t)
  BY <1>1, <1>2, StreamsStay
<1>5. ~mixed' => \A s \in StreamIds : stream'[s].ulUsed + InNow(s) = stream[s].ulUsed + InThen(s)
  <2> SUFFICES ASSUME ~mixed', NEW s \in StreamIds
               PROVE  stream'[s].ulUsed + InNow(s) = stream[s].ulUsed + InThen(s)
    OBVIOUS
  <2>1. stream[s].ulUsed \in Int
    BY <1>1, UsedIs
  <2>2. CASE In(s)
    <3>1. InNow(s) = 1 /\ InThen(s) = 0 /\ stream'[s].ulUsed = stream[s].ulUsed + (-1)
      BY <1>2, <2>2 DEF InNow, InThen
    <3> QED
      BY <2>1, <3>1
  <2>3. CASE ~In(s)
    <3>1. InNow(s) = 0 /\ InThen(s) = 0 /\ stream'[s].ulUsed = stream[s].ulUsed + 0
      BY <1>2, <2>3 DEF InNow, InThen
    <3> QED
      BY <2>1, <3>1
  <2> QED
    BY <2>2, <2>3
<1>6. WriterMoves
  BY <1>4 DEF WriterMoves, StoredNothing
<1>7. ending' \in StreamIds' \cup {NoStream}
  BY <1>1, <1>2 DEF OGGTyped
<1> QED
  BY <1>2, <1>3, <1>5, <1>6, <1>7, OGGWriterKeeps

LEMMA EndStreamKeeps ==
  ASSUME OGGInv, NEW i \in DOMAIN sSVec, EndStream(i)
  PROVE  OGGInv'
<1>1. OGGTyped
  BY DEF OGGInv
<1> DEFINE s == sSVec[i]
           v == <<s>>
<1>2. /\ s \in StreamIds /\ In(s) /\ s \in Nat
      /\ i \in 1..Len(sSVec) /\ Vector(sSVec) /\ Len(sSVec) \in Nat
  BY <1>1, EntryIs
<1>3. /\ ending' = s /\ stream' = Counted(v, -1) /\ sSVec' \in VecDel(sSVec, i) /\ ogg' = PartFrom(v)
      /\ stored' = stored /\ ulSyncPos' = ulSyncPos
  BY DEF EndStream
<1>4. mixed' \in BOOLEAN /\ (~mixed' => ~mixed /\ Len(sSVec) = 1)
  <2>1. mixed' = (mixed \/ Len(sSVec) > 1) /\ mixed \in BOOLEAN
    BY <1>1 DEF EndStream, OGGTyped
  <2>2. CASE Len(sSVec) > 1
    BY <2>1, <2>2, Zenon
  <2>3. CASE Len(sSVec) = 1
    <3>1. ~(Len(sSVec) > 1)
      BY <2>3
    <3>2. mixed' = mixed
      BY <2>1, <3>1, Zenon
    <3> QED
      BY <2>1, <2>3, <3>2
  <2>4. Len(sSVec) > 1 \/ Len(sSVec) = 1
    <3> DEFINE n == Len(sSVec)
    <3>1. i \in 1..n /\ n \in Nat
      BY <1>2
    <3> HIDE DEF n
    <3>2. n > 1 \/ n = 1
      BY <3>1
    <3> QED
      BY <3>2 DEF n
  <2> QED
    BY <2>2, <2>3, <2>4, Zenon
<1>5. v \in Seq(Nat) /\ (\A t : Contains(v, t) <=> t = s) /\ s \in ToSet(v)
  BY <1>2 DEF Contains, ToSet
<1>6. Vector(sSVec') /\ (Len(sSVec) = 1 => sSVec' = <<>>)
  BY <1>1, <1>2, <1>3, VecDelIs
<1>7. ~mixed' => ~mixed /\ \A t : (In(t) <=> Contains(v, t)) /\ ~ThenIn(t)
  <2>1. Len(sSVec) = 1 => \A t : (In(t) <=> t = s)
    <3>1. Len(sSVec) = 1 => i = 1
      BY <1>2
    <3> QED
      BY <1>2, <3>1, SingleVector DEF In
  <2>2. Len(sSVec) = 1 => \A t : ~ThenIn(t)
    BY <1>6, EmptyVector DEF ThenIn
  <2> QED
    BY <1>4, <1>5, <2>1, <2>2
<1> HIDE DEF v, s
<1>8. PartersKnow /\ ogg' \in [OGGClients -> OGGRecords]
  <2>1. ~mixed' => \A t \in StreamIds : In(t) => t \in ToSet(v)
    BY <1>5, <1>7
  <2> QED
    BY <1>1, <1>3, <1>5, <2>1, SomeParts
<1> QED
  BY <1>2, <1>3, <1>4, <1>5, <1>6, <1>7, <1>8, StreamsLeave

LEMMA ResetKeeps ==
  ASSUME OGGInv, Reset
  PROVE  OGGInv'
<1>1. OGGTyped
  BY DEF OGGInv
<1>2. /\ stream' = Counted(sSVec, -1) /\ sSVec' = <<>> /\ ogg' = PartFrom(sSVec)
      /\ stored' = stored /\ ulSyncPos' = ulSyncPos /\ ending' = ending /\ mixed' = mixed
  BY DEF Reset
<1>3. sSVec \in Seq(Nat) /\ mixed \in BOOLEAN
  BY <1>1 DEF OGGTyped, Vector
<1>4. Vector(sSVec') /\ \A t : ~ThenIn(t)
  BY <1>2, EmptyVector DEF ThenIn
<1>5. \A t : In(t) <=> t \in ToSet(sSVec)
  BY <1>3 DEF In, Contains, ToSet
<1>6. PartersKnow /\ ogg' \in [OGGClients -> OGGRecords]
  BY <1>1, <1>2, <1>3, <1>5, SomeParts
<1>7. \A t : In(t) <=> Contains(sSVec, t)
  BY DEF In
<1> QED
  BY <1>2, <1>3, <1>4, <1>6, <1>7, StreamsLeave

LEMMA OGGEndKeeps ==
  ASSUME OGGInv, OGGDestroy
  PROVE  OGGInv'
<1>1. OGGTyped
  BY DEF OGGInv
<1>2. /\ stream' = Counted(sSVec, -1) /\ sSVec' = <<>> /\ ogg' = ogg
      /\ stored' = stored /\ ulSyncPos' = ulSyncPos /\ ending' = ending /\ mixed' = mixed
      /\ \A c \in OGGClients : ogg[c].pc = "away"
  BY DEF OGGDestroy
<1>3. sSVec \in Seq(Nat) /\ mixed \in BOOLEAN
  BY <1>1 DEF OGGTyped, Vector
<1>4. Vector(sSVec') /\ \A t : ~ThenIn(t)
  BY <1>2, EmptyVector DEF ThenIn
<1>5. PartersKnow /\ ogg' \in [OGGClients -> OGGRecords]
  BY <1>1, <1>2 DEF PartersKnow, OGGTyped
<1>6. \A t : In(t) <=> Contains(sSVec, t)
  BY DEF In
<1> QED
  BY <1>2, <1>3, <1>4, <1>5, <1>6, StreamsLeave

----------------------------------------------------------------------------
(* OGG, and both formats *)

LEMMA OGGStarts == Init => OGGInv
<1> SUFFICES ASSUME Init PROVE OGGInv
  OBVIOUS
<1>1. /\ stored = <<>> /\ ulSyncPos = NoPos /\ stream = <<>> /\ sSVec = <<>> /\ ending = NoStream
      /\ ogg = [c \in OGGClients |-> Absent] /\ mixed = FALSE
  BY DEF Init, OGGInit
<1>2. \A c \in OGGClients : ogg[c] = Absent
  BY <1>1
<1>3. Len(stored) = 0 /\ StreamIds = {}
  BY <1>1 DEF StreamIds
<1>4. Vector(sSVec) /\ \A s : ~Contains(sSVec, s)
  BY <1>1, EmptyVector
<1>5. Placed(Absent)
  BY <1>1, EmptyVector DEF Placed, Absent, NoPos
<1>6. OGGTyped
  <2>1. stored \in Seq(Pages) /\ stream \in Seq(StreamRecords)
    BY <1>1
  <2>2. ogg \in [OGGClients -> OGGRecords] /\ \A c \in OGGClients : Placed(ogg[c])
    BY <1>1, <1>2, <1>5, AbsentIs
  <2>3. /\ \A j \in 1..Len(stored) : stored[j].stream \in StreamIds
        /\ ulSyncPos \in 0..Len(stored) \cup {NoPos} /\ ending \in StreamIds \cup {NoStream}
    BY <1>1, <1>3
  <2> QED
    BY <1>1, <1>4, <2>1, <2>2, <2>3 DEF OGGTyped
<1>7. StreamsCounted
  BY <1>3 DEF StreamsCounted
<1>8. HeadersFirst
  BY <1>2, <1>3, <1>4, AbsentSound DEF HeadersFirst, WriterSound
<1> QED
  BY <1>6, <1>7, <1>8 DEF OGGInv

LEMMA OGGSteps == OGGInv /\ [Next]_vars => OGGInv'
<1> SUFFICES ASSUME OGGInv, [Next]_vars PROVE OGGInv'
  OBVIOUS
<1>1. ASSUME OGGWrite PROVE OGGInv'
  BY <1>1, BeginStreamKeeps, CommitHeaderKeeps, CommitDataKeeps, EndStreamKeeps, StoreLastKeeps, ResetKeeps
     DEF OGGWrite
<1>2. ASSUME NEW c \in OGGClients, OGGListener(c) PROVE OGGInv'
  BY <1>2, OGGListenerKeeps
<1>3. ASSUME UNCHANGED oggvars PROVE OGGInv'
  <2>1. OGGTyped'
    BY <1>3 DEF OGGInv, oggvars, OGGTyped, Vector, Placed, StreamIds
  <2>2. StreamsCounted'
    BY <1>3 DEF OGGInv, oggvars, StreamsCounted, StreamHolders, StreamIds
  <2>3. HeadersFirst'
    BY <1>3 DEF OGGInv, oggvars, HeadersFirst, WriterSound, ListenerSound, HeardSound, JoinSound, IdleSound,
                Ready, HeaderAhead, Filled, StreamIds
  <2> QED
    BY <2>1, <2>2, <2>3 DEF OGGInv
<1>4. ASSUME OGGDestroy PROVE OGGInv'
  BY <1>4, OGGEndKeeps
<1> QED
  BY <1>1, <1>2, <1>3, <1>4 DEF Next, vars, OGGNext, MP3Destroy

LEMMA OGGHolds == Spec => []OGGInv
<1>1. Init => OGGInv
  BY OGGStarts
<1>2. OGGInv /\ [Next]_vars => OGGInv'
  BY OGGSteps
<1> QED
  BY <1>1, <1>2, PTL DEF Spec

(* A block of metadata, or a logical stream, is freed when the last who    *)
(* points at it lets go, and not before: its count is that of its holders  *)
(* (the shared blocks of _MP3Read and the ulUsed of OGG streams).          *)
THEOREM SharedByCountHolds == Spec => []SharedByCount
<1>1. MP3Inv /\ OGGInv => SharedByCount
  BY DEF MP3Inv, OGGInv, BlocksCounted, StreamsCounted, StreamIds, SharedByCount
<1> QED
  BY <1>1, MP3Holds, OGGHolds, PTL

(* What a listener gets can be decoded: its player and _MP3Read agree on   *)
(* where it is between two pieces of metadata, and the headers of an OGG   *)
(* stream reach it before other pages do, with the exceptions that         *)
(* Decodable names.                                                        *)
THEOREM DecodableHolds == Spec => []Decodable
<1>1. MP3Inv => ("long" \notin mp3edge => \A c \in MP3Clients : mp3[c].player = Due(mp3[c]))
  BY DEF MP3Inv, InStep
<1>2. OGGInv => (~mixed => \A c \in OGGClients :
                   ~ogg[c].unplaced => ogg[c].heard \subseteq ogg[c].known \cup Headless(c))
  <2> SUFFICES ASSUME OGGInv, ~mixed, NEW c \in OGGClients, ~ogg[c].unplaced, NEW s \in ogg[c].heard
               PROVE  s \in ogg[c].known \cup Headless(c)
    OBVIOUS
  <2>1. s \in ogg[c].known \cup ogg[c].parted \/ ~Filled(s)
    BY DEF OGGInv, HeadersFirst, ListenerSound, HeardSound
  <2>2. s \in DOMAIN stream
    BY DEF OGGInv, OGGTyped, Placed, StreamIds
  <2> QED
    BY <2>1, <2>2 DEF Headless
<1>3. MP3Inv /\ OGGInv => Decodable
  BY <1>1, <1>2 DEF Decodable
<1> QED
  BY <1>3, MP3Holds, OGGHolds, PTL
=============================================================================
