----------------------------- MODULE PortsProofs -----------------------------
(***************************************************************************)
(* Proofs about the listening sockets, the SHOUTcast ports and the         *)
(* resolver, for any configurations, any number of administrators, of      *)
(* threads that accept, of connections and of clients.                     *)
(***************************************************************************)
EXTENDS Ports, FiniteSetTheorems, SequenceTheorems, WellFoundedInduction, NaturalsInduction, TLAPS

Spots   == [addr : Addresses, port : Nat]
Binds   == [addr : Addresses, port : Nat, sock : Handles \cup {NoSock}]
Asked   == [obj : Clients \cup {Server, None}, name : Names]
Opens   == UNION {[S -> Nat] : S \in SUBSET Handles}
Backlog == UNION {[S -> Seq(Guests)] : S \in SUBSET Handles}

----------------------------------------------------------------------------
(* The operators: numbers                                                  *)

(* A set of naturals that is not empty has a least element.                *)
LEMMA Least ==
  ASSUME NEW T, T \subseteq Nat, T # {}
  PROVE  \E m \in T : \A k \in T : m <= k
<1> DEFINE R == {ss \in Nat \X Nat : ss[1] < ss[2]}
<1>1. IsWellFoundedOn(R, Nat)
  BY NatLessThanWellFounded DEF OpToRel
<1>2. PICK m \in T : \A k \in T : ~(<<k, m>> \in R)
  <2> HIDE DEF R
  <2> QED
    BY <1>1, WFMin
<1>3. ASSUME NEW k \in T PROVE m <= k
  <2>1. k \in Nat /\ m \in Nat /\ ~(k < m)
    BY <1>2
  <2> QED
    BY <2>1
<1> QED
  BY <1>3

(* First picks one of the set.                                             *)
LEMMA FirstIsIn ==
  ASSUME NEW S, S \subseteq Nat, S # {}
  PROVE  First(S) \in S
BY Least DEF First

(* What holds of zero, and of each number with the one before it, holds of *)
(* all.                                                                    *)
LEMMA Climb ==
  ASSUME NEW n \in Nat, NEW S, 0 \in S, \A k \in 1..n : k - 1 \in S => k \in S
  PROVE  \A k \in 0..n : k \in S
<1> DEFINE T == {k \in 0..n : k \notin S}
<1> SUFFICES ASSUME T # {} PROVE FALSE
  OBVIOUS
<1>1. PICK m \in T : \A k \in T : m <= k
  <2>1. T \subseteq Nat
    OBVIOUS
  <2> HIDE DEF T
  <2> QED
    BY <2>1, Least
<1>2. m \in 1..n /\ m - 1 \in 0..n /\ ~(m <= m - 1)
  OBVIOUS
<1>3. m - 1 \in S
  BY <1>1, <1>2
<1> QED
  BY <1>2, <1>3

(* F gives for each of n turns a step from values to values; f is what the *)
(* turns make of a value.                                                  *)
Turns(F, W, n) == \A k \in 1..n : \A w \in W : F[k][w] \in W

Makes(f, F, W, base, n) ==
  /\ f \in [0..n -> W] /\ f[0] = base
  /\ \A k \in 1..n : f[k] = F[k][f[k - 1]]

(* The turns make something of each value.                                 *)
LEMMA Iterated ==
  ASSUME NEW W, NEW base, NEW n, NEW F, base \in W, n \in Nat, Turns(F, W, n)
  PROVE  \E f : Makes(f, F, W, base, n)
<1> DEFINE To(k, f) == f[0] = base /\ \A j \in 1..k : f[j] = F[j][f[j - 1]]
           S == {k \in 0..n : \E f \in [0..k -> W] : To(k, f)}
<1>0. ASSUME NEW k \in 0..n, NEW f \in [0..k -> W], To(k, f) PROVE k \in S
  <2> HIDE DEF To
  <2> QED
    BY <1>0
<1>1. 0 \in S
  <2> DEFINE f == [j \in 0..0 |-> base]
  <2>1. f \in [0..0 -> W] /\ f[0] = base
    OBVIOUS
  <2>2. To(0, f) /\ 0 \in 0..n
    BY <2>1
  <2> HIDE DEF f, To, S
  <2> QED
    BY <2>1, <2>2, <1>0
<1>2. ASSUME NEW k \in 1..n, k - 1 \in S PROVE k \in S
  <2>1. PICK f \in [0..k - 1 -> W] : To(k - 1, f)
    BY <1>2
  <2> DEFINE g == [j \in 0..k |-> IF j = k THEN F[k][f[k - 1]] ELSE f[j]]
  <2>2. f[k - 1] \in W /\ F[k][f[k - 1]] \in W
    BY DEF Turns
  <2>3. g \in [0..k -> W]
    BY <2>2
  <2>4. g[0] = base
    BY <2>1
  <2>5. ASSUME NEW j \in 1..k PROVE g[j] = F[j][g[j - 1]]
    <3>1. CASE j = k
      <4>1. g[j] = F[k][f[k - 1]] /\ g[k - 1] = f[k - 1]
        BY <3>1
      <4> QED
        BY <3>1, <4>1
    <3>2. CASE j # k
      <4>1. j \in 1..k - 1 /\ g[j] = f[j] /\ g[j - 1] = f[j - 1]
        BY <3>2
      <4> QED
        BY <4>1, <2>1
    <3> QED
      BY <3>1, <3>2
  <2> HIDE DEF g
  <2>6. To(k, g)
    BY <2>4, <2>5
  <2>7. k \in 0..n
    OBVIOUS
  <2> HIDE DEF To, S
  <2> QED
    BY <2>3, <2>6, <2>7, <1>0
<1>3. n \in S
  <2> HIDE DEF S
  <2>1. n \in 0..n
    OBVIOUS
  <2> QED
    BY <1>1, <1>2, <2>1, Climb
<1> QED
  BY <1>3 DEF Makes

----------------------------------------------------------------------------
(* The operators: lists gone through                                       *)

(* Sequences put together are a sequence.                                  *)
LEMMA FlatIsSeq ==
  ASSUME NEW S, NEW seqs \in Seq(Seq(S))
  PROVE  FlattenSeq(seqs) \in Seq(S)
<1>1. CASE Len(seqs) = 0
  <2>1. FlattenSeq(seqs) = seqs /\ seqs = << >>
    BY <1>1 DEF FlattenSeq
  <2> QED
    BY <2>1
<1>2. CASE Len(seqs) # 0
  <2> DEFINE n == Len(seqs) - 1
             F == [k \in 1..n |-> [s \in Seq(S) |-> s \o seqs[k + 1]]]
             Flat(f) == f = [k \in 1..Len(seqs) |-> IF k = 1 THEN seqs[k] ELSE f[k - 1] \o seqs[k]]
  <2>1. n \in Nat /\ Len(seqs) = n + 1 /\ \A k \in 1..n + 1 : seqs[k] \in Seq(S)
    BY <1>2
  <2>2. seqs[1] \in Seq(S) /\ n \in Nat /\ Turns(F, Seq(S), n)
    BY <2>1 DEF Turns
  <2>3. PICK g : Makes(g, F, Seq(S), seqs[1], n)
    <3> HIDE DEF F, n
    <3> QED
      BY <2>2, Iterated
  <2> HIDE DEF n
  <2> DEFINE h == [k \in 1..Len(seqs) |-> g[k - 1]]
  <2>4. Flat(h)
    <3>1. ASSUME NEW k \in 1..Len(seqs), k # 1
          PROVE  h[k] = h[k - 1] \o seqs[k]
      <4>1. k - 1 \in 1..n /\ (k - 1) - 1 \in 0..n /\ (k - 1) + 1 = k /\ k - 1 \in 1..Len(seqs)
        BY <2>1, <3>1
      <4>2. h[k] = g[k - 1] /\ h[k - 1] = g[(k - 1) - 1]
        BY <4>1
      <4>3. g[k - 1] = F[k - 1][g[(k - 1) - 1]] /\ g[(k - 1) - 1] \in Seq(S)
        BY <2>3, <4>1 DEF Makes
      <4>4. F[k - 1][g[(k - 1) - 1]] = g[(k - 1) - 1] \o seqs[k]
        BY <4>1, <4>3
      <4> QED
        BY <4>2, <4>3, <4>4
    <3>2. Len(seqs) \in Nat => h[1] = seqs[1]
      BY <2>1, <2>3 DEF Makes
    <3>3. Len(seqs) \in Nat
      OBVIOUS
    <3> HIDE DEF h
    <3>4. ASSUME NEW k \in 1..Len(seqs)
          PROVE  h[k] = IF k = 1 THEN seqs[k] ELSE h[k - 1] \o seqs[k]
      BY <3>1, <3>2, <3>3
    <3>5. h = [k \in 1..Len(seqs) |-> h[k]]
      BY DEF h
    <3> QED
      BY <3>4, <3>5
  <2> DEFINE c == CHOOSE f : Flat(f)
  <2>5. Flat(c)
    <3> HIDE DEF Flat, h
    <3> QED
      BY <2>4
  <2>6. FlattenSeq(seqs) = c[Len(seqs)]
    BY <1>2 DEF FlattenSeq
  <2>7. \A k \in 0..n : k \in {m \in 0..n : c[m + 1] \in Seq(S)}
    <3>1. 0 \in {m \in 0..n : c[m + 1] \in Seq(S)}
      <4>1. 1 \in 1..Len(seqs) /\ 0 \in 0..n /\ 0 + 1 = 1
        BY <2>1
      <4>2. c[1] = seqs[1]
        BY <2>5, <4>1
      <4> HIDE DEF c
      <4> QED
        BY <2>2, <4>1, <4>2
    <3>2. ASSUME NEW k \in 1..n, k - 1 \in {m \in 0..n : c[m + 1] \in Seq(S)}
          PROVE  k \in {m \in 0..n : c[m + 1] \in Seq(S)}
      <4>1. k + 1 \in 1..Len(seqs) /\ k + 1 # 1 /\ (k + 1) - 1 = k /\ (k - 1) + 1 = k /\ k \in 0..n
        BY <2>1
      <4>2. c[k + 1] = c[k] \o seqs[k + 1]
        BY <2>5, <4>1
      <4>3. c[k] \in Seq(S) /\ seqs[k + 1] \in Seq(S)
        BY <2>1, <3>2, <4>1
      <4> HIDE DEF c
      <4>4. c[k + 1] \in Seq(S)
        BY <4>2, <4>3
      <4> QED
        BY <4>1, <4>4
    <3> HIDE DEF c
    <3> DEFINE T == {m \in 0..n : c[m + 1] \in Seq(S)}
    <3>3. 0 \in T /\ \A k \in 1..n : k - 1 \in T => k \in T
      BY <3>1, <3>2
    <3> HIDE DEF T
    <3>4. \A k \in 0..n : k \in T
      BY <2>1, <3>3, Climb
    <3> QED
      BY <3>4 DEF T
  <2>8. n \in 0..n
    BY <2>1
  <2> QED
    BY <2>1, <2>6, <2>7, <2>8
<1> QED
  BY <1>1, <1>2

(* A configuration gives interfaces and ports.                             *)
LEMMA BindsOfIsSeq ==
  ASSUME PortsAssumption, NEW cfg \in Configs
  PROVE  BindsOf(cfg) \in Seq(Spots)
<1>1. cfg \in Seq(Entry)
  BY DEF PortsAssumption
<1> DEFINE Here(k) == <<[addr |-> cfg[k].addr, port |-> cfg[k].port]>>
           Next1(k) == IF cfg[k].shout THEN <<[addr |-> cfg[k].addr, port |-> cfg[k].port + 1]>>
                       ELSE << >>
           parts == [k \in DOMAIN cfg |-> Here(k) \o Next1(k)]
<1>2. ASSUME NEW k \in DOMAIN cfg PROVE Here(k) \o Next1(k) \in Seq(Spots)
  <2>1. cfg[k] \in Entry
    BY <1>1
  <2>2. /\ [addr |-> cfg[k].addr, port |-> cfg[k].port] \in Spots
        /\ [addr |-> cfg[k].addr, port |-> cfg[k].port + 1] \in Spots
    BY <2>1 DEF Entry, Spots
  <2>3. \A x \in Spots : <<x>> \in Seq(Spots)
    OBVIOUS
  <2>4. << >> \in Seq(Spots)
    OBVIOUS
  <2>5. Here(k) \in Seq(Spots) /\ Next1(k) \in Seq(Spots)
    BY <2>2, <2>3, <2>4
  <2> HIDE DEF Here, Next1
  <2> QED
    BY <2>5
<1>3. parts \in Seq(Seq(Spots))
  <2>1. DOMAIN cfg = 1..Len(cfg) /\ Len(cfg) \in Nat
    BY <1>1
  <2> DEFINE part(k) == Here(k) \o Next1(k)
  <2>2. \A k \in 1..Len(cfg) : part(k) \in Seq(Spots)
    BY <1>2, <2>1
  <2>3. parts = [k \in 1..Len(cfg) |-> part(k)]
    BY <2>1
  <2> HIDE DEF part, parts
  <2> QED
    BY <2>1, <2>2, <2>3
<1>4. BindsOf(cfg) = FlattenSeq(parts)
  BY DEF BindsOf
<1> HIDE DEF parts
<1> QED
  BY <1>3, <1>4, FlatIsSeq

(* The states of a list that is being rebuilt.                             *)
Works == [new : Seq(Binds), old : Seq(Binds), port : Opens, queue : Seq(Asked),
          notes : SUBSET Excuses]

----------------------------------------------------------------------------
(* The list while it is rebuilt                                            *)

(* Each item that has a socket has one of its own, open on its port, in    *)
(* the items made so far and in the rest; and no socket is without item.   *)
OnItsPort(s, open) ==
  \A k \in DOMAIN s : s[k].sock # NoSock => s[k].sock \in DOMAIN open /\ open[s[k].sock] = s[k].port

OnePerItem(s) ==
  \A k, j \in DOMAIN s : k # j /\ s[k].sock # NoSock => s[k].sock # s[j].sock

Apart(s, r) ==
  \A k \in DOMAIN s, j \in DOMAIN r : s[k].sock # NoSock => s[k].sock # r[j].sock

Has(s, h) == \E k \in DOMAIN s : s[k].sock = h

Held(new, open, rest) ==
  /\ OnItsPort(new, open) /\ OnItsPort(rest, open)
  /\ OnePerItem(new) /\ OnePerItem(rest) /\ Apart(new, rest)
  /\ \A h \in DOMAIN open : Has(new, h) \/ Has(rest, h)

(* The sockets that were open are, and one that was opened while a thread  *)
(* saw its number ready is noted.                                          *)
Fresh(w) ==
  /\ DOMAIN port \subseteq DOMAIN w.port /\ \A h \in DOMAIN port : w.port[h] = port[h]
  /\ \A h \in DOMAIN w.port \ DOMAIN port : \A t \in Threads :
       pc[t] = "selected" /\ h \in ready[t] => "reused" \in w.notes

Sound == {w \in Works : Fresh(w)}

(* What remains when an item without socket is left out of the rest, or    *)
(* item k gives its socket away.                                           *)
Less(rest, rest2, K) ==
  /\ DOMAIN rest2 \subseteq DOMAIN rest
  /\ \A j \in DOMAIN rest2 : j \notin K => rest2[j] = rest[j]
  /\ \A j \in DOMAIN rest : j \notin K /\ rest[j].sock # NoSock => j \in DOMAIN rest2
  /\ \A j \in DOMAIN rest2 : j \in K => rest2[j].sock = NoSock

With(open, h, p) == [x \in DOMAIN open \cup {h} |-> IF x = h THEN p ELSE open[x]]

(* A sequence with one element more.                                       *)
LEMMA OneMore ==
  ASSUME NEW S, NEW s \in Seq(S), NEW b \in S
  PROVE  /\ Append(s, b) \in Seq(S) /\ Len(Append(s, b)) = Len(s) + 1
         /\ DOMAIN s = 1..Len(s) /\ Len(s) \in Nat
         /\ DOMAIN Append(s, b) = 1..Len(s) + 1 /\ Append(s, b)[Len(s) + 1] = b
         /\ \A k \in 1..Len(s) : Append(s, b)[k] = s[k]
         /\ \A k \in 1..Len(s) + 1 : k \in 1..Len(s) \/ k = Len(s) + 1
OBVIOUS

(* Whom an item without socket joins.                                      *)
LEMMA HeldUnready ==
  ASSUME NEW new \in Seq(Binds), NEW open \in Opens, NEW rest, NEW rest2, NEW b \in Binds,
         b.sock = NoSock, NoSock \notin DOMAIN open, Less(rest, rest2, {}), Held(new, open, rest)
  PROVE  Held(Append(new, b), open, rest2)
<1> DEFINE A == Append(new, b)
<1>1. /\ DOMAIN new = 1..Len(new) /\ DOMAIN A = 1..Len(new) + 1 /\ A[Len(new) + 1] = b
      /\ Len(new) \in Nat /\ \A k \in DOMAIN A : k \in DOMAIN new \/ k = Len(new) + 1
      /\ \A k \in DOMAIN new : k \in DOMAIN A /\ A[k] = new[k]
  BY OneMore
<1> HIDE DEF A
<1>2. OnItsPort(A, open) /\ OnePerItem(A)
  BY <1>1 DEF Held, OnItsPort, OnePerItem
<1>3. OnItsPort(rest2, open) /\ OnePerItem(rest2)
  BY DEF Held, OnItsPort, OnePerItem, Less
<1>4. Apart(A, rest2)
  BY <1>1 DEF Held, Apart, Less
<1>5. ASSUME NEW h \in DOMAIN open PROVE Has(A, h) \/ Has(rest2, h)
  <2>1. h # NoSock
    OBVIOUS
  <2>2. Has(new, h) \/ Has(rest, h)
    BY DEF Held
  <2> QED
    BY <1>1, <2>1, <2>2 DEF Has, Less
<1> QED
  BY <1>2, <1>3, <1>4, <1>5 DEF Held, A

(* Whom an item with a new socket joins.                                   *)
LEMMA HeldOpened ==
  ASSUME NEW new \in Seq(Binds), NEW open \in Opens, NEW rest, NEW rest2, NEW b \in Binds,
         b.sock \notin DOMAIN open, b.sock # NoSock, NoSock \notin DOMAIN open, Less(rest, rest2, {}), Held(new, open, rest)
  PROVE  Held(Append(new, b), With(open, b.sock, b.port), rest2)
<1> DEFINE A == Append(new, b)
           W == With(open, b.sock, b.port)
<1>1. /\ DOMAIN new = 1..Len(new) /\ DOMAIN A = 1..Len(new) + 1 /\ A[Len(new) + 1] = b
      /\ Len(new) \in Nat /\ \A k \in DOMAIN A : k \in DOMAIN new \/ k = Len(new) + 1
      /\ \A k \in DOMAIN new : k \in DOMAIN A /\ A[k] = new[k]
  BY OneMore
<1>0. /\ DOMAIN W = DOMAIN open \cup {b.sock} /\ W[b.sock] = b.port
      /\ \A h \in DOMAIN open : W[h] = open[h]
  BY DEF With
<1> HIDE DEF A, W
<1>6. /\ \A k \in DOMAIN new : new[k].sock # b.sock
      /\ \A k \in DOMAIN rest : rest[k].sock # b.sock
  BY DEF Held, OnItsPort
<1>2. OnItsPort(A, W)
  BY <1>0, <1>1 DEF Held, OnItsPort
<1>3. OnePerItem(A)
  BY <1>1, <1>6 DEF Held, OnePerItem
<1>4. OnItsPort(rest2, W) /\ OnePerItem(rest2)
  BY <1>0 DEF Held, OnItsPort, OnePerItem, Less
<1>5. Apart(A, rest2)
  BY <1>1, <1>6 DEF Held, Apart, Less
<1>7. ASSUME NEW h \in DOMAIN W PROVE Has(A, h) \/ Has(rest2, h)
  <2>1. CASE h = b.sock
    BY <1>1, <2>1 DEF Has
  <2>2. CASE h # b.sock
    <3>1. Has(new, h) \/ Has(rest, h)
      BY <1>0, <2>2 DEF Held
    <3>2. h # NoSock
      BY <1>0, <2>2
    <3>3. ASSUME NEW k \in DOMAIN rest, rest[k].sock = h, h # NoSock PROVE Has(rest2, h)
      BY <3>3 DEF Has, Less
    <3> QED
      BY <1>1, <3>1, <3>2, <3>3 DEF Has
  <2> QED
    BY <2>1, <2>2
<1> QED
  BY <1>2, <1>3, <1>4, <1>5, <1>7 DEF Held, A, W

(* Whom an item joins that takes the socket of the rest's item k.          *)
LEMMA HeldMoved ==
  ASSUME NEW new \in Seq(Binds), NEW open \in Opens, NEW rest, NEW rest2, NEW k \in DOMAIN rest,
         rest[k] \in Binds, Less(rest, rest2, {k}), Held(new, open, rest), NoSock \notin DOMAIN open
  PROVE  Held(Append(new, rest[k]), open, rest2)
<1> DEFINE A == Append(new, rest[k])
<1>1. /\ DOMAIN new = 1..Len(new) /\ DOMAIN A = 1..Len(new) + 1 /\ A[Len(new) + 1] = rest[k]
      /\ Len(new) \in Nat /\ \A i \in DOMAIN A : i \in DOMAIN new \/ i = Len(new) + 1
      /\ \A i \in DOMAIN new : i \in DOMAIN A /\ A[i] = new[i]
  BY OneMore
<1> HIDE DEF A
<1>2. OnItsPort(A, open)
  BY <1>1 DEF Held, OnItsPort
<1>3. OnePerItem(A)
  BY <1>1 DEF Held, OnePerItem, Apart
<1>4. OnItsPort(rest2, open) /\ OnePerItem(rest2)
  BY DEF Held, OnItsPort, OnePerItem, Less
<1>5. Apart(A, rest2)
  BY <1>1 DEF Held, Apart, Less, OnePerItem
<1>6. ASSUME NEW h \in DOMAIN open PROVE Has(A, h) \/ Has(rest2, h)
  BY <1>1 DEF Held, Has, Less
<1> QED
  BY <1>2, <1>3, <1>4, <1>5, <1>6 DEF Held, A

(* The resolver was asked for the name of an interface.                    *)
SendFor(n) == [obj |-> Server, name |-> n]

Hindered == {"inuse", "doubled", "unknown"}

(* An item more, with a new socket or with none.                           *)
Making(w, m, b) ==
  /\ m \in Works /\ Fresh(m)
  /\ m.new = Append(w.new, b) /\ m.old = w.old /\ m.queue = w.queue /\ w.notes \subseteq m.notes
  /\ \/ b.sock = NoSock /\ "inuse" \in m.notes /\ m.port = w.port
     \/ /\ b.sock # NoSock /\ b.sock \notin DOMAIN w.port
        /\ m.port = With(w.port, b.sock, b.port)

(* What _MakeServSock does.                                                *)
LEMMA Made ==
  ASSUME PortsAssumption, NEW w \in Works, Fresh(w),
         NEW it, it.addr \in Addresses, it.port \in Nat
  PROVE  \E b \in Binds : b.addr = it.addr /\ b.port = it.port /\ Making(w, _MakeServSock(w, it), b)
<1> DEFINE m == _MakeServSock(w, it)
           used == \E h \in DOMAIN w.port : w.port[h] = it.port
           free == Handles \ DOMAIN w.port
           h == First(free)
           Fails == (used /\ ~shares) \/ free = {}
<1>1. /\ w.new \in Seq(Binds) /\ w.old \in Seq(Binds) /\ w.port \in Opens
      /\ w.queue \in Seq(Asked) /\ w.notes \subseteq Excuses
      /\ DOMAIN w = {"new", "old", "port", "queue", "notes"}
  BY DEF Works
<1>2. CASE Fails
  <2> DEFINE b == Unready(it)
             r == [new |-> Append(w.new, b), old |-> w.old, port |-> w.port, queue |-> w.queue,
                   notes |-> w.notes \cup {"inuse"}]
  <2>1. m = r
    BY <1>1, <1>2 DEF _MakeServSock, Works
  <2>2. b \in Binds /\ b.addr = it.addr /\ b.port = it.port /\ b.sock = NoSock
    BY DEF Unready, Binds
  <2>3. r \in Works
    <3>1. Append(w.new, b) \in Seq(Binds)
      BY <1>1, <2>2
    <3> HIDE DEF b
    <3> QED
      BY <1>1, <3>1 DEF Works, Excuses
  <2>4. Fresh(r)
    BY DEF Fresh
  <2> HIDE DEF b, m
  <2> QED
    BY <2>1, <2>2, <2>3, <2>4 DEF m, Making
<1>3. CASE ~Fails
  <2> DEFINE b == [Unready(it) EXCEPT !.sock = h]
             seen == {e \in {"reused"} : \E t \in Threads : pc[t] = "selected" /\ h \in ready[t]}
             r == [new |-> Append(w.new, b), old |-> w.old, port |-> With(w.port, h, it.port),
                   queue |-> w.queue, notes |-> w.notes \cup seen]
  <2>1. h \in Handles /\ h \notin DOMAIN w.port /\ h # NoSock
    <3>1. free \subseteq Nat /\ free # {} /\ NoSock \notin Handles
      BY <1>3 DEF PortsAssumption
    <3>2. h \in free
      BY <3>1, FirstIsIn
    <3> QED
      BY <3>1, <3>2
  <2>2. m = r
    BY <1>1, <1>3 DEF _MakeServSock, Works, With
  <2> HIDE DEF h
  <2>3. b \in Binds /\ b.addr = it.addr /\ b.port = it.port /\ b.sock = h
    BY <2>1 DEF Unready, Binds
  <2>4. r \in Works
    <3>1. Append(w.new, b) \in Seq(Binds)
      BY <1>1, <2>3
    <3>2. With(w.port, h, it.port) \in Opens
      <4>1. PICK S \in SUBSET Handles : w.port \in [S -> Nat]
        BY <1>1 DEF Opens
      <4>2. With(w.port, h, it.port) \in [S \cup {h} -> Nat] /\ S \cup {h} \in SUBSET Handles
        BY <4>1, <2>1 DEF With
      <4> QED
        BY <4>2 DEF Opens
    <3> HIDE DEF b
    <3> QED
      BY <1>1, <3>1, <3>2 DEF Works, Excuses
  <2>5. Fresh(r)
    <3>1. DOMAIN r.port = DOMAIN w.port \cup {h} /\ \A x \in DOMAIN w.port : r.port[x] = w.port[x]
      BY <2>1 DEF With
    <3>2. \A t \in Threads : pc[t] = "selected" /\ h \in ready[t] => "reused" \in r.notes
      OBVIOUS
    <3>3. w.notes \subseteq r.notes
      OBVIOUS
    <3> HIDE DEF r
    <3> QED
      BY <3>1, <3>2, <3>3 DEF Fresh
  <2>6. /\ r.new = Append(w.new, b) /\ r.old = w.old /\ r.queue = w.queue
        /\ w.notes \subseteq r.notes /\ r.port = With(w.port, b.sock, b.port)
    BY <2>3
  <2> HIDE DEF b, m, r
  <2> QED
    BY <2>1, <2>2, <2>3, <2>4, <2>5, <2>6 DEF m, Making
<1> QED
  BY <1>2, <1>3

(* The resolver is to find the address of a name.                          *)
Sought(n) ==
  \/ looking # None /\ looking = SendFor(n)
  \/ \E j \in DOMAIN queue : queue[j] = SendFor(n)

(* What an item without socket waits for: the list it was kept from        *)
(* already waited for its name, or something hinders this one, or the      *)
(* resolver is now asked.                                                  *)
Expected(n) == n \in Names /\ (excuses \cap Hindered # {} \/ Sought(n))

Excused(w, it) ==
  \/ w.notes \cap Hindered # {}
  \/ \E j \in DOMAIN w.queue : w.queue[j] = SendFor(it.addr)
  \/ Expected(it.addr)

(* What is left of the old list waits for its names.                       *)
Awaited(w) ==
  \A k \in DOMAIN w.old : w.old[k].sock = NoSock /\ w.old[k].addr \in Names => Expected(w.old[k].addr)

(* The first n items of a new list have been made.                         *)
Rebuilding(w, items, n) ==
  /\ w \in Works /\ Held(w.new, w.port, w.old) /\ Fresh(w) /\ Awaited(w)
  /\ Len(w.new) = n
  /\ \A k \in 1..n : w.new[k].addr = items[k].addr /\ w.new[k].port = items[k].port
  /\ \A k \in 1..n : w.new[k].sock = NoSock => Excused(w, w.new[k])
  /\ \A j \in DOMAIN w.queue : w.queue[j].obj = Server \/ \E i \in DOMAIN queue : w.queue[j] = queue[i]
  /\ \A i \in DOMAIN queue : \E j \in DOMAIN w.queue : w.queue[j] = queue[i]

(* A step of the rebuilding: an item more, held, and excused if it has no  *)
(* socket.                                                                 *)
Remains(w, m) ==
  /\ w.notes \subseteq m.notes
  /\ \A j \in DOMAIN w.queue : \E i \in DOMAIN m.queue : m.queue[i] = w.queue[j]
  /\ \A j \in DOMAIN m.queue : m.queue[j].obj = Server \/ \E i \in DOMAIN w.queue : m.queue[j] = w.queue[i]

Grown(w, m, it) ==
  /\ m \in Sound
  /\ Held(w.new, w.port, w.old) => Held(m.new, m.port, m.old)
  /\ \E b \in Binds :
       /\ m.new = Append(w.new, b) /\ b.addr = it.addr /\ b.port = it.port
       /\ Awaited(w) /\ b.sock = NoSock => Excused(m, b)
  /\ Awaited(w) => Awaited(m)
  /\ Remains(w, m)

(* An item more makes the next state of the rebuilding.                    *)
LEMMA GrownRebuilding ==
  ASSUME NEW items \in Seq(Spots), NEW n \in 1..Len(items), NEW w, NEW m,
         Rebuilding(w, items, n - 1), Grown(w, m, items[n])
  PROVE  Rebuilding(m, items, n)
<1>1. PICK b \in Binds : /\ m.new = Append(w.new, b)
                         /\ b.addr = items[n].addr /\ b.port = items[n].port
                         /\ b.sock = NoSock => Excused(m, b)
  BY DEF Grown, Rebuilding
<1>2. w.new \in Seq(Binds) /\ Len(w.new) = n - 1
  BY DEF Rebuilding, Works
<1>3. /\ Len(m.new) = n /\ m.new[n] = b /\ \A k \in 1..n - 1 : m.new[k] = w.new[k]
      /\ \A k \in 1..n : k \in 1..n - 1 \/ k = n
  <2>1. Len(m.new) = n - 1 + 1 /\ m.new[n - 1 + 1] = b /\ \A k \in 1..n - 1 : m.new[k] = w.new[k]
    BY <1>1, <1>2, OneMore
  <2> QED
    BY <2>1
<1>4. \A k \in 1..n - 1 : w.new[k].sock = NoSock => Excused(m, w.new[k])
  BY DEF Rebuilding, Grown, Remains, Excused
<1>5. \A j \in DOMAIN m.queue : m.queue[j].obj = Server \/ \E i \in DOMAIN queue : m.queue[j] = queue[i]
  BY DEF Rebuilding, Grown, Remains
<1>6. \A k \in 1..n : m.new[k].addr = items[k].addr /\ m.new[k].port = items[k].port
  BY <1>1, <1>3 DEF Rebuilding
<1>7. \A k \in 1..n : m.new[k].sock = NoSock => Excused(m, m.new[k])
  BY <1>1, <1>3, <1>4
<1>8. \A i \in DOMAIN queue : \E j \in DOMAIN m.queue : m.queue[j] = queue[i]
  <2> SUFFICES ASSUME NEW i \in DOMAIN queue PROVE \E j \in DOMAIN m.queue : m.queue[j] = queue[i]
    OBVIOUS
  <2>1. PICK j \in DOMAIN w.queue : w.queue[j] = queue[i]
    BY DEF Rebuilding
  <2> QED
    BY <2>1 DEF Grown, Remains
<1> QED
  BY <1>3, <1>5, <1>6, <1>7, <1>8 DEF Rebuilding, Grown, Sound

(* A part of the rest: all of it.                                          *)
LEMMA Whole == ASSUME NEW s PROVE Less(s, s, {})
BY DEF Less

(* A step of the rebuilding makes one item more.                           *)
LEMMA RebuiltGrows ==
  ASSUME PortsAssumption, NEW w \in Sound, NEW it \in Spots
  PROVE  Grown(w, Rebuilt(w, it), it)
<1> DEFINE m == Rebuilt(w, it)
           same == {k \in DOMAIN w.old : w.old[k].addr = it.addr /\ w.old[k].port = it.port}
           k == First(same)
<1>0. /\ w \in Works /\ Fresh(w)
      /\ w.new \in Seq(Binds) /\ w.old \in Seq(Binds) /\ w.port \in Opens
      /\ w.queue \in Seq(Asked) /\ w.notes \subseteq Excuses
      /\ it.addr \in Addresses /\ it.port \in Nat
      /\ NoSock \notin DOMAIN w.port
  <2>1. \A open \in Opens : NoSock \notin DOMAIN open
    BY DEF Opens, PortsAssumption
  <2> QED
    BY <2>1 DEF Works, Spots, Sound
<1>1. CASE same # {}
  <2>1. k \in same
    <3>1. same \subseteq Nat
      BY <1>0
    <3> HIDE DEF same
    <3> QED
      BY <1>1, <3>1, FirstIsIn
  <2> DEFINE left == [addr |-> AnyAddr, port |-> it.port, sock |-> NoSock]
             old2 == [w.old EXCEPT ![k] = left]
             r == [new |-> Append(w.new, w.old[k]), old |-> old2, port |-> w.port, queue |-> w.queue,
                   notes |-> w.notes \cup {e \in {"doubled"} : w.old[k].sock = NoSock /\ it.addr \notin Names}]
  <2>2. m = r
    BY <1>0, <1>1 DEF Rebuilt, Works
  <2> HIDE DEF k
  <2>3. k \in DOMAIN w.old /\ w.old[k] \in Binds /\ w.old[k].addr = it.addr /\ w.old[k].port = it.port
    BY <2>1, <1>0
  <2>4. left \in Binds
    BY <1>0 DEF PortsAssumption, Binds
  <2> HIDE DEF same, left
  <2>5. old2 \in Seq(Binds) /\ Append(w.new, w.old[k]) \in Seq(Binds)
    BY <1>0, <2>3, <2>4
  <2>6. Less(w.old, old2, {k})
    BY <1>0, <2>3 DEF Less, left
  <2> HIDE DEF old2
  <2>7. r \in Works
    BY <1>0, <2>5 DEF Works, Excuses
  <2>8. Held(w.new, w.port, w.old) => Held(r.new, r.port, r.old)
    BY <1>0, <2>3, <2>6, HeldMoved
  <2>9. Fresh(r)
    BY <1>0 DEF Fresh
  <2>10. Awaited(w) /\ w.old[k].sock = NoSock => Excused(r, w.old[k])
    <3>1. CASE it.addr \in Names
      BY <2>3, <3>1 DEF Excused, Awaited
    <3>2. CASE it.addr \notin Names /\ w.old[k].sock = NoSock
      BY <3>2 DEF Excused, Hindered
    <3> QED
      BY <3>1, <3>2
  <2>14. Awaited(w) => Awaited(r)
    <3>1. \A j \in DOMAIN old2 : (old2[j] = w.old[j] /\ j \in DOMAIN w.old) \/ old2[j].addr = AnyAddr
      BY <1>0, <2>3 DEF old2, left
    <3>2. AnyAddr \notin Names
      BY DEF PortsAssumption
    <3> QED
      BY <3>1, <3>2 DEF Awaited
  <2>11. Remains(w, r)
    BY DEF Remains
  <2>12. r.new = Append(w.new, w.old[k])
    OBVIOUS
  <2> HIDE DEF r, m
  <2>13. Grown(w, r, it)
    BY <2>3, <2>7, <2>8, <2>9, <2>10, <2>11, <2>12, <2>14 DEF Grown, Sound
  <2> QED
    BY <2>2, <2>13 DEF m
<1>2. CASE same = {} /\ it.addr \in Names
  <2> DEFINE b == Unready(it)
             q == <<SendFor(it.addr)>> \o w.queue
             r == [new |-> Append(w.new, b), old |-> w.old, port |-> w.port, queue |-> q,
                   notes |-> w.notes]
  <2>1. m = r
    BY <1>0, <1>2 DEF Rebuilt, Works, SendFor
  <2>2. b \in Binds /\ b.addr = it.addr /\ b.port = it.port /\ b.sock = NoSock
    BY <1>0 DEF Unready, Binds
  <2>3. /\ q \in Seq(Asked) /\ DOMAIN q = 1..Len(w.queue) + 1 /\ q[1] = SendFor(it.addr)
        /\ \A j \in 1..Len(w.queue) : q[j + 1] = w.queue[j]
        /\ DOMAIN w.queue = 1..Len(w.queue) /\ Len(w.queue) \in Nat
        /\ \A j \in DOMAIN q : j = 1 \/ (j - 1 \in DOMAIN w.queue /\ q[j] = w.queue[j - 1])
    <3>1. SendFor(it.addr) \in Asked
      BY <1>2 DEF SendFor, Asked
    <3> QED
      BY <1>0, <3>1
  <2> HIDE DEF b, q
  <2>4. r \in Works
    BY <1>0, <2>2, <2>3 DEF Works
  <2>5. Held(w.new, w.port, w.old) => Held(r.new, r.port, r.old)
    BY <1>0, <2>2, HeldUnready, Whole
  <2>6. Fresh(r)
    BY <1>0 DEF Fresh
  <2>7. Excused(r, b)
    <3>1. 1 \in DOMAIN q /\ r.queue = q
      BY <2>3
    <3> QED
      BY <2>2, <2>3, <3>1 DEF Excused
  <2>8. Remains(w, r)
    <3>1. ASSUME NEW j \in DOMAIN w.queue PROVE \E i \in DOMAIN q : q[i] = w.queue[j]
      <4>1. j + 1 \in DOMAIN q /\ q[j + 1] = w.queue[j]
        BY <2>3
      <4> QED
        BY <4>1
    <3>2. ASSUME NEW j \in DOMAIN q
          PROVE  q[j].obj = Server \/ \E i \in DOMAIN w.queue : q[j] = w.queue[i]
      <4>1. q[1].obj = Server
        BY <2>3 DEF SendFor
      <4> QED
        BY <2>3, <4>1
    <3> QED
      BY <3>1, <3>2 DEF Remains
  <2>9. r.new = Append(w.new, b)
    OBVIOUS
  <2>11. Awaited(w) => Awaited(r)
    BY DEF Awaited
  <2> HIDE DEF r, m, same
  <2>10. Grown(w, r, it)
    BY <2>2, <2>4, <2>5, <2>6, <2>7, <2>8, <2>9, <2>11 DEF Grown, Sound
  <2> QED
    BY <2>1, <2>10 DEF m
<1>3. CASE same = {} /\ it.addr \notin Names
  <2> DEFINE r == _MakeServSock(w, it)
  <2>1. m = r
    BY <1>3 DEF Rebuilt
  <2>2. PICK b \in Binds : b.addr = it.addr /\ b.port = it.port /\ Making(w, r, b)
    BY <1>0, Made
  <2> HIDE DEF r, m, same
  <2>3. ASSUME Held(w.new, w.port, w.old) PROVE Held(r.new, r.port, r.old)
    <3>1. Less(w.old, w.old, {})
      BY Whole
    <3>2. CASE b.sock = NoSock
      <4>1. r.new = Append(w.new, b) /\ r.port = w.port /\ r.old = w.old
        BY <2>2, <3>2 DEF Making
      <4> QED
        BY <1>0, <2>3, <3>1, <3>2, <4>1, HeldUnready
    <3>3. CASE b.sock # NoSock
      <4>1. /\ r.new = Append(w.new, b) /\ r.port = With(w.port, b.sock, b.port)
            /\ r.old = w.old /\ b.sock \notin DOMAIN w.port
        BY <2>2, <3>3 DEF Making
      <4> QED
        BY <1>0, <2>3, <3>1, <3>3, <4>1, HeldOpened
    <3> QED
      BY <3>2, <3>3
  <2>4. b.sock = NoSock => Excused(r, b)
    BY <2>2 DEF Excused, Hindered, Making
  <2>5. Remains(w, r)
    BY <2>2 DEF Remains, Making
  <2>7. Awaited(w) => Awaited(r)
    BY <2>2 DEF Awaited, Making
  <2>6. Grown(w, r, it)
    BY <2>2, <2>3, <2>4, <2>5, <2>7 DEF Grown, Making, Sound
  <2> QED
    BY <2>1, <2>6 DEF m
<1> HIDE DEF same
<1> QED
  BY <1>1, <1>2, <1>3

(* What the rebuilding of a list makes, item by item.                      *)
LEMMA ThroughRebuilt ==
  ASSUME NEW items \in Seq(Spots), Work \in Sound,
         \A w \in Sound, it \in Spots : Rebuilt(w, it) \in Sound
  PROVE  \E w \in [0..Len(items) -> Sound] :
           /\ w[0] = Work /\ \A k \in 1..Len(items) : w[k] = Rebuilt(w[k - 1], items[k])
           /\ Through(Rebuilt, items) = w[Len(items)]
<1> DEFINE n == Len(items)
           F == [k \in 1..n |-> [w \in Sound |-> Rebuilt(w, items[k])]]
           Fits(f) == f = [k \in 0..n |-> IF k = 0 THEN Work ELSE Rebuilt(f[k - 1], items[k])]
<1>1. n \in Nat /\ \A k \in 1..n : items[k] \in Spots
  OBVIOUS
<1>2. n \in Nat /\ Work \in Sound /\ Turns(F, Sound, n)
  BY <1>1 DEF Turns
<1>3. PICK g : Makes(g, F, Sound, Work, n)
  <2> HIDE DEF F, n
  <2> QED
    BY <1>2, Iterated
<1> HIDE DEF n
<1>4. ASSUME NEW k \in 1..n PROVE g[k] = Rebuilt(g[k - 1], items[k])
  <2>1. k - 1 \in 0..n
    BY <1>1
  <2> QED
    BY <1>3, <2>1 DEF Makes
<1>5. Fits(g)
  <2>1. g = [k \in 0..n |-> g[k]]
    BY <1>3 DEF Makes
  <2>2. \A k \in 0..n : k # 0 => k \in 1..n
    BY <1>1
  <2> QED
    BY <1>3, <1>4, <2>1, <2>2 DEF Makes
<1> DEFINE c == CHOOSE f : Fits(f)
<1>6. Fits(c)
  <2> HIDE DEF Fits
  <2> QED
    BY <1>5
<1>7. Through(Rebuilt, items) = c[n]
  BY DEF Through, n
<1> HIDE DEF c
<1>8. c[0] = Work /\ \A k \in 1..n : c[k] = Rebuilt(c[k - 1], items[k])
  <2>1. 0 \in 0..n /\ \A k \in 1..n : k \in 0..n /\ k # 0
    BY <1>1
  <2> QED
    BY <1>6, <2>1
<1> DEFINE T == {k \in 0..n : c[k] = g[k]}
<1>9. \A k \in 0..n : k \in T
  <2>1. 0 \in T
    BY <1>1, <1>3, <1>8 DEF Makes
  <2>2. ASSUME NEW k \in 1..n, k - 1 \in T PROVE k \in T
    <3>1. k \in 0..n
      BY <1>1
    <3> QED
      BY <1>4, <1>8, <2>2, <3>1
  <2> HIDE DEF T
  <2> QED
    BY <1>1, <2>1, <2>2, Climb
<1>10. c[n] = g[n]
  BY <1>1, <1>9
<1> QED
  BY <1>3, <1>4, <1>7, <1>10 DEF n, Makes

(* The same of a list in which the address of a name is filled in.         *)
LEMMA ThroughRemade ==
  ASSUME NEW items \in Seq(Binds), Work \in Sound,
         \A w \in Sound, it \in Binds : Remade(w, it) \in Sound
  PROVE  \E w \in [0..Len(items) -> Sound] :
           /\ w[0] = Work /\ \A k \in 1..Len(items) : w[k] = Remade(w[k - 1], items[k])
           /\ Through(Remade, items) = w[Len(items)]
<1> DEFINE n == Len(items)
           F == [k \in 1..n |-> [w \in Sound |-> Remade(w, items[k])]]
           Fits(f) == f = [k \in 0..n |-> IF k = 0 THEN Work ELSE Remade(f[k - 1], items[k])]
<1>1. n \in Nat /\ \A k \in 1..n : items[k] \in Binds
  OBVIOUS
<1>2. n \in Nat /\ Work \in Sound /\ Turns(F, Sound, n)
  BY <1>1 DEF Turns
<1>3. PICK g : Makes(g, F, Sound, Work, n)
  <2> HIDE DEF F, n
  <2> QED
    BY <1>2, Iterated
<1> HIDE DEF n
<1>4. ASSUME NEW k \in 1..n PROVE g[k] = Remade(g[k - 1], items[k])
  <2>1. k - 1 \in 0..n
    BY <1>1
  <2> QED
    BY <1>3, <2>1 DEF Makes
<1>5. Fits(g)
  <2>1. g = [k \in 0..n |-> g[k]]
    BY <1>3 DEF Makes
  <2>2. \A k \in 0..n : k # 0 => k \in 1..n
    BY <1>1
  <2> QED
    BY <1>3, <1>4, <2>1, <2>2 DEF Makes
<1> DEFINE c == CHOOSE f : Fits(f)
<1>6. Fits(c)
  <2> HIDE DEF Fits
  <2> QED
    BY <1>5
<1>7. Through(Remade, items) = c[n]
  BY DEF Through, n
<1> HIDE DEF c
<1>8. c[0] = Work /\ \A k \in 1..n : c[k] = Remade(c[k - 1], items[k])
  <2>1. 0 \in 0..n /\ \A k \in 1..n : k \in 0..n /\ k # 0
    BY <1>1
  <2> QED
    BY <1>6, <2>1
<1> DEFINE T == {k \in 0..n : c[k] = g[k]}
<1>9. \A k \in 0..n : k \in T
  <2>1. 0 \in T
    BY <1>1, <1>3, <1>8 DEF Makes
  <2>2. ASSUME NEW k \in 1..n, k - 1 \in T PROVE k \in T
    <3>1. k \in 0..n
      BY <1>1
    <3> QED
      BY <1>4, <1>8, <2>2, <3>1
  <2> HIDE DEF T
  <2> QED
    BY <1>1, <2>1, <2>2, Climb
<1>10. c[n] = g[n]
  BY <1>1, <1>9
<1> QED
  BY <1>3, <1>4, <1>7, <1>10 DEF n, Makes

(* The new list: one item for each of those given, all of it held, and     *)
(* each that has no socket excused.                                        *)
LEMMA RebuiltIsHeld ==
  ASSUME PortsAssumption, NEW items \in Seq(Spots), Work \in Works, Held(<< >>, port, binds),
         Awaited(Work)
  PROVE  Rebuilding(Through(Rebuilt, items), items, Len(items))
<1>1. Work \in Sound
  BY DEF Sound, Fresh, Work
<1>2. \A w \in Sound, it \in Spots : Rebuilt(w, it) \in Sound
  BY RebuiltGrows DEF Grown
<1>3. PICK w \in [0..Len(items) -> Sound] :
           /\ w[0] = Work /\ \A k \in 1..Len(items) : w[k] = Rebuilt(w[k - 1], items[k])
           /\ Through(Rebuilt, items) = w[Len(items)]
  BY <1>1, <1>2, ThroughRebuilt
<1> DEFINE T == {k \in 0..Len(items) : Rebuilding(w[k], items, k)}
<1>4. 0 \in T
  <2>1. Rebuilding(Work, items, 0)
    BY <1>1 DEF Rebuilding, Sound, Work
  <2> QED
    BY <1>3, <2>1
<1>5. ASSUME NEW k \in 1..Len(items), k - 1 \in T PROVE k \in T
  <2>1. w[k - 1] \in Sound /\ items[k] \in Spots /\ w[k] = Rebuilt(w[k - 1], items[k])
    BY <1>3, <1>5
  <2>2. Grown(w[k - 1], w[k], items[k])
    BY <2>1, RebuiltGrows
  <2>3. Rebuilding(w[k], items, k)
    BY <1>5, <2>2, GrownRebuilding
  <2> QED
    BY <2>3
<1>6. Len(items) \in T
  <2>1. Len(items) \in Nat /\ Len(items) \in 0..Len(items)
    OBVIOUS
  <2> HIDE DEF T
  <2> QED
    BY <1>4, <1>5, <2>1, Climb
<1> QED
  BY <1>3, <1>6

(* The same of the items that have the name that was looked up.            *)
Rest(n) == [k \in n + 1..Len(binds) |-> binds[k]]

Waits(it) == it.sock = NoSock /\ it.addr # looking.name

Remaking(w, n) ==
  /\ w \in Sound /\ Held(w.new, w.port, Rest(n))
  /\ Len(w.new) = n
  /\ \A k \in 1..n : w.new[k].addr = binds[k].addr /\ w.new[k].port = binds[k].port
  /\ \A k \in 1..n : w.new[k].sock = NoSock => "inuse" \in w.notes \/ Waits(binds[k])

(* What remains of the list after one item more.                           *)
LEMMA RestShrinks ==
  ASSUME binds \in Seq(Binds), NEW n \in 1..Len(binds)
  PROVE  /\ n \in DOMAIN Rest(n - 1) /\ Rest(n - 1)[n] = binds[n] /\ binds[n] \in Binds
         /\ Less(Rest(n - 1), Rest(n), {n})
         /\ binds[n].sock = NoSock => Less(Rest(n - 1), Rest(n), {})
<1>1. /\ DOMAIN Rest(n - 1) = (n - 1) + 1..Len(binds) /\ DOMAIN Rest(n) = n + 1..Len(binds)
      /\ \A k \in n + 1..Len(binds) : Rest(n)[k] = binds[k]
      /\ \A k \in (n - 1) + 1..Len(binds) : Rest(n - 1)[k] = binds[k]
  BY DEF Rest
<1>2. /\ Len(binds) \in Nat /\ (n - 1) + 1 = n /\ n \in n..Len(binds) /\ n \notin n + 1..Len(binds)
      /\ \A k \in n..Len(binds) : k = n \/ k \in n + 1..Len(binds)
      /\ \A k \in n + 1..Len(binds) : k \in n..Len(binds)
  OBVIOUS
<1>3. /\ \A k \in DOMAIN Rest(n) : k \in DOMAIN Rest(n - 1) /\ k # n /\ Rest(n)[k] = Rest(n - 1)[k]
      /\ \A k \in DOMAIN Rest(n - 1) : k = n \/ k \in DOMAIN Rest(n)
  BY <1>1, <1>2
<1>4. n \in DOMAIN Rest(n - 1) /\ Rest(n - 1)[n] = binds[n] /\ binds[n] \in Binds
  BY <1>1, <1>2
<1>5. Less(Rest(n - 1), Rest(n), {n})
  BY <1>3 DEF Less
<1>6. binds[n].sock = NoSock => Less(Rest(n - 1), Rest(n), {})
  BY <1>3, <1>4 DEF Less
<1> QED
  BY <1>4, <1>5, <1>6

(* An item more of the list, with a socket if it has the name.             *)
LEMMA RemadeGrows ==
  ASSUME PortsAssumption, binds \in Seq(Binds), NEW w \in Sound, NEW it \in Binds
  PROVE  /\ Remade(w, it) \in Sound
         /\ \A n \in 1..Len(binds) : it = binds[n] /\ Remaking(w, n - 1) => Remaking(Remade(w, it), n)
<1> DEFINE m == Remade(w, it)
<1>0. /\ w \in Works /\ Fresh(w)
      /\ w.new \in Seq(Binds) /\ w.old \in Seq(Binds) /\ w.port \in Opens
      /\ w.queue \in Seq(Asked) /\ w.notes \subseteq Excuses
      /\ it.addr \in Addresses /\ it.port \in Nat
      /\ NoSock \notin DOMAIN w.port
  <2>1. \A open \in Opens : NoSock \notin DOMAIN open
    BY DEF Opens, PortsAssumption
  <2> QED
    BY <2>1 DEF Works, Sound, Binds
<1>1. \E b \in Binds :
        /\ m \in Sound /\ m.new = Append(w.new, b) /\ b.addr = it.addr /\ b.port = it.port
        /\ w.notes \subseteq m.notes
        /\ b.sock = NoSock => "inuse" \in m.notes \/ Waits(it)
        /\ \A n \in 1..Len(binds) : it = binds[n] /\ Held(w.new, w.port, Rest(n - 1)) =>
             Held(m.new, m.port, Rest(n))
  <2>1. CASE it.addr = looking.name /\ it.sock = NoSock
    <3>1. m = _MakeServSock(w, it)
      BY <2>1 DEF Remade
    <3>2. PICK b \in Binds : b.addr = it.addr /\ b.port = it.port /\ Making(w, m, b)
      BY <1>0, <3>1, Made
    <3> HIDE DEF m
    <3>3. m \in Sound /\ m.new = Append(w.new, b) /\ w.notes \subseteq m.notes
      BY <3>2 DEF Making, Sound
    <3>4. b.sock = NoSock => "inuse" \in m.notes
      BY <3>2 DEF Making
    <3>5. ASSUME NEW n \in 1..Len(binds), it = binds[n], Held(w.new, w.port, Rest(n - 1))
          PROVE  Held(m.new, m.port, Rest(n))
      <4>1. Less(Rest(n - 1), Rest(n), {})
        BY <2>1, <3>5, RestShrinks
      <4>2. CASE b.sock = NoSock
        <5>1. m.new = Append(w.new, b) /\ m.port = w.port
          BY <3>2, <4>2 DEF Making
        <5> QED
          BY <1>0, <3>5, <4>1, <4>2, <5>1, HeldUnready
      <4>3. CASE b.sock # NoSock
        <5>1. /\ m.new = Append(w.new, b) /\ m.port = With(w.port, b.sock, b.port)
              /\ b.sock \notin DOMAIN w.port
          BY <3>2, <4>3 DEF Making
        <5> QED
          BY <1>0, <3>5, <4>1, <4>3, <5>1, HeldOpened
      <4> QED
        BY <4>2, <4>3
    <3> QED
      BY <3>2, <3>3, <3>4, <3>5
  <2>2. CASE ~(it.addr = looking.name /\ it.sock = NoSock)
    <3> DEFINE r == [new |-> Append(w.new, it), old |-> w.old, port |-> w.port, queue |-> w.queue,
                     notes |-> w.notes]
    <3>1. m = r
      BY <1>0, <2>2 DEF Remade, Works
    <3>2. r \in Sound
      <4>1. Append(w.new, it) \in Seq(Binds)
        BY <1>0
      <4>2. r \in Works
        BY <1>0, <4>1 DEF Works
      <4> QED
        BY <1>0, <4>2 DEF Sound, Fresh
    <3>3. r.new = Append(w.new, it) /\ r.port = w.port /\ r.notes = w.notes
      OBVIOUS
    <3> HIDE DEF r, m
    <3>4. it.sock = NoSock => Waits(it)
      BY <2>2 DEF Waits
    <3>5. ASSUME NEW n \in 1..Len(binds), it = binds[n], Held(w.new, w.port, Rest(n - 1))
          PROVE  Held(m.new, m.port, Rest(n))
      <4>1. /\ n \in DOMAIN Rest(n - 1) /\ Rest(n - 1)[n] = it
            /\ Less(Rest(n - 1), Rest(n), {n})
        BY <3>5, RestShrinks
      <4> QED
        BY <1>0, <3>1, <3>3, <3>5, <4>1, HeldMoved
    <3> QED
      BY <3>1, <3>2, <3>3, <3>4, <3>5
  <2> QED
    BY <2>1, <2>2
<1> HIDE DEF m
<1>2. PICK b \in Binds :
        /\ m \in Sound /\ m.new = Append(w.new, b) /\ b.addr = it.addr /\ b.port = it.port
        /\ w.notes \subseteq m.notes
        /\ b.sock = NoSock => "inuse" \in m.notes \/ Waits(it)
        /\ \A n \in 1..Len(binds) : it = binds[n] /\ Held(w.new, w.port, Rest(n - 1)) =>
             Held(m.new, m.port, Rest(n))
  BY <1>1
<1>3. ASSUME NEW n \in 1..Len(binds), it = binds[n], Remaking(w, n - 1)
      PROVE  Remaking(m, n)
  <2>1. Len(w.new) = n - 1
    BY <1>3 DEF Remaking
  <2>2. /\ Len(m.new) = n /\ m.new[n] = b /\ \A k \in 1..n - 1 : m.new[k] = w.new[k]
        /\ \A k \in 1..n : k \in 1..n - 1 \/ k = n
    <3>1. /\ Len(m.new) = n - 1 + 1 /\ m.new[n - 1 + 1] = b
          /\ \A k \in 1..n - 1 : m.new[k] = w.new[k]
      BY <1>0, <1>2, <2>1, OneMore
    <3> QED
      BY <3>1
  <2>3. \A k \in 1..n : m.new[k].addr = binds[k].addr /\ m.new[k].port = binds[k].port
    BY <1>2, <1>3, <2>2 DEF Remaking
  <2>4. \A k \in 1..n : m.new[k].sock = NoSock => "inuse" \in m.notes \/ Waits(binds[k])
    <3>1. \A k \in 1..n - 1 : w.new[k].sock = NoSock => "inuse" \in w.notes \/ Waits(binds[k])
      BY <1>3 DEF Remaking
    <3> QED
      BY <1>2, <1>3, <2>2, <3>1
  <2>5. Held(m.new, m.port, Rest(n))
    BY <1>2, <1>3 DEF Remaking
  <2> QED
    BY <1>2, <2>2, <2>3, <2>4, <2>5 DEF Remaking
<1> QED
  BY <1>2, <1>3 DEF m

(* The list when a name was found: all of it held, and each that has no    *)
(* socket waits for another name, or the port was not free.                *)
LEMMA RemadeIsHeld ==
  ASSUME PortsAssumption, Work \in Works, binds \in Seq(Binds), Held(<< >>, port, binds)
  PROVE  Remaking(Through(Remade, binds), Len(binds))
<1>1. Work \in Sound
  BY DEF Sound, Fresh, Work
<1>2. \A w \in Sound, it \in Binds : Remade(w, it) \in Sound
  BY RemadeGrows
<1>3. PICK w \in [0..Len(binds) -> Sound] :
           /\ w[0] = Work /\ \A k \in 1..Len(binds) : w[k] = Remade(w[k - 1], binds[k])
           /\ Through(Remade, binds) = w[Len(binds)]
  BY <1>1, <1>2, ThroughRemade
<1> DEFINE T == {k \in 0..Len(binds) : Remaking(w[k], k)}
<1>4. 0 \in T
  <2>1. Rest(0) = binds
    BY DEF Rest
  <2>2. Work.new = << >> /\ Work.port = port /\ Len(<< >>) = 0
    BY DEF Work
  <2>3. Remaking(Work, 0)
    BY <1>1, <2>1, <2>2 DEF Remaking
  <2> QED
    BY <1>3, <2>3
<1>5. ASSUME NEW k \in 1..Len(binds), k - 1 \in T PROVE k \in T
  <2>1. w[k - 1] \in Sound /\ binds[k] \in Binds /\ w[k] = Remade(w[k - 1], binds[k])
    BY <1>3, <1>5
  <2>2. Remaking(w[k], k)
    BY <1>5, <2>1, RemadeGrows
  <2> QED
    BY <2>2
<1>6. Len(binds) \in T
  <2>1. Len(binds) \in Nat /\ Len(binds) \in 0..Len(binds)
    OBVIOUS
  <2> HIDE DEF T
  <2> QED
    BY <1>4, <1>5, <2>1, Climb
<1> QED
  BY <1>3, <1>6

----------------------------------------------------------------------------
(* The invariant                                                           *)

(* The list and the sockets: each item that has a socket has one of its    *)
(* own, open on its port, and each open socket is in the list.             *)
ListInv ==
  /\ binds \in Seq(Binds) /\ port \in Opens
  /\ OnItsPort(binds, port) /\ OnePerItem(binds)
  /\ \A h \in DOMAIN port : Has(binds, h)

(* The types of the rest.                                                  *)
States == {"away", "waiting", "http", "slot", "auth", "source", "closed", "lost"}

TypesInv ==
  /\ shares \in BOOLEAN
  /\ guest \in [Guests -> States]
  /\ pc \in [Threads -> {"idle", "selecting", "selected", "accepting"}]
  /\ ready \in [Threads -> SUBSET Handles]
  /\ giving \in [Admins -> Configs \cup {None}] /\ inForce \in Configs \cup {None}
  /\ applies \in 0..MaxApplies
  /\ queue \in Seq(Asked) /\ looking \in Asked \cup {None}
  /\ client \in [Clients -> {"none", "asking", "answered", "gone"}]
  /\ excuses \subseteq Excuses

(* An item without socket has an excuse, or the resolver is to find its    *)
(* address.                                                                *)
WantedInv ==
  \A k \in DOMAIN binds : binds[k].sock = NoSock =>
    excuses \cap Hindered # {} \/ Sought(binds[k].addr)

(* The list is that of the configuration.                                  *)
ForceInv ==
  inForce # None =>
    /\ Len(binds) = Len(BindsOf(inForce))
    /\ \A k \in DOMAIN binds : binds[k].addr = BindsOf(inForce)[k].addr
                               /\ binds[k].port = BindsOf(inForce)[k].port

(* One thread at a time looks for connections; and where it saw one there  *)
(* is one, or there is a reason that there is none.                        *)
OneLooks == \A t, u \in Threads : pc[t] # "idle" /\ pc[u] # "idle" => t = u

SeenInv ==
  \A t \in Threads : pc[t] \in {"selected", "accepting"} =>
    \A h \in ready[t] \cap DOMAIN port : backlog[h] # << >> \/ excuses \cap {"reused", "left"} # {}

(* As long as administrators do not overlap, one at most is at it, with    *)
(* the configuration that is in force, and the mount points are those of   *)
(* that configuration when nobody is.                                      *)
GivingInv ==
  "overlap" \notin excuses =>
    /\ \A a, b \in Admins : giving[a] # None /\ giving[b] # None => a = b
    /\ \A a \in Admins : giving[a] # None => giving[a] = inForce
    /\ Quiet /\ inForce # None => DOMAIN slots = ShoutPorts(inForce)

(* A connection that waits at a mount point is at one of them.             *)
SlotsInv ==
  /\ \A p \in DOMAIN slots : slots[p] \in Guests \cup {None}
  /\ \A g \in Guests : guest[g] = "slot" => \E p \in DOMAIN slots : slots[p] = g
  /\ \A p \in DOMAIN slots : slots[p] # None => guest[slots[p]] = "slot"
  /\ \A p, q \in DOMAIN slots : slots[p] = slots[q] /\ slots[p] # None => p = q

(* A connection that waits at a socket is there once, and nowhere else.    *)
WaitInv ==
  /\ backlog \in [DOMAIN port -> Seq(Guests)]
  /\ \A g \in Guests : guest[g] = "waiting" =>
       \E h \in DOMAIN port : \E k \in DOMAIN backlog[h] : backlog[h][k] = g
  /\ \A h \in DOMAIN port : \A k \in DOMAIN backlog[h] : guest[backlog[h][k]] = "waiting"
  /\ \A h, i \in DOMAIN port : \A k \in DOMAIN backlog[h], j \in DOMAIN backlog[i] :
       backlog[h][k] = backlog[i][j] => h = i /\ k = j

LostInv == \A g \in Guests : guest[g] = "lost" => "taken" \in excuses

(* Who asks the resolver is there.                                         *)
AskInv ==
  \A k \in DOMAIN queue : queue[k].obj \in Clients => client[queue[k].obj] \in {"asking", "answered"}

PortsInv ==
  /\ TypesInv /\ ListInv /\ WantedInv /\ ForceInv /\ OneLooks /\ SeenInv
  /\ GivingInv /\ SlotsInv /\ WaitInv /\ LostInv /\ AskInv /\ CallsTheLiving

----------------------------------------------------------------------------
(* Steps that change the list                                              *)

OpenOf(w) == [h \in DOMAIN w.port \ LeftOver(w) |-> w.port[h]]

(* The list is rebuilt for a configuration.                                *)
Given(a, cfg, w) ==
  /\ w \in Sound /\ Rebuilding(w, BindsOf(cfg), Len(BindsOf(cfg)))
  /\ Unlocked /\ giving[a] = None
  /\ binds' = w.new /\ queue' = w.queue /\ Listen(OpenOf(w))
  /\ giving' = [giving EXCEPT ![a] = cfg] /\ inForce' = cfg
  /\ excuses' = excuses \cup w.notes \cup {e \in {"overlap"} : \E b \in Admins : giving[b] # None}
  /\ applies < MaxApplies /\ applies' = applies + 1
  /\ UNCHANGED <<shares, slots, threads, looking, client>>

(* With the list as it is, its rebuilding starts from a state of it.       *)
LEMMA WorkStarts ==
  ASSUME TypesInv, ListInv
  PROVE  Work \in Works /\ Held(<< >>, port, binds)
<1>1. << >> \in Seq(Binds)
  OBVIOUS
<1>2. Work \in Works
  BY <1>1 DEF TypesInv, ListInv, Work, Works
<1>3. Held(<< >>, port, binds)
  BY DEF ListInv, Held, OnItsPort, OnePerItem, Apart
<1> QED
  BY <1>2, <1>3

(* An administrator's first step rebuilds the list.                        *)
LEMMA GiveIsGiven ==
  ASSUME PortsAssumption, TypesInv, ListInv, WantedInv, NEW a \in Admins, Give(a)
  PROVE  \E cfg \in Configs : \E w : Given(a, cfg, w)
<1>1. PICK cfg \in Configs :
        LET w    == Through(Rebuilt, BindsOf(cfg))
            open == [h \in DOMAIN w.port \ LeftOver(w) |-> w.port[h]]
        IN /\ binds' = w.new /\ queue' = w.queue /\ Listen(open)
           /\ giving' = [giving EXCEPT ![a] = cfg] /\ inForce' = cfg
           /\ excuses' = excuses \cup w.notes \cup
                         {e \in {"overlap"} : \E b \in Admins : giving[b] # None}
  BY DEF Give
<1> DEFINE w == Through(Rebuilt, BindsOf(cfg))
<1>2. Rebuilding(w, BindsOf(cfg), Len(BindsOf(cfg)))
  <2>1. Awaited(Work)
    BY DEF WantedInv, Awaited, Expected, Work
  <2> QED
    BY <2>1, BindsOfIsSeq, WorkStarts, RebuiltIsHeld
<1>3. /\ binds' = w.new /\ queue' = w.queue /\ Listen(OpenOf(w))
      /\ giving' = [giving EXCEPT ![a] = cfg] /\ inForce' = cfg
      /\ excuses' = excuses \cup w.notes \cup
                    {e \in {"overlap"} : \E b \in Admins : giving[b] # None}
  BY <1>1 DEF OpenOf
<1>4. /\ Unlocked /\ giving[a] = None /\ applies < MaxApplies /\ applies' = applies + 1
      /\ UNCHANGED <<shares, slots, threads, looking, client>>
  BY DEF Give
<1> HIDE DEF w
<1>5. w \in Sound
  BY <1>2 DEF Rebuilding, Sound
<1>6. Given(a, cfg, w)
  BY <1>2, <1>3, <1>4, <1>5 DEF Given
<1> QED
  BY <1>6

(* The list gets the address of a name.                                    *)
Resolved(w) ==
  /\ w \in Sound /\ Remaking(w, Len(binds))
  /\ Unlocked /\ looking # None /\ looking.obj = Server
  /\ binds' = w.new /\ Listen(w.port) /\ excuses' = excuses \cup w.notes
  /\ looking' = None
  /\ UNCHANGED <<shares, slots, client, threads, admins, queue>>

(* The name of an interface, found, fills in its addresses.                *)
LEMMA FoundIsResolved ==
  ASSUME PortsAssumption, TypesInv, ListInv, Found, looking.obj = Server
  PROVE  \E w : Resolved(w)
<1> DEFINE w == Through(Remade, binds)
<1>1. Remaking(w, Len(binds))
  BY WorkStarts, RemadeIsHeld DEF ListInv
<1>2. CBResolv /\ looking # None /\ looking' = None /\ UNCHANGED <<threads, admins, queue>>
  BY DEF Found
<1>3. /\ Unlocked /\ binds' = w.new /\ Listen(w.port) /\ excuses' = excuses \cup w.notes
      /\ UNCHANGED <<shares, slots, client>>
  BY <1>2 DEF CBResolv
<1> HIDE DEF w
<1>4. Resolved(w)
  BY <1>1, <1>2, <1>3 DEF Resolved, Remaking
<1> QED
  BY <1>4

(* What is left open after the old list is closed is in the new one.       *)
LEMMA GivenList ==
  ASSUME PortsAssumption, NEW a, NEW cfg \in Configs, NEW w, Given(a, cfg, w)
  PROVE  ListInv' /\ ForceInv'
<1>1. /\ w \in Works /\ Held(w.new, w.port, w.old)
      /\ w.new \in Seq(Binds) /\ w.old \in Seq(Binds) /\ w.port \in Opens
  BY DEF Given, Rebuilding, Works
<1>2. binds' = w.new /\ port' = OpenOf(w)
  BY DEF Given, Listen
<1>3. OpenOf(w) \in Opens
  <2>1. PICK S \in SUBSET Handles : w.port \in [S -> Nat]
    BY <1>1 DEF Opens
  <2>2. OpenOf(w) \in [S \ LeftOver(w) -> Nat] /\ S \ LeftOver(w) \in SUBSET Handles
    BY <2>1 DEF OpenOf
  <2> QED
    BY <2>2 DEF Opens
<1>4. OnItsPort(w.new, OpenOf(w))
  <2> SUFFICES ASSUME NEW k \in DOMAIN w.new, w.new[k].sock # NoSock
               PROVE  w.new[k].sock \in DOMAIN OpenOf(w) /\ OpenOf(w)[w.new[k].sock] = w.new[k].port
    BY DEF OnItsPort
  <2>1. w.new[k].sock \notin LeftOver(w)
    BY <1>1 DEF Held, Apart, LeftOver
  <2> QED
    BY <1>1, <2>1 DEF Held, OnItsPort, OpenOf
<1>5. OnePerItem(w.new)
  BY <1>1 DEF Held
<1>6. ASSUME NEW h \in DOMAIN OpenOf(w) PROVE Has(w.new, h)
  <2>1. h \in DOMAIN w.port /\ h \notin LeftOver(w) /\ h # NoSock
    BY <1>1 DEF OpenOf, Opens, PortsAssumption
  <2>2. ~Has(w.old, h)
    BY <2>1 DEF Has, LeftOver
  <2> QED
    BY <1>1, <2>1, <2>2 DEF Held
<1>7. ListInv'
  BY <1>1, <1>2, <1>3, <1>4, <1>5, <1>6 DEF ListInv, OnItsPort, OnePerItem, Has
<1>8. ForceInv'
  <2>1. inForce' = cfg /\ Len(w.new) = Len(BindsOf(cfg)) /\ DOMAIN w.new = 1..Len(w.new)
    BY <1>1 DEF Given, Rebuilding
  <2>2. \A k \in DOMAIN w.new : w.new[k].addr = BindsOf(cfg)[k].addr /\ w.new[k].port = BindsOf(cfg)[k].port
    BY <2>1 DEF Given, Rebuilding
  <2>3. BindsOf(inForce)' = BindsOf(cfg)
    BY <2>1 DEF BindsOf
  <2> QED
    BY <1>2, <2>1, <2>2, <2>3 DEF ForceInv
<1> QED
  BY <1>7, <1>8

(* The sockets opened for a name are in the list.                          *)
LEMMA ResolvedList ==
  ASSUME PortsAssumption, ListInv, ForceInv, NEW w, Resolved(w)
  PROVE  ListInv' /\ ForceInv'
<1>1. /\ w \in Works /\ Held(w.new, w.port, Rest(Len(binds))) /\ w.new \in Seq(Binds) /\ w.port \in Opens
      /\ Len(binds) \in Nat
  BY DEF Resolved, Remaking, Works, Sound, ListInv
<1>2. binds' = w.new /\ port' = w.port /\ inForce' = inForce
  BY DEF Resolved, Listen, admins
<1>3. DOMAIN Rest(Len(binds)) = {}
  BY <1>1 DEF Rest
<1>4. ListInv'
  <2>1. \A h \in DOMAIN w.port : Has(w.new, h)
    BY <1>1, <1>3 DEF Held, Has
  <2>2. OnItsPort(w.new, w.port) /\ OnePerItem(w.new)
    BY <1>1 DEF Held
  <2> QED
    BY <1>1, <1>2, <2>1, <2>2 DEF ListInv, OnItsPort, OnePerItem, Has
<1>5. ForceInv'
  <2>1. /\ Len(w.new) = Len(binds) /\ DOMAIN w.new = 1..Len(w.new) /\ DOMAIN binds = 1..Len(binds)
        /\ \A k \in 1..Len(binds) : w.new[k].addr = binds[k].addr /\ w.new[k].port = binds[k].port
    BY <1>1 DEF Resolved, Remaking, ListInv
  <2>2. BindsOf(inForce)' = BindsOf(inForce)
    BY <1>2 DEF BindsOf
  <2> QED
    BY <1>2, <2>1, <2>2 DEF ForceInv
<1> QED
  BY <1>4, <1>5

(* Sockets that are closed and opened leave who waits elsewhere where it   *)
(* is.                                                                     *)
LEMMA Listened ==
  ASSUME TypesInv, WaitInv, NEW open \in Opens, Listen(open)
  PROVE  /\ WaitInv' /\ guest' \in [Guests -> States]
         /\ \A g \in Guests : \/ guest'[g] = guest[g]
                              \/ guest[g] = "waiting" /\ guest'[g] = "closed"
         /\ port' = open
         /\ \A h \in DOMAIN open \cap DOMAIN port : backlog'[h] = backlog[h]
<1> DEFINE Shut(g) == \E h \in DOMAIN port \ DOMAIN open : g \in Range(backlog[h])
<1>1. /\ port' = open
      /\ backlog' = [h \in DOMAIN open |-> IF h \in DOMAIN port THEN backlog[h] ELSE << >>]
      /\ guest' = [g \in Guests |-> IF Shut(g) THEN "closed" ELSE guest[g]]
  BY DEF Listen
<1>2. \A g \in Guests : Shut(g) <=>
        \E h \in DOMAIN port \ DOMAIN open : \E k \in DOMAIN backlog[h] : backlog[h][k] = g
  BY DEF Range
<1> HIDE DEF Shut
<1>3. backlog' \in [DOMAIN open -> Seq(Guests)]
  <2>1. \A h \in DOMAIN open : (IF h \in DOMAIN port THEN backlog[h] ELSE << >>) \in Seq(Guests)
    BY DEF WaitInv
  <2> QED
    BY <1>1, <2>1
<1>4. \A g \in Guests : Shut(g) => guest[g] = "waiting"
  BY <1>2 DEF WaitInv
<1>5. /\ \A g \in Guests : Shut(g) => guest'[g] = "closed"
      /\ \A g \in Guests : ~Shut(g) => guest'[g] = guest[g]
      /\ \A h \in DOMAIN open : backlog'[h] = IF h \in DOMAIN port THEN backlog[h] ELSE << >>
  BY <1>1
<1>6. guest' \in [Guests -> States]
  BY <1>1 DEF TypesInv, States
<1>7. \A h \in DOMAIN open : \A k \in DOMAIN backlog'[h] : h \in DOMAIN port
  BY <1>5
<1>8. ASSUME NEW g \in Guests, guest'[g] = "waiting"
      PROVE  \E h \in DOMAIN open : \E k \in DOMAIN backlog'[h] : backlog'[h][k] = g
  <2>1. ~Shut(g) /\ guest[g] = "waiting"
    BY <1>5, <1>8
  <2>2. PICK h \in DOMAIN port : \E k \in DOMAIN backlog[h] : backlog[h][k] = g
    BY <2>1 DEF WaitInv
  <2>3. h \in DOMAIN open
    BY <1>2, <2>1, <2>2
  <2> QED
    BY <1>5, <2>2, <2>3
<1>9. ASSUME NEW h \in DOMAIN open, NEW k \in DOMAIN backlog'[h]
      PROVE  guest'[backlog'[h][k]] = "waiting"
  <2>1. h \in DOMAIN port /\ backlog'[h] = backlog[h]
    BY <1>5, <1>7
  <2>2. backlog[h][k] \in Guests /\ guest[backlog[h][k]] = "waiting"
    BY <2>1 DEF WaitInv
  <2>3. ~Shut(backlog[h][k])
    BY <1>2, <2>1, <2>2 DEF WaitInv
  <2> QED
    BY <1>5, <2>1, <2>2, <2>3
<1>10. \A h, i \in DOMAIN open : \A k \in DOMAIN backlog'[h], j \in DOMAIN backlog'[i] :
         backlog'[h][k] = backlog'[i][j] => h = i /\ k = j
  BY <1>5, <1>7 DEF WaitInv
<1>11. WaitInv'
  <2>1. backlog' \in [DOMAIN port' -> Seq(Guests)]
    BY <1>1, <1>3
  <2>2. \A g \in Guests : guest'[g] = "waiting" =>
          \E h \in DOMAIN port' : \E k \in DOMAIN backlog'[h] : backlog'[h][k] = g
    BY <1>1, <1>8
  <2>3. \A h \in DOMAIN port' : \A k \in DOMAIN backlog'[h] : guest'[backlog'[h][k]] = "waiting"
    BY <1>1, <1>9
  <2>4. \A h, i \in DOMAIN port' : \A k \in DOMAIN backlog'[h], j \in DOMAIN backlog'[i] :
          backlog'[h][k] = backlog'[i][j] => h = i /\ k = j
    BY <1>1, <1>10
  <2> QED
    BY <2>1, <2>2, <2>3, <2>4 DEF WaitInv
<1> QED
  BY <1>1, <1>4, <1>5, <1>6, <1>11

(* A change of connections that leaves those at the mount points, and      *)
(* loses none.                                                             *)
LEMMA SlotsStay ==
  ASSUME SlotsInv, slots' = slots, \A g \in Guests : guest[g] = "slot" <=> guest'[g] = "slot"
  PROVE  SlotsInv'
BY DEF SlotsInv

(* A change of connections that loses none without a note.                 *)
LEMMA LostStay ==
  ASSUME LostInv, excuses \subseteq excuses',
         \A g \in Guests : guest'[g] = "lost" => guest[g] = "lost" \/ "taken" \in excuses'
  PROVE  LostInv'
BY DEF LostInv

(* An administrator's first step keeps the invariant.                      *)
LEMMA GivenStep ==
  ASSUME PortsAssumption, PortsInv, NEW a \in Admins, NEW cfg \in Configs, NEW w, Given(a, cfg, w)
  PROVE  PortsInv'
<1> USE DEF PortsInv
<1>1. ListInv' /\ ForceInv'
  BY GivenList
<1>2. /\ OpenOf(w) \in Opens /\ port' = OpenOf(w)
      /\ binds' = w.new /\ queue' = w.queue
      /\ giving' = [giving EXCEPT ![a] = cfg] /\ inForce' = cfg
      /\ excuses' = excuses \cup w.notes \cup {e \in {"overlap"} : \E b \in Admins : giving[b] # None}
      /\ shares' = shares /\ slots' = slots /\ pc' = pc /\ ready' = ready
      /\ looking' = looking /\ client' = client
      /\ applies < MaxApplies /\ applies' = applies + 1 /\ giving[a] = None
  BY <1>1 DEF Given, Listen, ListInv, threads
<1>3. /\ WaitInv' /\ guest' \in [Guests -> States]
      /\ \A g \in Guests : \/ guest'[g] = guest[g]
                           \/ guest[g] = "waiting" /\ guest'[g] = "closed"
      /\ \A h \in DOMAIN OpenOf(w) \cap DOMAIN port : backlog'[h] = backlog[h]
  BY <1>2, Listened DEF Given
<1>4. w \in Works /\ Fresh(w) /\ w.notes \subseteq Excuses /\ w.queue \in Seq(Asked)
  BY DEF Given, Sound, Works
<1>5. TypesInv'
  <2>1. applies' \in 0..MaxApplies
    BY <1>2 DEF TypesInv, PortsAssumption
  <2>2. giving' \in [Admins -> Configs \cup {None}]
    BY <1>2 DEF TypesInv
  <2>3. excuses' \subseteq Excuses
    BY <1>2, <1>4 DEF TypesInv, Excuses
  <2> QED
    BY <1>2, <1>3, <1>4, <2>1, <2>2, <2>3 DEF TypesInv
<1>6. WantedInv'
  <2> SUFFICES ASSUME NEW k \in DOMAIN w.new, w.new[k].sock = NoSock,
                      excuses' \cap Hindered = {}
               PROVE  Sought(w.new[k].addr)'
    BY <1>2 DEF WantedInv
  <2>1. Excused(w, w.new[k])
    <3>1. DOMAIN w.new = 1..Len(w.new)
      BY <1>4 DEF Works
    <3> QED
      BY <3>1 DEF Given, Rebuilding
  <2>2. w.notes \cap Hindered = {} /\ excuses \cap Hindered = {}
    BY <1>2
  <2>3. ASSUME Sought(w.new[k].addr) PROVE Sought(w.new[k].addr)'
    <3>1. \A i \in DOMAIN queue : \E j \in DOMAIN w.queue : w.queue[j] = queue[i]
      BY DEF Given, Rebuilding
    <3> QED
      BY <1>2, <2>3, <3>1 DEF Sought
  <2>4. ASSUME \E j \in DOMAIN w.queue : w.queue[j] = SendFor(w.new[k].addr)
        PROVE  Sought(w.new[k].addr)'
    BY <1>2, <2>4 DEF Sought
  <2> QED
    BY <2>1, <2>2, <2>3, <2>4 DEF Excused, Expected
<1>7. OneLooks'
  BY <1>2 DEF OneLooks
<1>8. SeenInv'
  <2> SUFFICES ASSUME NEW t \in Threads, pc[t] \in {"selected", "accepting"},
                      NEW h \in ready[t], h \in DOMAIN OpenOf(w),
                      excuses' \cap {"reused", "left"} = {}
               PROVE  backlog'[h] # << >>
    BY <1>2 DEF SeenInv
  <2>1. pc[t] = "selected"
    BY DEF Given, Unlocked
  <2>2. h \in DOMAIN w.port
    BY DEF OpenOf
  <2>3. h \in DOMAIN port
    BY <1>2, <1>4, <2>1, <2>2 DEF Fresh
  <2>4. backlog[h] # << >>
    BY <1>2, <2>3 DEF SeenInv
  <2> QED
    BY <1>3, <2>3, <2>4
<1>9. GivingInv'
  <2> SUFFICES ASSUME "overlap" \notin excuses' PROVE GivingInv'
    BY DEF GivingInv
  <2>1. \A b \in Admins : giving[b] = None
    BY <1>2
  <2>2. \A b \in Admins : giving'[b] = IF b = a THEN cfg ELSE None
    BY <1>2, <2>1 DEF TypesInv
  <2>3. cfg # None
    BY DEF PortsAssumption
  <2>4. ~Quiet'
    BY <2>2, <2>3 DEF Quiet
  <2> QED
    BY <1>2, <2>2, <2>4 DEF GivingInv
<1>10. SlotsInv'
  BY <1>2, <1>3, SlotsStay
<1>11. LostInv'
  BY <1>2, <1>3, LostStay
<1>12. AskInv'
  <2>1. \A j \in DOMAIN w.queue : w.queue[j].obj = Server \/ \E i \in DOMAIN queue : w.queue[j] = queue[i]
    BY DEF Given, Rebuilding
  <2> QED
    BY <1>2, <2>1 DEF AskInv, PortsAssumption
<1>13. CallsTheLiving'
  BY <1>2 DEF CallsTheLiving
<1> QED
  BY <1>1, <1>3, <1>5, <1>6, <1>7, <1>8, <1>9, <1>10, <1>11, <1>12, <1>13

(* The resolver's step for an interface.                                   *)
LEMMA ResolvedStep ==
  ASSUME PortsAssumption, PortsInv, NEW w, Resolved(w)
  PROVE  PortsInv'
<1> USE DEF PortsInv
<1>1. ListInv' /\ ForceInv'
  BY ResolvedList
<1>2. /\ w.port \in Opens /\ port' = w.port
      /\ binds' = w.new /\ queue' = queue /\ giving' = giving /\ inForce' = inForce
      /\ excuses' = excuses \cup w.notes /\ shares' = shares /\ slots' = slots
      /\ pc' = pc /\ ready' = ready /\ looking' = None /\ client' = client /\ applies' = applies
  BY <1>1 DEF Resolved, Listen, ListInv, threads, admins
<1>3. /\ WaitInv' /\ guest' \in [Guests -> States]
      /\ \A g \in Guests : \/ guest'[g] = guest[g]
                           \/ guest[g] = "waiting" /\ guest'[g] = "closed"
      /\ \A h \in DOMAIN w.port \cap DOMAIN port : backlog'[h] = backlog[h]
  BY <1>2, Listened DEF Resolved
<1>4. w \in Works /\ Fresh(w) /\ w.notes \subseteq Excuses
  BY DEF Resolved, Sound, Works
<1>5. TypesInv'
  <2>1. excuses' \subseteq Excuses
    BY <1>2, <1>4 DEF TypesInv
  <2> QED
    BY <1>2, <1>3, <2>1 DEF TypesInv
<1>6. WantedInv'
  <2> SUFFICES ASSUME NEW k \in DOMAIN w.new, w.new[k].sock = NoSock,
                      excuses' \cap Hindered = {}
               PROVE  Sought(w.new[k].addr)'
    BY <1>2 DEF WantedInv
  <2>1. /\ DOMAIN w.new = 1..Len(w.new) /\ DOMAIN binds = 1..Len(binds) /\ Len(w.new) = Len(binds)
    BY <1>4 DEF Works, Resolved, Remaking, ListInv
  <2>2. k \in DOMAIN binds /\ Waits(binds[k]) /\ w.new[k].addr = binds[k].addr
    BY <1>2, <2>1 DEF Resolved, Remaking, Hindered
  <2>3. Sought(binds[k].addr)
    BY <1>2, <2>2 DEF WantedInv, Waits
  <2>4. looking # SendFor(binds[k].addr)
    BY <2>2 DEF Waits, SendFor
  <2> QED
    BY <1>2, <2>2, <2>3, <2>4 DEF Sought
<1>7. OneLooks'
  BY <1>2 DEF OneLooks
<1>8. SeenInv'
  <2> SUFFICES ASSUME NEW t \in Threads, pc[t] \in {"selected", "accepting"},
                      NEW h \in ready[t], h \in DOMAIN w.port,
                      excuses' \cap {"reused", "left"} = {}
               PROVE  backlog'[h] # << >>
    BY <1>2 DEF SeenInv
  <2>1. pc[t] = "selected"
    BY DEF Resolved, Unlocked
  <2>2. h \in DOMAIN port
    BY <1>2, <1>4, <2>1 DEF Fresh
  <2>3. backlog[h] # << >>
    BY <1>2, <2>2 DEF SeenInv
  <2> QED
    BY <1>3, <2>2, <2>3
<1>9. GivingInv'
  BY <1>2 DEF GivingInv, Quiet, ShoutPorts
<1>10. SlotsInv'
  BY <1>2, <1>3, SlotsStay
<1>11. LostInv'
  BY <1>2, <1>3, LostStay
<1>12. AskInv'
  BY <1>2 DEF AskInv
<1>13. CallsTheLiving'
  BY <1>2 DEF CallsTheLiving
<1> QED
  BY <1>1, <1>3, <1>5, <1>6, <1>7, <1>8, <1>9, <1>10, <1>11, <1>12, <1>13

----------------------------------------------------------------------------
(* What a step leaves alone stays as it was.                               *)

(* The list.                                                               *)
LEMMA ListStays ==
  ASSUME ListInv, ForceInv, binds' = binds, port' = port, inForce' = inForce
  PROVE  ListInv' /\ ForceInv'
<1>1. ListInv'
  BY DEF ListInv, OnItsPort, OnePerItem, Has
<1>2. ForceInv'
  BY DEF ForceInv, BindsOf
<1> QED
  BY <1>1, <1>2

(* What items wait for, if all that was sought is or there is an excuse.   *)
LEMMA WantedStays ==
  ASSUME WantedInv, binds' = binds, excuses \subseteq excuses',
         \A n : Sought(n) => Sought(n)' \/ excuses' \cap Hindered # {}
  PROVE  WantedInv'
BY DEF WantedInv

(* Who asks.                                                               *)
LEMMA AskStays ==
  ASSUME AskInv, CallsTheLiving, queue' = queue, looking' = looking, client' = client,
         excuses \subseteq excuses'
  PROVE  AskInv' /\ CallsTheLiving'
BY DEF AskInv, CallsTheLiving

(* The administrators and the ports of the mount points.                   *)
LEMMA GivingStays ==
  ASSUME GivingInv, giving' = giving, inForce' = inForce, DOMAIN slots' = DOMAIN slots,
         excuses \subseteq excuses'
  PROVE  GivingInv'
BY DEF GivingInv, Quiet, ShoutPorts

(* The threads and what they saw.                                          *)
LEMMA SeenStays ==
  ASSUME OneLooks, SeenInv, pc' = pc, ready' = ready, port' = port, backlog' = backlog,
         excuses \subseteq excuses'
  PROVE  OneLooks' /\ SeenInv'
<1>1. OneLooks'
  BY DEF OneLooks
<1>2. SeenInv'
  BY DEF SeenInv
<1> QED
  BY <1>1, <1>2

(* The connections.                                                        *)
LEMMA DoorsStay ==
  ASSUME SlotsInv, WaitInv, LostInv, guest' = guest, slots' = slots, port' = port,
         backlog' = backlog, excuses \subseteq excuses'
  PROVE  SlotsInv' /\ WaitInv' /\ LostInv'
<1>1. SlotsInv'
  BY DEF SlotsInv
<1>2. WaitInv'
  BY DEF WaitInv
<1>3. LostInv'
  BY DEF LostInv
<1> QED
  BY <1>1, <1>2, <1>3

(* What was sought is, when only excuses are added.                        *)
LEMMA SoughtStays ==
  ASSUME WantedInv, binds' = binds, queue' = queue, looking' = looking, excuses \subseteq excuses'
  PROVE  WantedInv'
BY DEF WantedInv, Sought

(* Connections that move, none of them from or to a socket.                *)
LEMMA WaitStays ==
  ASSUME WaitInv, port' = port, backlog' = backlog,
         \A g \in Guests : guest[g] = "waiting" <=> guest'[g] = "waiting"
  PROVE  WaitInv'
<1>1. \A h \in DOMAIN port : \A k \in DOMAIN backlog[h] : backlog[h][k] \in Guests
  BY DEF WaitInv
<1> QED
  BY <1>1 DEF WaitInv

----------------------------------------------------------------------------
(* The other steps                                                         *)

(* The administrator's second step.                                        *)
LEMMA MountsStep ==
  ASSUME PortsAssumption, PortsInv, NEW a \in Admins, GiveMounts(a)
  PROVE  PortsInv'
<1> USE DEF PortsInv
<1>1. /\ binds' = binds /\ port' = port /\ shares' = shares /\ backlog' = backlog
      /\ pc' = pc /\ ready' = ready /\ applies' = applies /\ inForce' = inForce
      /\ queue' = queue /\ looking' = looking /\ client' = client /\ excuses' = excuses
      /\ giving[a] # None /\ giving' = [giving EXCEPT ![a] = None]
      /\ slots' = [p \in ShoutPorts(giving[a]) |-> None]
      /\ guest' = [g \in Guests |-> IF guest[g] = "slot" THEN "closed" ELSE guest[g]]
  BY DEF GiveMounts, sockets, threads, resolver
<1>2. TypesInv'
  BY <1>1 DEF TypesInv, States
<1>3. ListInv' /\ ForceInv' /\ WantedInv' /\ OneLooks' /\ SeenInv' /\ AskInv' /\ CallsTheLiving'
  BY <1>1, ListStays, SoughtStays, SeenStays, AskStays
<1>4. \A g \in Guests : guest'[g] = IF guest[g] = "slot" THEN "closed" ELSE guest[g]
  BY <1>1
<1>5. WaitInv'
  BY <1>1, <1>4, WaitStays
<1>6. LostInv'
  BY <1>1, <1>4, LostStay
<1>7. SlotsInv'
  BY <1>1, <1>4 DEF SlotsInv
<1>8. GivingInv'
  <2> SUFFICES ASSUME "overlap" \notin excuses PROVE GivingInv'
    BY <1>1 DEF GivingInv
  <2>1. giving[a] = inForce /\ \A b \in Admins : giving[b] # None => a = b
    BY <1>1 DEF GivingInv
  <2>2. \A b \in Admins : giving'[b] = None
    BY <1>1, <2>1 DEF TypesInv
  <2>3. DOMAIN slots' = ShoutPorts(inForce) /\ ShoutPorts(inForce)' = ShoutPorts(inForce)
    BY <1>1, <2>1 DEF ShoutPorts
  <2> QED
    BY <1>1, <2>2, <2>3 DEF GivingInv
<1> QED
  BY <1>2, <1>3, <1>5, <1>6, <1>7, <1>8

(* The main thread's steps, and the end of a source.                       *)
LEMMA MainStep ==
  ASSUME PortsAssumption, PortsInv,
         ShoutLoop \/ \E g \in Guests : _AuthSourceReadAuth(g) \/ _AuthSourceDestroy(g)
  PROVE  PortsInv'
<1> USE DEF PortsInv
<1>1. /\ binds' = binds /\ port' = port /\ shares' = shares /\ backlog' = backlog
      /\ pc' = pc /\ ready' = ready /\ applies' = applies /\ inForce' = inForce /\ giving' = giving
      /\ queue' = queue /\ looking' = looking /\ client' = client /\ excuses' = excuses
  BY DEF ShoutLoop, _AuthSourceReadAuth, _AuthSourceDestroy, sockets, threads, admins, resolver
<1>2. CASE ShoutLoop
  <2>1. /\ slots' = [p \in DOMAIN slots |-> None]
        /\ guest' = [g \in Guests |-> IF guest[g] = "slot" THEN "auth" ELSE guest[g]]
    BY <1>2 DEF ShoutLoop
  <2>2. \A g \in Guests : guest'[g] = IF guest[g] = "slot" THEN "auth" ELSE guest[g]
    BY <2>1
  <2>3. TypesInv'
    BY <1>1, <2>1 DEF TypesInv, States
  <2>4. SlotsInv'
    BY <2>1, <2>2 DEF SlotsInv
  <2>5. WaitInv' /\ LostInv' /\ GivingInv'
    BY <1>1, <2>1, <2>2, WaitStays, LostStay, GivingStays
  <2> QED
    BY <1>1, <2>3, <2>4, <2>5, ListStays, SoughtStays, SeenStays, AskStays
<1>3. CASE \E g \in Guests : _AuthSourceReadAuth(g) \/ _AuthSourceDestroy(g)
  <2>1. PICK g \in Guests, to \in {"source", "closed"} :
          guest[g] \in {"auth", "source"} /\ guest' = [guest EXCEPT ![g] = to] /\ slots' = slots
    BY <1>3 DEF _AuthSourceReadAuth, _AuthSourceDestroy
  <2>2. \A x \in Guests : guest'[x] = IF x = g THEN to ELSE guest[x]
    BY <2>1 DEF TypesInv
  <2>3. TypesInv'
    BY <1>1, <2>1 DEF TypesInv, States
  <2>4. SlotsInv' /\ WaitInv' /\ LostInv' /\ GivingInv'
    BY <1>1, <2>1, <2>2, SlotsStay, WaitStays, LostStay, GivingStays
  <2> QED
    BY <1>1, <2>3, <2>4, ListStays, SoughtStays, SeenStays, AskStays
<1> QED
  BY <1>2, <1>3

(* A thread's steps but the accepting of a connection.                     *)
LEMMA LookStep ==
  ASSUME PortsAssumption, PortsInv, NEW t \in Threads,
         GetSockets(t) \/ SysSelect(t) \/ GoAccept(t) \/ Accepted(t)
  PROVE  PortsInv'
<1> USE DEF PortsInv
<1>1. /\ binds' = binds /\ port' = port /\ shares' = shares /\ backlog' = backlog
      /\ slots' = slots /\ guest' = guest
      /\ applies' = applies /\ inForce' = inForce /\ giving' = giving
      /\ queue' = queue /\ looking' = looking /\ client' = client /\ excuses' = excuses
  BY DEF GetSockets, SysSelect, GoAccept, Accepted, sockets, doors, admins, resolver
<1>0. DOMAIN port \subseteq Handles
  BY DEF ListInv, Opens
<1>2. PICK p \in {"idle", "selecting", "selected", "accepting"}, R \in SUBSET Handles :
        pc' = [pc EXCEPT ![t] = p] /\ ready' = [ready EXCEPT ![t] = R]
  <2>1. CASE GetSockets(t)
    BY <2>1, <1>0 DEF GetSockets
  <2>2. CASE SysSelect(t)
    BY <2>2, <1>0 DEF SysSelect, TypesInv
  <2>3. CASE GoAccept(t)
    <3>1. ready' = [ready EXCEPT ![t] = ready[t]] /\ ready[t] \in SUBSET Handles
      BY <2>3 DEF GoAccept, TypesInv
    <3> QED
      BY <2>3, <3>1 DEF GoAccept
  <2>4. CASE Accepted(t)
    BY <2>4 DEF Accepted
  <2> QED
    BY <2>1, <2>2, <2>3, <2>4
<1>3. /\ \A u \in Threads : pc'[u] = IF u = t THEN p ELSE pc[u]
      /\ \A u \in Threads : ready'[u] = IF u = t THEN R ELSE ready[u]
  BY <1>2 DEF TypesInv
<1>4. TypesInv'
  BY <1>1, <1>2 DEF TypesInv
<1>5. OneLooks'
  <2>1. CASE GetSockets(t)
    BY <1>3, <2>1 DEF OneLooks, GetSockets
  <2>2. CASE SysSelect(t) \/ GoAccept(t) \/ Accepted(t)
    <3>1. pc[t] # "idle"
      BY <2>2 DEF SysSelect, GoAccept, Accepted
    <3> QED
      BY <1>3, <3>1 DEF OneLooks
  <2> QED
    BY <2>1, <2>2
<1>6. SeenInv'
  <2>1. ASSUME p \in {"selected", "accepting"}, NEW h \in R, h \in DOMAIN port
        PROVE  backlog[h] # << >> \/ excuses \cap {"reused", "left"} # {}
    <3>1. CASE GetSockets(t)
      BY <1>3, <2>1, <3>1 DEF GetSockets, TypesInv
    <3>2. CASE SysSelect(t)
      BY <1>3, <2>1, <3>2 DEF SysSelect, TypesInv
    <3>3. CASE GoAccept(t)
      BY <1>3, <2>1, <3>3 DEF GoAccept, SeenInv
    <3>4. CASE Accepted(t)
      BY <1>3, <2>1, <3>4 DEF Accepted, TypesInv
    <3> QED
      BY <3>1, <3>2, <3>3, <3>4
  <2> QED
    BY <1>1, <1>3, <2>1 DEF SeenInv
<1> QED
  BY <1>1, <1>4, <1>5, <1>6, ListStays, SoughtStays, AskStays, GivingStays, DoorsStay

(* A connection comes to a socket.                                         *)
LEMMA ArriveStep ==
  ASSUME PortsAssumption, PortsInv, NEW g \in Guests, Arrive(g)
  PROVE  PortsInv'
<1> USE DEF PortsInv
<1>1. /\ binds' = binds /\ port' = port /\ shares' = shares /\ slots' = slots
      /\ pc' = pc /\ ready' = ready /\ applies' = applies /\ inForce' = inForce /\ giving' = giving
      /\ queue' = queue /\ looking' = looking /\ client' = client /\ excuses' = excuses
      /\ guest[g] = "away" /\ guest' = [guest EXCEPT ![g] = "waiting"]
  BY DEF Arrive, sockets, threads, admins, resolver
<1>2. PICK h \in DOMAIN port : backlog' = [backlog EXCEPT ![h] = Append(@, g)]
  BY DEF Arrive
<1>3. \A x \in Guests : guest'[x] = IF x = g THEN "waiting" ELSE guest[x]
  BY <1>1 DEF TypesInv
<1>4. backlog \in [DOMAIN port -> Seq(Guests)] /\ backlog[h] \in Seq(Guests)
  BY DEF WaitInv
<1> DEFINE s == backlog[h]
           r == Append(s, g)
<1>5. /\ s = backlog[h] /\ r \in Seq(Guests) /\ Len(r) = Len(s) + 1 /\ Len(s) \in Nat
      /\ DOMAIN s = 1..Len(s) /\ DOMAIN r = 1..Len(s) + 1 /\ r[Len(s) + 1] = g
      /\ \A k \in DOMAIN s : k \in DOMAIN r /\ r[k] = s[k]
      /\ \A k \in DOMAIN r : k \in DOMAIN s \/ k = Len(s) + 1
      /\ Len(s) + 1 \in DOMAIN r /\ r # << >>
  BY <1>4, OneMore
<1>6. \A i \in DOMAIN port : backlog'[i] = IF i = h THEN r ELSE backlog[i]
  BY <1>2, <1>4
<1>13. backlog' \in [DOMAIN port -> Seq(Guests)]
  BY <1>2, <1>4, <1>5
<1> HIDE DEF s, r
<1>7. ASSUME NEW i \in DOMAIN port, NEW k \in DOMAIN backlog[i]
      PROVE  /\ backlog[i][k] # g /\ backlog[i][k] \in Guests
             /\ k \in DOMAIN backlog'[i] /\ backlog'[i][k] = backlog[i][k]
  <2>1. guest[backlog[i][k]] = "waiting" /\ backlog[i][k] \in Guests
    BY <1>4 DEF WaitInv
  <2>2. k \in DOMAIN backlog'[i] /\ backlog'[i][k] = backlog[i][k]
    BY <1>5, <1>6
  <2> QED
    BY <1>1, <2>1, <2>2
<1>8. ASSUME NEW i \in DOMAIN port, NEW k \in DOMAIN backlog'[i]
      PROVE  \/ k \in DOMAIN backlog[i] /\ backlog'[i][k] = backlog[i][k]
             \/ i = h /\ k = Len(s) + 1 /\ backlog'[i][k] = g
  BY <1>5, <1>6
<1>9. WaitInv'
  <2>2. ASSUME NEW x \in Guests, guest'[x] = "waiting"
        PROVE  \E i \in DOMAIN port : \E k \in DOMAIN backlog'[i] : backlog'[i][k] = x
    <3>1. CASE x = g
      <4>1. Len(s) + 1 \in DOMAIN backlog'[h] /\ backlog'[h][Len(s) + 1] = g
        BY <1>5, <1>6
      <4> QED
        BY <3>1, <4>1
    <3>2. CASE x # g
      <4>1. guest[x] = "waiting"
        BY <1>3, <2>2, <3>2
      <4>2. PICK i \in DOMAIN port : \E k \in DOMAIN backlog[i] : backlog[i][k] = x
        BY <4>1 DEF WaitInv
      <4> QED
        BY <1>7, <4>2
    <3> QED
      BY <3>1, <3>2
  <2>3. ASSUME NEW i \in DOMAIN port, NEW k \in DOMAIN backlog'[i]
        PROVE  guest'[backlog'[i][k]] = "waiting"
    <3>1. CASE k \in DOMAIN backlog[i] /\ backlog'[i][k] = backlog[i][k]
      <4>1. guest[backlog[i][k]] = "waiting" /\ backlog[i][k] \in Guests /\ backlog[i][k] # g
        BY <1>7, <3>1 DEF WaitInv
      <4> QED
        BY <1>3, <3>1, <4>1
    <3>2. CASE backlog'[i][k] = g
      BY <1>3, <3>2
    <3> QED
      BY <1>8, <3>1, <3>2
  <2>4. ASSUME NEW i \in DOMAIN port, NEW j \in DOMAIN port,
               NEW k \in DOMAIN backlog'[i], NEW n \in DOMAIN backlog'[j],
               backlog'[i][k] = backlog'[j][n]
        PROVE  i = j /\ k = n
    <3>1. CASE k \in DOMAIN backlog[i] /\ n \in DOMAIN backlog[j]
      <4>1. backlog[i][k] = backlog[j][n]
        BY <1>7, <2>4, <3>1
      <4> QED
        BY <3>1, <4>1 DEF WaitInv
    <3>2. CASE backlog'[i][k] = g
      <4>1. k \notin DOMAIN backlog[i]
        BY <1>7, <3>2
      <4>2. n \notin DOMAIN backlog[j]
        <5>1. backlog'[j][n] = g
          BY <2>4, <3>2
        <5> QED
          BY <1>7, <5>1
      <4>3. i = h /\ k = Len(s) + 1 /\ j = h /\ n = Len(s) + 1
        BY <1>8, <4>1, <4>2
      <4> QED
        BY <4>3
    <3>3. CASE backlog'[j][n] = g
      BY <2>4, <3>2, <3>3
    <3> QED
      BY <1>8, <3>1, <3>2, <3>3
  <2> QED
    BY <1>1, <1>13, <2>2, <2>3, <2>4 DEF WaitInv
<1>10. SeenInv' /\ OneLooks'
  <2>1. SeenInv'
    BY <1>1, <1>5, <1>6 DEF SeenInv
  <2> QED
    BY <1>1, <2>1 DEF OneLooks
<1>11. TypesInv'
  BY <1>1 DEF TypesInv, States
<1>12. SlotsInv' /\ LostInv' /\ GivingInv'
  BY <1>1, <1>3, SlotsStay, LostStay, GivingStays
<1> QED
  BY <1>1, <1>9, <1>10, <1>11, <1>12, ListStays, SoughtStays, AskStays

(* A sequence without its element m.                                       *)
LacksAt(r, s, m) ==
  /\ Len(r) = Len(s) - 1
  /\ \A k \in 1..Len(s) - 1 : r[k] = IF k < m THEN s[k] ELSE s[k + 1]

Distinct(s) == \A k, j \in 1..Len(s) : s[k] = s[j] => k = j

(* What RemoveFirst does to a sequence of different elements.              *)
LEMMA OneLess ==
  ASSUME NEW S, NEW s \in Seq(S), NEW m \in 1..Len(s), NEW c, s[m] = c, Distinct(s)
  PROVE  RemoveFirst(s, c) \in Seq(S) /\ LacksAt(RemoveFirst(s, c), s, m)
<1> DEFINE R == RemoveFirst(s, c)
           F == SubSeq(s, 1, m - 1)
           B == SubSeq(s, m + 1, Len(s))
           I == {k \in 1..Len(s) : s[k] = c}
<1>1. SelectInSeq(s, LAMBDA v : v = c) = m
  <2>1. I = {m}
    BY DEF Distinct
  <2>2. Min(I) = m
    BY <2>1 DEF Min
  <2>3. SelectInSeq(s, LAMBDA v : v = c) = IF I # {} THEN Min(I) ELSE 0
    BY DEF SelectInSeq
  <2> HIDE DEF I
  <2> QED
    BY <2>1, <2>2, <2>3
<1>2. R = F \o B
  BY <1>1 DEF RemoveFirst, RemoveAt
<1>3. /\ F \in Seq(S) /\ Len(F) = m - 1 /\ B \in Seq(S) /\ Len(B) = Len(s) - m
      /\ \A k \in 1..m - 1 : F[k] = s[k]
      /\ \A k \in 1..Len(s) - m : B[k] = s[m + k]
  BY SubSeqProperties
<1> HIDE DEF R, F, B
<1>4. /\ R \in Seq(S) /\ Len(R) = Len(F) + Len(B)
      /\ \A k \in 1..Len(F) + Len(B) : R[k] = IF k <= Len(F) THEN F[k] ELSE B[k - Len(F)]
  <2>1. F \in Seq(S) /\ B \in Seq(S)
    BY <1>3
  <2> QED
    BY <1>2, <2>1, ConcatProperties
<1>5. /\ Len(R) = Len(s) - 1 /\ Len(s) \in Nat /\ Len(F) = m - 1 /\ Len(B) = Len(s) - m
      /\ Len(F) + Len(B) = Len(s) - 1
  BY <1>3, <1>4
<1>6. ASSUME NEW k \in 1..Len(s) - 1 PROVE R[k] = IF k < m THEN s[k] ELSE s[k + 1]
  <2>0. R[k] = IF k <= m - 1 THEN F[k] ELSE B[k - (m - 1)]
    BY <1>4, <1>5
  <2>1. CASE k < m
    <3>1. k \in 1..m - 1 /\ k <= m - 1
      BY <1>5, <2>1
    <3> QED
      BY <1>3, <2>0, <2>1, <3>1
  <2>2. CASE ~(k < m)
    <3>1. k - (m - 1) \in 1..Len(s) - m /\ m + (k - (m - 1)) = k + 1 /\ ~(k <= m - 1)
      BY <1>5, <2>2
    <3>2. B[k - (m - 1)] = s[k + 1]
      BY <1>3, <3>1
    <3> QED
      BY <2>0, <2>2, <3>1, <3>2
  <2> QED
    BY <2>1, <2>2
<1> QED
  BY <1>4, <1>5, <1>6 DEF R, LacksAt

(* A connection that waits goes: what is at the sockets then, a place      *)
(* further front behind it, is what was.                                   *)
LEMMA WaitLeft ==
  ASSUME WaitInv, NEW g \in Guests, NEW h \in DOMAIN port, NEW m \in DOMAIN backlog[h],
         backlog[h][m] = g, NEW r \in Seq(Guests), LacksAt(r, backlog[h], m),
         port' = port, backlog' = [backlog EXCEPT ![h] = r],
         \A x \in Guests : x # g => guest'[x] = guest[x],
         guest'[g] # "waiting"
  PROVE  WaitInv'
<1> DEFINE s == backlog[h]
           n == Len(s)
           From(i, k) == IF i = h /\ ~(k < m) THEN k + 1 ELSE k
<1>1. /\ backlog \in [DOMAIN port -> Seq(Guests)] /\ s \in Seq(Guests) /\ n \in Nat
      /\ DOMAIN s = 1..n /\ m \in 1..n /\ DOMAIN r = 1..n - 1 /\ Len(r) = n - 1
      /\ \A k \in 1..n - 1 : r[k] = IF k < m THEN s[k] ELSE s[k + 1]
  <2>1. backlog \in [DOMAIN port -> Seq(Guests)] /\ s \in Seq(Guests)
    BY DEF WaitInv
  <2>2. n \in Nat /\ DOMAIN s = 1..n /\ m \in 1..n
    BY <2>1
  <2>3. Len(r) = n - 1 /\ \A k \in 1..n - 1 : r[k] = IF k < m THEN s[k] ELSE s[k + 1]
    BY DEF LacksAt
  <2>4. DOMAIN r = 1..n - 1
    BY <2>3
  <2> QED
    BY <2>1, <2>2, <2>3, <2>4
<1>2. \A i \in DOMAIN port : backlog'[i] = IF i = h THEN r ELSE backlog[i]
  BY <1>1
<1>3. ASSUME NEW i \in DOMAIN port, NEW k \in DOMAIN backlog'[i]
      PROVE  /\ From(i, k) \in DOMAIN backlog[i] /\ backlog'[i][k] = backlog[i][From(i, k)]
             /\ i = h => From(i, k) # m
  <2>1. CASE i = h
    <3>1. k \in 1..n - 1 /\ backlog'[i][k] = r[k]
      BY <1>1, <1>2, <2>1
    <3>2. CASE k < m
      BY <1>1, <2>1, <3>1, <3>2
    <3>3. CASE ~(k < m)
      BY <1>1, <2>1, <3>1, <3>3
    <3> QED
      BY <3>2, <3>3
  <2>2. CASE i # h
    BY <1>2, <2>2
  <2> QED
    BY <2>1, <2>2
<1>4. \A i, j \in DOMAIN port : \A k \in DOMAIN backlog[i], l \in DOMAIN backlog[j] :
        backlog[i][k] = backlog[j][l] => i = j /\ k = l
  BY DEF WaitInv
<1>5. ASSUME NEW i \in DOMAIN port, NEW k \in DOMAIN backlog'[i]
      PROVE  guest'[backlog'[i][k]] = "waiting"
  <2>1. backlog[i][From(i, k)] # g
    BY <1>3, <1>4
  <2>2. /\ From(i, k) \in DOMAIN backlog[i] /\ backlog'[i][k] = backlog[i][From(i, k)]
        /\ backlog[i][From(i, k)] \in Guests
    BY <1>1, <1>3
  <2> HIDE DEF From
  <2> QED
    BY <2>1, <2>2 DEF WaitInv
<1>6. ASSUME NEW i \in DOMAIN port, NEW j \in DOMAIN port,
             NEW k \in DOMAIN backlog'[i], NEW l \in DOMAIN backlog'[j],
             backlog'[i][k] = backlog'[j][l]
      PROVE  i = j /\ k = l
  <2>1. i = j /\ From(i, k) = From(j, l)
    <3> HIDE DEF From
    <3> QED
      BY <1>3, <1>4, <1>6
  <2>2. CASE i = h
    <3>1. k \in 1..n - 1 /\ l \in 1..n - 1
      BY <1>1, <1>2, <2>1, <2>2
    <3> QED
      BY <1>1, <2>1, <2>2, <3>1
  <2>3. CASE i # h
    BY <2>1, <2>3
  <2> QED
    BY <2>2, <2>3
<1>7. ASSUME NEW x \in Guests, guest'[x] = "waiting"
      PROVE  \E i \in DOMAIN port : \E k \in DOMAIN backlog'[i] : backlog'[i][k] = x
  <2>1. x # g /\ guest[x] = "waiting"
    BY <1>7
  <2>0. PICK i \in DOMAIN port : \E k \in DOMAIN backlog[i] : backlog[i][k] = x
    BY <2>1 DEF WaitInv
  <2>2. PICK k \in DOMAIN backlog[i] : backlog[i][k] = x
    BY <2>0
  <2>3. CASE i = h
    <3>1. k \in 1..n /\ k # m /\ Len(r) = n - 1 /\ \A j \in 1..n - 1 : r[j] = IF j < m THEN s[j] ELSE s[j + 1]
      BY <1>1, <2>1, <2>2, <2>3
    <3>2. CASE k < m
      <4>1. k \in 1..n - 1 /\ r[k] = s[k]
        BY <1>1, <3>1, <3>2
      <4> QED
        BY <1>1, <1>2, <2>2, <2>3, <4>1
    <3>3. CASE ~(k < m)
      <4>1. k - 1 \in 1..n - 1 /\ r[k - 1] = s[k]
        <5>1. k - 1 \in 1..n - 1 /\ ~(k - 1 < m) /\ (k - 1) + 1 = k
          BY <1>1, <3>1, <3>3
        <5> QED
          BY <3>1, <5>1
      <4> QED
        BY <1>1, <1>2, <2>2, <2>3, <4>1
    <3> QED
      BY <3>2, <3>3
  <2>4. CASE i # h
    BY <1>2, <2>2, <2>4
  <2> QED
    BY <2>3, <2>4
<1>8. backlog' \in [DOMAIN port -> Seq(Guests)]
  BY <1>1
<1> HIDE DEF From
<1> QED
  BY <1>5, <1>6, <1>7, <1>8 DEF WaitInv

(* A connection is given up.                                               *)
LEMMA GiveUpStep ==
  ASSUME PortsAssumption, PortsInv, NEW g \in Guests, GiveUp(g)
  PROVE  PortsInv'
<1> USE DEF PortsInv
<1>1. /\ binds' = binds /\ port' = port /\ shares' = shares /\ slots' = slots
      /\ pc' = pc /\ ready' = ready /\ applies' = applies /\ inForce' = inForce /\ giving' = giving
      /\ queue' = queue /\ looking' = looking /\ client' = client
      /\ guest[g] = "waiting" /\ guest' = [guest EXCEPT ![g] = "closed"]
  BY DEF GiveUp, sockets, threads, admins, resolver
<1>2. PICK h \in DOMAIN port :
        /\ g \in Range(backlog[h])
        /\ backlog' = [backlog EXCEPT ![h] = RemoveFirst(@, g)]
        /\ excuses' = excuses \cup {e \in {"left"} : \E t \in Threads :
                        pc[t] \in {"selected", "accepting"} /\ h \in ready[t]}
  BY DEF GiveUp
<1>3. \A x \in Guests : guest'[x] = IF x = g THEN "closed" ELSE guest[x]
  BY <1>1 DEF TypesInv
<1>4. PICK m \in DOMAIN backlog[h] : backlog[h][m] = g
  BY <1>2 DEF Range
<1>5. backlog \in [DOMAIN port -> Seq(Guests)] /\ backlog[h] \in Seq(Guests)
  BY DEF WaitInv
<1> DEFINE r == RemoveFirst(backlog[h], g)
<1>6. r \in Seq(Guests) /\ LacksAt(r, backlog[h], m)
  <2>1. DOMAIN backlog[h] = 1..Len(backlog[h])
    BY <1>5
  <2>2. Distinct(backlog[h])
    BY <2>1 DEF WaitInv, Distinct
  <2>3. m \in 1..Len(backlog[h])
    BY <2>1
  <2> HIDE DEF PortsInv
  <2> QED
    BY <1>4, <1>5, <2>2, <2>3, OneLess
<1>7. backlog' = [backlog EXCEPT ![h] = r]
  BY <1>2
<1> HIDE DEF r
<1>8. WaitInv'
  <2>1. (\A x \in Guests : x # g => guest'[x] = guest[x]) /\ guest'[g] # "waiting"
    BY <1>3
  <2>2. port' = port /\ WaitInv
    BY <1>1
  <2> HIDE DEF PortsInv
  <2> QED
    BY <1>4, <1>6, <1>7, <2>1, <2>2, WaitLeft
<1>9. SeenInv'
  <2> SUFFICES ASSUME NEW t \in Threads, pc[t] \in {"selected", "accepting"},
                      NEW i \in ready[t], i \in DOMAIN port,
                      excuses' \cap {"reused", "left"} = {}
               PROVE  backlog'[i] # << >>
    BY <1>1 DEF SeenInv
  <2>1. i # h
    BY <1>2
  <2>2. backlog'[i] = backlog[i]
    BY <1>5, <1>7, <2>1
  <2> QED
    BY <1>2, <2>2 DEF SeenInv
<1>10. TypesInv' /\ OneLooks'
  <2>1. excuses' \subseteq Excuses
    BY <1>2 DEF TypesInv, Excuses
  <2>2. OneLooks'
    BY <1>1 DEF OneLooks
  <2> QED
    BY <1>1, <2>1, <2>2 DEF TypesInv, States
<1>11. excuses \subseteq excuses'
  BY <1>2
<1>12. SlotsInv' /\ LostInv' /\ GivingInv'
  BY <1>1, <1>3, <1>11, SlotsStay, LostStay, GivingStays
<1> QED
  BY <1>1, <1>8, <1>9, <1>10, <1>11, <1>12, ListStays, SoughtStays, AskStays

(* A connection is accepted.                                               *)
LEMMA AcceptStep ==
  ASSUME PortsAssumption, PortsInv, NEW t \in Threads, Accept(t)
  PROVE  PortsInv'
<1> USE DEF PortsInv
<1> DEFINE h == binds[First(Todo(t))].sock
           s == backlog[h]
           g == Head(s)
           r == Tail(s)
<1>1. /\ binds' = binds /\ port' = port /\ shares' = shares /\ pc' = pc
      /\ applies' = applies /\ inForce' = inForce /\ giving' = giving
      /\ queue' = queue /\ looking' = looking /\ client' = client
      /\ pc[t] = "accepting" /\ Todo(t) # {} /\ s # << >>
      /\ backlog' = [backlog EXCEPT ![h] = r]
      /\ _AcceptSocketCB(g, port[h])
      /\ ready' = [ready EXCEPT ![t] = @ \ {h}]
  BY DEF Accept, sockets, admins, resolver
<1>2. h \in DOMAIN port
  <2>0. DOMAIN binds = 1..Len(binds) /\ Todo(t) \subseteq DOMAIN binds
    BY DEF Todo, ListInv
  <2>1. Todo(t) \subseteq Nat /\ Todo(t) # {}
    BY <1>1, <2>0
  <2>2. First(Todo(t)) \in Todo(t)
    BY <2>1, FirstIsIn
  <2> QED
    BY <2>2 DEF Todo, ListInv, OnItsPort
<1> DEFINE p == port[h]
<1> HIDE DEF h
<1>3. backlog \in [DOMAIN port -> Seq(Guests)] /\ s \in Seq(Guests) /\ s # << >>
  BY <1>1, <1>2 DEF WaitInv
<1>4. /\ 1 \in DOMAIN s /\ s[1] = g /\ g \in Guests /\ r \in Seq(Guests) /\ Len(s) \in Nat
      /\ DOMAIN s = 1..Len(s)
  BY <1>3
<1>5. LacksAt(r, s, 1)
  <2>1. Len(r) = Len(s) - 1 /\ \A k \in 1..Len(s) - 1 : r[k] = s[k + 1]
    BY <1>3, HeadTailProperties
  <2>2. \A k \in 1..Len(s) - 1 : ~(k < 1)
    BY <1>4
  <2> HIDE DEF r, s
  <2> QED
    BY <2>1, <2>2 DEF LacksAt
<1>6. guest[g] = "waiting"
  BY <1>2, <1>4 DEF WaitInv
<1>7. PICK to \in {"slot", "lost", "http"} :
        /\ guest' = [guest EXCEPT ![g] = to]
        /\ to = "lost" => "taken" \in excuses'
        /\ excuses \subseteq excuses' /\ excuses' \subseteq excuses \cup {"taken"}
        /\ to # "slot" => slots' = slots
        /\ to = "slot" => p \in DOMAIN slots /\ slots[p] = None /\ slots' = [slots EXCEPT ![p] = g]
  <2> HIDE DEF g, p
  <2>1. _AcceptSocketCB(g, p)
    BY <1>1 DEF p
  <2>2. CASE p \in DOMAIN slots /\ slots[p] = None
    BY <2>1, <2>2 DEF _AcceptSocketCB
  <2>3. CASE p \in DOMAIN slots /\ slots[p] # None
    BY <2>1, <2>3 DEF _AcceptSocketCB
  <2>4. CASE p \notin DOMAIN slots
    BY <2>1, <2>4 DEF _AcceptSocketCB
  <2> QED
    BY <2>2, <2>3, <2>4
<1> HIDE DEF g, r, p
<1>8. \A x \in Guests : guest'[x] = IF x = g THEN to ELSE guest[x]
  BY <1>7 DEF TypesInv
<1>9. WaitInv'
  <2>1. (\A x \in Guests : x # g => guest'[x] = guest[x]) /\ guest'[g] # "waiting"
    BY <1>4, <1>8
  <2>2. port' = port /\ backlog' = [backlog EXCEPT ![h] = r] /\ WaitInv
    BY <1>1
  <2> HIDE DEF PortsInv
  <2> QED
    BY <1>2, <1>4, <1>5, <2>1, <2>2, WaitLeft
<1>10. \A u \in Threads : ready'[u] = IF u = t THEN ready[t] \ {h} ELSE ready[u]
  BY <1>1 DEF TypesInv
<1>11. SeenInv' /\ OneLooks'
  <2>1. ASSUME NEW u \in Threads, pc[u] \in {"selected", "accepting"},
               NEW i \in ready'[u], i \in DOMAIN port, excuses' \cap {"reused", "left"} = {}
        PROVE  backlog'[i] # << >>
    <3>1. u = t
      BY <1>1, <2>1 DEF OneLooks
    <3>2. i \in ready[t] /\ i # h
      BY <1>10, <2>1, <3>1
    <3>3. backlog'[i] = backlog[i]
      BY <1>1, <1>3, <2>1, <3>2
    <3> QED
      BY <1>7, <2>1, <3>1, <3>2, <3>3 DEF SeenInv
  <2>2. SeenInv'
    BY <1>1, <2>1 DEF SeenInv
  <2> QED
    BY <1>1, <2>2 DEF OneLooks
<1>12. TypesInv'
  <2>1. excuses' \subseteq Excuses
    BY <1>7 DEF TypesInv, Excuses
  <2>2. guest' \in [Guests -> States]
    BY <1>7 DEF TypesInv, States
  <2>3. ready' \in [Threads -> SUBSET Handles]
    BY <1>1 DEF TypesInv
  <2> QED
    BY <1>1, <2>1, <2>2, <2>3 DEF TypesInv
<1>13. SlotsInv' /\ GivingInv'
  <2>1. CASE to # "slot"
    <3>1. \A x \in Guests : guest[x] = "slot" <=> guest'[x] = "slot"
      BY <1>6, <1>8, <2>1
    <3> QED
      BY <1>1, <1>7, <2>1, <3>1, SlotsStay, GivingStays
  <2>2. CASE to = "slot"
    <3>1. /\ p \in DOMAIN slots /\ slots[p] = None /\ DOMAIN slots' = DOMAIN slots
          /\ \A q \in DOMAIN slots : slots'[q] = IF q = p THEN g ELSE slots[q]
      BY <1>7, <2>2
    <3>2. \A q \in DOMAIN slots : slots[q] # g
      BY <1>4, <1>6 DEF SlotsInv, PortsAssumption
    <3>3. None \notin Guests
      BY DEF PortsAssumption
    <3>4. \A q \in DOMAIN slots' : slots'[q] \in Guests \cup {None}
      BY <1>4, <3>1 DEF SlotsInv
    <3>5. \A x \in Guests : guest'[x] = "slot" => \E q \in DOMAIN slots' : slots'[q] = x
      BY <1>8, <2>2, <3>1, <3>3 DEF SlotsInv
    <3>6. \A q \in DOMAIN slots' : slots'[q] # None => guest'[slots'[q]] = "slot"
      BY <1>4, <1>8, <2>2, <3>1, <3>2 DEF SlotsInv
    <3>7. \A q, o \in DOMAIN slots' : slots'[q] = slots'[o] /\ slots'[q] # None => q = o
      BY <3>1, <3>2 DEF SlotsInv
    <3>8. SlotsInv'
      BY <3>4, <3>5, <3>6, <3>7 DEF SlotsInv
    <3> QED
      BY <1>1, <1>7, <3>1, <3>8, GivingStays
  <2> QED
    BY <2>1, <2>2
<1>14. LostInv'
  BY <1>7, <1>8, LostStay
<1> QED
  BY <1>1, <1>7, <1>9, <1>11, <1>12, <1>13, <1>14, ListStays, SoughtStays, AskStays

(* A client asks for a name, or leaves.                                    *)
LEMMA ClientStep ==
  ASSUME PortsAssumption, PortsInv, NEW c \in Clients, Ask(c) \/ Leave(c)
  PROVE  PortsInv'
<1> USE DEF PortsInv
<1>1. /\ binds' = binds /\ port' = port /\ shares' = shares /\ backlog' = backlog
      /\ slots' = slots /\ guest' = guest /\ pc' = pc /\ ready' = ready
      /\ applies' = applies /\ inForce' = inForce /\ giving' = giving /\ looking' = looking
  BY DEF Ask, Leave, sockets, doors, threads, admins
<1>2. c # Server /\ c # None
  BY DEF PortsAssumption
<1>3. CASE Ask(c)
  <2>1. PICK n \in Names : queue' = <<[obj |-> c, name |-> n]>> \o queue
    BY <1>3 DEF Ask
  <2>2. /\ client[c] = "none" /\ client' = [client EXCEPT ![c] = "asking"] /\ excuses' = excuses
    BY <1>3 DEF Ask
  <2> DEFINE it == [obj |-> c, name |-> n]
  <2>3. /\ queue \in Seq(Asked) /\ it \in Asked /\ it.obj = c
    BY DEF TypesInv, Asked
  <2> HIDE DEF it
  <2>4. /\ queue' \in Seq(Asked) /\ queue'[1] = it
        /\ \A j \in DOMAIN queue : j + 1 \in DOMAIN queue' /\ queue'[j + 1] = queue[j]
        /\ \A j \in DOMAIN queue' : j = 1 \/ (j - 1 \in DOMAIN queue /\ queue'[j] = queue[j - 1])
    BY <2>1, <2>3 DEF it
  <2>5. \A x \in Clients : client'[x] = IF x = c THEN "asking" ELSE client[x]
    BY <2>2 DEF TypesInv
  <2>6. TypesInv'
    BY <1>1, <2>2, <2>4 DEF TypesInv
  <2>7. WantedInv'
    <3>1. \A n1 : Sought(n1) => Sought(n1)'
      BY <1>1, <2>4 DEF Sought
    <3> QED
      BY <1>1, <2>2, <3>1, WantedStays
  <2>8. AskInv'
    <3> SUFFICES ASSUME NEW j \in DOMAIN queue', queue'[j].obj \in Clients
                 PROVE  client'[queue'[j].obj] \in {"asking", "answered"}
      BY DEF AskInv
    <3>1. CASE j = 1
      BY <2>3, <2>4, <2>5, <3>1
    <3>2. CASE j # 1
      <4>1. j - 1 \in DOMAIN queue /\ queue'[j] = queue[j - 1]
        BY <2>4, <3>2
      <4>2. client[queue[j - 1].obj] \in {"asking", "answered"}
        BY <4>1 DEF AskInv
      <4> QED
        BY <2>5, <4>1, <4>2
    <3> QED
      BY <3>1, <3>2
  <2>9. CallsTheLiving'
    BY <1>1, <2>2, <2>5 DEF CallsTheLiving
  <2> QED
    BY <1>1, <2>2, <2>6, <2>7, <2>8, <2>9, ListStays, GivingStays, SeenStays, DoorsStay
<1>4. CASE Leave(c)
  <2>1. /\ client' = [client EXCEPT ![c] = "gone"]
        /\ excuses' = excuses \cup {e \in {"dying"} : looking # None /\ looking.obj = c}
        /\ queue' = [k \in DOMAIN queue |->
                       IF queue[k].obj = c THEN [queue[k] EXCEPT !.obj = None] ELSE queue[k]]
    BY <1>4 DEF Leave, NetRemoveObject
  <2>2. queue \in Seq(Asked) /\ DOMAIN queue = 1..Len(queue) /\ Len(queue) \in Nat
    BY DEF TypesInv
  <2>3. \A k \in DOMAIN queue :
          queue'[k] = IF queue[k].obj = c THEN [queue[k] EXCEPT !.obj = None] ELSE queue[k]
    BY <2>1
  <2>4. \A k \in DOMAIN queue : queue'[k] \in Asked
    <3> SUFFICES ASSUME NEW k \in DOMAIN queue PROVE queue'[k] \in Asked
      OBVIOUS
    <3>1. queue[k] \in Asked
      BY <2>2
    <3>2. [queue[k] EXCEPT !.obj = None] \in Asked
      BY <3>1 DEF Asked
    <3> QED
      BY <2>3, <3>1, <3>2
  <2>5. queue' \in Seq(Asked) /\ DOMAIN queue' = DOMAIN queue
    <3>1. queue' = [k \in 1..Len(queue) |-> queue'[k]]
      BY <2>1, <2>2
    <3> QED
      BY <2>2, <2>4, <3>1
  <2>6. \A x \in Clients : client'[x] = IF x = c THEN "gone" ELSE client[x]
    BY <2>1 DEF TypesInv
  <2>7. TypesInv'
    <3>1. excuses' \subseteq Excuses
      BY <2>1 DEF TypesInv, Excuses
    <3>2. client' \in [Clients -> {"none", "asking", "answered", "gone"}]
      BY <2>1 DEF TypesInv
    <3> QED
      BY <1>1, <2>5, <3>1, <3>2 DEF TypesInv
  <2>8. WantedInv'
    <3>1. \A n : Sought(n) => Sought(n)'
      BY <1>1, <1>2, <2>3, <2>5 DEF Sought, SendFor
    <3> QED
      BY <1>1, <2>1, <3>1, WantedStays
  <2>9. AskInv'
    <3> SUFFICES ASSUME NEW j \in DOMAIN queue, queue'[j].obj \in Clients
                 PROVE  client'[queue'[j].obj] \in {"asking", "answered"}
      BY <2>5 DEF AskInv
    <3>0. queue'[j].obj \in Clients
      OBVIOUS
    <3>1. CASE queue[j].obj = c
      <4>0. queue[j] \in Asked
        BY <2>2
      <4>1. [queue[j] EXCEPT !.obj = None].obj = None
        BY <4>0 DEF Asked
      <4>2. queue'[j].obj = None
        BY <2>3, <3>1, <4>1
      <4> QED
        BY <3>0, <4>2 DEF PortsAssumption
    <3>2. CASE queue[j].obj # c
      BY <2>3, <2>6, <3>2 DEF AskInv
    <3> QED
      BY <3>1, <3>2
  <2>10. CallsTheLiving'
    BY <1>1, <2>1, <2>6 DEF CallsTheLiving
  <2>11. excuses \subseteq excuses'
    BY <2>1
  <2> QED
    BY <1>1, <2>7, <2>8, <2>9, <2>10, <2>11, ListStays, GivingStays, SeenStays, DoorsStay
<1> QED
  BY <1>3, <1>4

(* The resolver takes an item, or is done with one that was not the        *)
(* server's, or found nothing.                                             *)
LEMMA NameStep ==
  ASSUME PortsAssumption, PortsInv,
         TakeItem \/ NotFound \/ (Found /\ looking.obj # Server)
  PROVE  PortsInv'
<1> USE DEF PortsInv
<1>1. /\ binds' = binds /\ port' = port /\ shares' = shares /\ backlog' = backlog
      /\ slots' = slots /\ guest' = guest /\ pc' = pc /\ ready' = ready
      /\ applies' = applies /\ inForce' = inForce /\ giving' = giving
  BY DEF TakeItem, NotFound, Found, HTTPClntCBResolv, sockets, doors, threads, admins
<1>2. CASE TakeItem
  <2>1. /\ looking = None /\ queue # << >> /\ queue' = Tail(queue)
        /\ looking' = IF Head(queue).obj = None THEN None ELSE Head(queue)
        /\ client' = client /\ excuses' = excuses
    BY <1>2 DEF TakeItem
  <2>2. /\ queue \in Seq(Asked) /\ Head(queue) \in Asked /\ queue' \in Seq(Asked)
        /\ 1 \in DOMAIN queue /\ Head(queue) = queue[1]
        /\ \A j \in DOMAIN queue : j = 1 \/ (j - 1 \in DOMAIN queue' /\ queue'[j - 1] = queue[j])
        /\ \A j \in DOMAIN queue' : j + 1 \in DOMAIN queue /\ queue'[j] = queue[j + 1]
    BY <2>1 DEF TypesInv
  <2>3. TypesInv'
    BY <1>1, <2>1, <2>2 DEF TypesInv
  <2>4. WantedInv'
    <3>1. ASSUME NEW n, Sought(n) PROVE Sought(n)'
      <4>1. PICK j \in DOMAIN queue : queue[j] = SendFor(n)
        BY <2>1, <3>1 DEF Sought
      <4>2. CASE j = 1
        <5>1. Head(queue) = SendFor(n) /\ Head(queue).obj # None /\ Head(queue) # None
          BY <2>2, <4>1, <4>2 DEF SendFor, Asked, PortsAssumption
        <5> QED
          BY <2>1, <5>1 DEF Sought
      <4>3. CASE j # 1
        BY <2>2, <4>1, <4>3 DEF Sought
      <4> QED
        BY <4>2, <4>3
    <3> QED
      BY <1>1, <2>1, <3>1, WantedStays
  <2>5. AskInv' /\ CallsTheLiving'
    <3>1. AskInv'
      BY <2>1, <2>2 DEF AskInv
    <3>2. CallsTheLiving'
      <4>1. Head(queue).obj \in Clients => client[Head(queue).obj] \in {"asking", "answered"}
        BY <2>2 DEF AskInv
      <4> QED
        BY <2>1, <4>1 DEF CallsTheLiving
    <3> QED
      BY <3>1, <3>2
  <2> QED
    BY <1>1, <2>1, <2>3, <2>4, <2>5, ListStays, GivingStays, SeenStays, DoorsStay
<1>3. CASE NotFound /\ looking.obj = Server
  <2>1. /\ excuses' = excuses \cup {"unknown"} /\ looking' = None /\ queue' = queue
        /\ client' = client
    BY <1>3 DEF NotFound, sockets, doors
  <2>2. TypesInv'
    BY <1>1, <2>1 DEF TypesInv, Excuses
  <2>3. WantedInv' /\ AskInv' /\ CallsTheLiving'
    <3>1. "unknown" \in excuses' \cap Hindered
      BY <2>1 DEF Hindered
    <3>2. WantedInv'
      BY <3>1 DEF WantedInv
    <3> QED
      BY <2>1, <3>2 DEF AskInv, CallsTheLiving
  <2> QED
    BY <1>1, <2>1, <2>2, <2>3, ListStays, GivingStays, SeenStays, DoorsStay
<1>4. CASE (Found \/ NotFound) /\ looking.obj # Server
  <2>1. /\ client' = [client EXCEPT ![looking.obj] = IF @ = "asking" THEN "answered" ELSE @]
        /\ looking # None /\ looking' = None /\ queue' = queue /\ excuses' = excuses
    BY <1>4 DEF Found, NotFound, HTTPClntCBResolv
  <2>2. /\ client' \in [Clients -> {"none", "asking", "answered", "gone"}]
        /\ \A x \in Clients : client'[x] = client[x] \/ client'[x] = "answered"
    BY <2>1 DEF TypesInv
  <2>3. TypesInv'
    BY <1>1, <2>1, <2>2 DEF TypesInv
  <2>4. WantedInv'
    <3>1. \A n : Sought(n) => Sought(n)'
      BY <1>4, <2>1 DEF Sought, SendFor
    <3> QED
      BY <1>1, <2>1, <3>1, WantedStays
  <2>5. AskInv' /\ CallsTheLiving'
    BY <2>1, <2>2 DEF AskInv, CallsTheLiving
  <2> QED
    BY <1>1, <2>1, <2>3, <2>4, <2>5, ListStays, GivingStays, SeenStays, DoorsStay
<1> QED
  BY <1>2, <1>3, <1>4

----------------------------------------------------------------------------
(* The theorems                                                            *)

(* The invariant holds in the initial states.                              *)
LEMMA InitInv == PortsAssumption /\ Init => PortsInv
<1> SUFFICES ASSUME PortsAssumption, Init PROVE PortsInv
  OBVIOUS
<1> USE DEF Init
<1>1. /\ DOMAIN port = {} /\ DOMAIN backlog = {} /\ DOMAIN slots = {} /\ DOMAIN binds = {}
      /\ DOMAIN queue = {} /\ binds \in Seq(Binds) /\ queue \in Seq(Asked)
  OBVIOUS
<1>2. ListInv
  <2>1. port \in [{} -> Nat]
    BY <1>1
  <2>2. port \in Opens
    BY <2>1 DEF Opens
  <2> QED
    BY <1>1, <2>2 DEF ListInv, OnItsPort, OnePerItem
<1>3. TypesInv
  BY <1>1 DEF TypesInv, States, Excuses, PortsAssumption
<1>4. backlog \in [DOMAIN port -> Seq(Guests)]
  BY <1>1
<1>5. WaitInv
  BY <1>1, <1>4 DEF WaitInv
<1>6. WantedInv /\ ForceInv /\ OneLooks /\ SeenInv
  BY <1>1 DEF WantedInv, ForceInv, OneLooks, SeenInv
<1>7. SlotsInv /\ LostInv
  BY <1>1 DEF SlotsInv, LostInv
<1>8. GivingInv
  BY DEF GivingInv
<1>9. AskInv /\ CallsTheLiving
  BY <1>1 DEF AskInv, CallsTheLiving
<1> QED
  BY <1>2, <1>3, <1>5, <1>6, <1>7, <1>8, <1>9 DEF PortsInv

(* Every step keeps the invariant.                                         *)
LEMMA NextInv == PortsAssumption /\ PortsInv /\ [Next]_vars => PortsInv'
<1> SUFFICES ASSUME PortsAssumption, PortsInv, [Next]_vars PROVE PortsInv'
  OBVIOUS
<1>1. CASE \E a \in Admins : Give(a)
  <2>1. PICK a \in Admins : Give(a)
    BY <1>1
  <2>2. PICK cfg \in Configs : \E w : Given(a, cfg, w)
    BY <2>1, GiveIsGiven DEF PortsInv
  <2>3. PICK w : Given(a, cfg, w)
    BY <2>2
  <2> QED
    BY <2>3, GivenStep
<1>2. CASE \E a \in Admins : GiveMounts(a)
  BY <1>2, MountsStep
<1>3. CASE \E g \in Guests : Arrive(g) \/ GiveUp(g)
  BY <1>3, ArriveStep, GiveUpStep
<1>4. CASE ShoutLoop \/ \E g \in Guests : _AuthSourceReadAuth(g) \/ _AuthSourceDestroy(g)
  BY <1>4, MainStep
<1>5. CASE \E t \in Threads : ThreadStep(t)
  BY <1>5, LookStep, AcceptStep DEF ThreadStep
<1>6. CASE \E c \in Clients : Ask(c) \/ Leave(c)
  BY <1>6, ClientStep
<1>7. CASE Found /\ looking.obj = Server
  <2>1. PICK w : Resolved(w)
    BY <1>7, FoundIsResolved DEF PortsInv
  <2> QED
    BY <2>1, ResolvedStep
<1>8. CASE TakeItem \/ NotFound \/ (Found /\ looking.obj # Server)
  BY <1>8, NameStep
<1>9. CASE UNCHANGED vars
  <2>1. /\ binds' = binds /\ port' = port /\ shares' = shares /\ backlog' = backlog
        /\ slots' = slots /\ guest' = guest /\ pc' = pc /\ ready' = ready
        /\ applies' = applies /\ inForce' = inForce /\ giving' = giving
        /\ queue' = queue /\ looking' = looking /\ client' = client /\ excuses' = excuses
    BY <1>9 DEF vars, sockets, doors, threads, admins, resolver
  <2>2. TypesInv'
    BY <2>1 DEF PortsInv, TypesInv
  <2> QED
    BY <2>1, <2>2, ListStays, SoughtStays, AskStays, GivingStays, SeenStays, DoorsStay DEF PortsInv
<1> QED
  BY <1>1, <1>2, <1>3, <1>4, <1>5, <1>6, <1>7, <1>8, <1>9 DEF Next

(* The invariant holds of every state of every behaviour.                  *)
LEMMA InvHolds == Spec => []PortsInv
<1>1. PortsAssumption
  BY PortsAssumption
<1> QED
  BY <1>1, InitInv, NextInv, PTL DEF Spec

(* Each variable has its type.                                             *)
THEOREM PortsTyped == Spec => []TypeOK
<1>1. PortsInv => TypeOK
  <2> SUFFICES ASSUME PortsInv PROVE TypeOK
    OBVIOUS
  <2>1. DOMAIN port \subseteq Handles
    BY DEF PortsInv, ListInv, Opens
  <2>2. DOMAIN backlog = DOMAIN port /\ \A h \in DOMAIN port : backlog[h] \in Seq(Guests)
    BY DEF PortsInv, WaitInv
  <2>3. binds \in Seq([addr : Addresses, port : Nat, sock : Handles \cup {NoSock}])
    BY DEF PortsInv, ListInv, Binds
  <2>4. queue \in Seq([obj : Clients \cup {Server, None}, name : Names])
    BY DEF PortsInv, TypesInv, Asked
  <2>5. \A p \in DOMAIN slots : slots[p] \in Guests \cup {None}
    BY DEF PortsInv, SlotsInv
  <2> QED
    BY <2>1, <2>2, <2>3, <2>4, <2>5 DEF PortsInv, TypesInv, TypeOK, States
<1> QED
  BY <1>1, InvHolds, PTL

(* The sockets that are open are those of the list, each once and on its   *)
(* port; the list is the configuration in force; and with no name left to  *)
(* find the server listens wherever it says, but for a port that was not   *)
(* free, an entry given twice or a name that was not found.                *)
THEOREM ListensAsConfigured == Spec => []Listening
<1>1. PortsAssumption /\ PortsInv => Listening
  <2> SUFFICES ASSUME PortsAssumption, PortsInv PROVE Listening
    OBVIOUS
  <2>1. ListInv /\ TypesInv /\ ForceInv /\ WantedInv
    BY DEF PortsInv
  <2>2. {binds[k].sock : k \in DOMAIN binds} \ {NoSock} = DOMAIN port
    <3>1. NoSock \notin DOMAIN port
      BY <2>1 DEF ListInv, Opens, PortsAssumption
    <3>2. \A h \in DOMAIN port : \E k \in DOMAIN binds : binds[k].sock = h
      BY <2>1 DEF ListInv, Has
    <3>3. \A k \in DOMAIN binds : binds[k].sock # NoSock => binds[k].sock \in DOMAIN port
      BY <2>1 DEF ListInv, OnItsPort
    <3> DEFINE H == {binds[k].sock : k \in DOMAIN binds}
    <3>4. \A h \in DOMAIN port : h \in H /\ h # NoSock
      BY <3>1, <3>2
    <3>5. \A h \in H : h # NoSock => h \in DOMAIN port
      BY <3>3
    <3> HIDE DEF H
    <3>6. H \ {NoSock} = DOMAIN port
      BY <3>4, <3>5
    <3> QED
      BY <3>6 DEF H
  <2>3. \A k, j \in DOMAIN binds : k # j /\ binds[k].sock # NoSock => binds[k].sock # binds[j].sock
    BY <2>1 DEF ListInv, OnePerItem
  <2>4. \A k \in DOMAIN binds : binds[k].sock # NoSock => port[binds[k].sock] = binds[k].port
    BY <2>1 DEF ListInv, OnItsPort
  <2>5. ASSUME inForce # None
        PROVE  [k \in DOMAIN binds |-> [addr |-> binds[k].addr, port |-> binds[k].port]]
               = BindsOf(inForce)
    <3> DEFINE B == BindsOf(inForce)
    <3>1. B \in Seq(Spots)
      BY <2>1, <2>5, BindsOfIsSeq DEF TypesInv
    <3>2. /\ Len(binds) = Len(B) /\ DOMAIN binds = 1..Len(binds)
          /\ \A k \in DOMAIN binds : binds[k].addr = B[k].addr /\ binds[k].port = B[k].port
      BY <2>1, <2>5 DEF ForceInv, ListInv
    <3> HIDE DEF B
    <3>3. DOMAIN B = DOMAIN binds
      BY <3>1, <3>2
    <3>4. ASSUME NEW k \in DOMAIN binds
          PROVE  B[k] = [addr |-> binds[k].addr, port |-> binds[k].port]
      <4>1. B[k] \in Spots
        BY <3>1, <3>3
      <4>2. B[k] = [addr |-> B[k].addr, port |-> B[k].port]
        BY <4>1 DEF Spots
      <4> QED
        BY <3>2, <4>2
    <3>5. B = [k \in DOMAIN B |-> B[k]]
      BY <3>1
    <3>6. B = [k \in DOMAIN binds |-> [addr |-> binds[k].addr, port |-> binds[k].port]]
      BY <3>3, <3>4, <3>5
    <3> QED
      BY <3>6 DEF B
  <2>6. ASSUME ~Pending, excuses \cap {"inuse", "doubled", "unknown"} = {}
        PROVE  \A k \in DOMAIN binds : binds[k].sock # NoSock
    <3>1. looking = None /\ DOMAIN queue = {}
      BY <2>1, <2>6 DEF Pending, TypesInv
    <3>2. \A n : ~Sought(n)
      BY <3>1 DEF Sought
    <3> QED
      BY <2>1, <2>6, <3>2 DEF WantedInv, Hindered
  <2> QED
    BY <2>2, <2>3, <2>4, <2>5, <2>6 DEF Listening
<1>2. PortsAssumption
  BY PortsAssumption
<1> QED
  BY <1>1, <1>2, InvHolds, PTL

(* No thread waits in accept, with the list locked, on a socket that has   *)
(* no connection for it, unless the socket is not the one it saw ready or  *)
(* the connection was given up.                                            *)
THEOREM AcceptsWhatItSaw == Spec => []AcceptReturns
<1>1. PortsInv => AcceptReturns
  <2> SUFFICES ASSUME PortsInv, NEW t \in Threads, pc[t] = "accepting", Todo(t) # {}
               PROVE  \/ backlog[binds[First(Todo(t))].sock] # << >>
                      \/ excuses \cap {"reused", "left"} # {}
    BY DEF AcceptReturns
  <2>1. ListInv /\ SeenInv
    BY DEF PortsInv
  <2>2. First(Todo(t)) \in Todo(t)
    <3>1. DOMAIN binds = 1..Len(binds) /\ Todo(t) \subseteq DOMAIN binds
      BY <2>1 DEF Todo, ListInv
    <3>2. Todo(t) \subseteq Nat
      BY <3>1
    <3> QED
      BY <3>2, FirstIsIn
  <2>3. binds[First(Todo(t))].sock \in ready[t] \cap DOMAIN port
    BY <2>1, <2>2 DEF Todo, ListInv, OnItsPort
  <2> QED
    BY <2>1, <2>3 DEF SeenInv
<1> QED
  BY <1>1, InvHolds, PTL

(* The mount points are those of the configuration in force as long as     *)
(* administrators do not overlap; each connection is at one place; and     *)
(* one is lost only if it came to a port before the last one was taken     *)
(* over.                                                                   *)
THEOREM OneDoorEach == Spec => []Doors
<1>1. PortsAssumption /\ PortsInv => Doors
  <2> SUFFICES ASSUME PortsAssumption, PortsInv PROVE Doors
    OBVIOUS
  <2>1. GivingInv /\ SlotsInv /\ WaitInv /\ LostInv
    BY DEF PortsInv
  <2>2. Quiet /\ inForce # None /\ "overlap" \notin excuses => DOMAIN slots = ShoutPorts(inForce)
    BY <2>1 DEF GivingInv
  <2>3. ASSUME NEW g \in Guests
        PROVE  (guest[g] = "slot") <=> (Cardinality({p \in DOMAIN slots : slots[p] = g}) = 1)
    <3> DEFINE P == {p \in DOMAIN slots : slots[p] = g}
    <3>1. g # None
      BY DEF PortsAssumption
    <3>2. CASE guest[g] = "slot"
      <4>1. PICK p \in DOMAIN slots : slots[p] = g
        BY <2>1, <3>2 DEF SlotsInv
      <4>2. P = {p}
        BY <2>1, <3>1, <4>1 DEF SlotsInv
      <4> HIDE DEF P
      <4>3. Cardinality(P) = 1
        BY <4>2, FS_Singleton
      <4> QED
        BY <3>2, <4>3 DEF P
    <3>3. CASE guest[g] # "slot"
      <4>1. P = {}
        BY <2>1, <3>1, <3>3 DEF SlotsInv
      <4> HIDE DEF P
      <4>2. Cardinality(P) = 0
        BY <4>1, FS_EmptySet
      <4> QED
        BY <3>3, <4>2 DEF P
    <3> QED
      BY <3>2, <3>3
  <2>4. ASSUME NEW g \in Guests
        PROVE  (guest[g] = "waiting") <=> (\E h \in DOMAIN port : g \in Range(backlog[h]))
    BY <2>1 DEF WaitInv, Range
  <2>5. \A g \in Guests : guest[g] = "lost" => "taken" \in excuses
    BY <2>1 DEF LostInv
  <2> QED
    BY <2>2, <2>3, <2>4, <2>5 DEF Doors
<1>2. PortsAssumption
  BY PortsAssumption
<1> QED
  BY <1>1, <1>2, InvHolds, PTL

(* A client that is gone is not called back, unless it was destroyed       *)
(* while its name was looked up.                                           *)
THEOREM CallsReachTheLiving == Spec => []CallsTheLiving
<1>1. PortsInv => CallsTheLiving
  BY DEF PortsInv
<1> QED
  BY <1>1, InvHolds, PTL

=============================================================================
