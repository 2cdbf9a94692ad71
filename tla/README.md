# A TLA+ model of the Firecast streaming server

Firecast is an audio streaming server for OS/2 and Windows, written in C.
Sources (encoders, or relays of other servers) feed streams to mount points,
listeners read them over HTTP, administrators look at both and stop them
through a web interface.  Some eight threads share the same lists under
mutexes, and objects are freed by counts.  Almost everything that is hard in
this program is in how those threads interleave; that is what is modelled.

Paths below are those of the repository (`src/sources.c` is the streaming
server's file, `httpserv/`, `system/` its two libraries).

## The system

### Threads

| thread | code | does |
|---|---|---|
| main | `src/main.c` 89-108 | `ShoutLoop`, `SourceGarbageCollector`, sleeps 50 ms, again |
| 3 request threads | `httpserv/requests.c` 849-944 | serve all HTTP connections, a step at a time: sources that upload, listeners, pages |
| 1 to 4 relay threads | `src/relays.c` 757-805 | fetch streams of other servers and feed them to sources |
| resolver | `httpserv/netresolv.c` 129-171 | looks names up, calls back |

A connection is served by one request thread at a time, but by another one each
time.  So "an owner", "a listener", "an administrator's request" below is a
sequence of steps that never overlap with each other, and overlap with
everybody else's.

### Components, their state and what makes them correct

| component | state | operations | hard part | correct when |
|---|---|---|---|---|
| reader/writer lock, `system/system.c` 230-300 | `hMtx`, `ulReadLocks` | lock and unlock for reading, for writing | two pieces of state for one lock; writers poll | a writer is alone; readers get in; the count is that of the readers |
| registry of sources, `src/sources.c` | `psSourcesList`, `psSourceGarbageScan`; per source `ulQueryLocks`, `ppsSelf`, `bStop`, `bDetached`, `ulDetachTime` | create, take over, query, release, write, stop, destroy, collect | an unlinked source lives on until its last pin goes; a detached one waits for its owner | nothing in use is freed, nothing unused is kept, a mount point names one source, an owner that comes back in time finds its source |
| the two locks of the registry | list lock, `hmtxQueryLocks` of each source | the same operations, seen as lock calls | they are nested in both orders | the list is not relinked under a walk; every call returns |
| listeners, `src/clients.c`, `src/sources.c` 44-65, 456-572, 683-708 | `psClientsList`, `ulClientsCount`; per listener `psSource`, `ppsSelf`, `psFormatClient`, `hmtxClient` | attach, read, detach, detach by number, unlink all | three threads may detach one listener; the source may end meanwhile | reads have a source to read from; each part is freed once; the list is of live listeners |
| stream buffer, `src/format.c` 215-418 | 32 pages of 8 KB, `ulBufPos`, `ulSyncPos`, `ulBufLastPage`, `ulUsed` of each page; per listener its position | write, read, join, leave | copies without the mutex; positions wrap; pages come back | what a listener still has to read is there and is in order |
| formats, rest of `src/format.c` | history of titles, MP3 metadata blocks; OGG logical streams and their header pages | write, read, new title, join, leave, reset | blocks and streams shared by count between listeners; the number of a title comes round | a listener is told the latest title, and gets a stream it can decode |
| templates, `src/templates.c` | list, counts, access lists | query, release, replace all | replaced while sources use them | a template in use stays; none admits what its configuration would not |
| configuration, `src/control.c` 823-1124, `src/main.c` | the lists, and the file with its two copies | load, change, store | a crash between two renames; sections stored one after another | what was changed is on disk at every moment and comes back |
| relays, `src/relays.c`, `httpserv/httpclnt.c` | list, state of each relay, pool of threads | create, process, reset, destroy, ready | states change from call-backs and pages while a thread processes the relay | each relay is processed by one thread; a lost connection is tried again |
| SHOUTcast server, `src/shoutserv.c` | list of ports with one slot each | accept, authenticate, read, reconfigure | two threads use the slot; reconfiguration | who comes is received, and is in one place |
| connections, `httpserv/requests.c`, `httpserv/httpserv.c` | list of connections, state of each | accept, read, write, mark dead, destroy | a thread scans while another destroys | a connection is served by one thread and closed once |
| listening sockets, `httpserv/netserv.c` | list of sockets | apply a new list, accept | replaced while used; `accept` waits with the list locked | open is what the list says; `accept` does not wait |
| resolver, `httpserv/netresolv.c` | queue | add, remove, answer | removal while the answer is on its way | no call-back for a removed object |
| access lists, fields, masks: `httpserv/netacl.c`, `httpserv/reqfields.c`, `src/match.c` | none of their own | pure functions | boundary cases | the first entry that matches decides |

How they meet: a request opens a resource (`src/ssfileres.c`), which creates a
source or attaches a listener; a relay thread does the former as well; the
stream goes `SourceWrite` -> ring -> `SourceRead`; the pages of `src/control.c`
query sources, walk lists and release; the main loop collects sources whose
owners have not come back; saving a configuration replaces templates, ports and
relays under all of them.

## The modules

| module | models | used by |
|---|---|---|
| `RWMutex` | the operations of the lock, one step each | `RWMutexClients`, `SourceLocks` |
| `RWLock` | abstract: a lock with readers or one writer | `RWMutexClients` |
| `RWMutexClients` | threads that lock for reading and writing for ever | `MCRWMutex`, `RWMutexProofs` |
| `SourceLife` | abstract: what the registry promises about one source's life | `Sources` |
| `Sources` | the registry with its owners, users and collector | `MCSources`, `SourcesProofs` |
| `SourceLocks` | the same operations as calls that take and give back locks | `MCSourceLocks`, `RWMutexProofs` |
| `Listeners` | the listeners of one source, up to its end | `MCListeners`, `ListenersProofs` |
| `BufRing` | the ring of pages, its writer and its readers | `MCBufRing`, `SourcesProofs` |
| `Relays` | the states of relays, of their HTTP clients and of the resolver | `MCRelays`, `RelaysProofs` |
| `RelayPool` | the threads that process relays, and the list of relays | `MCRelayPool`, `RelaysProofs` |
| `Connections` | the request threads, the list of HTTP connections, the exchange on each | `MCConnections`, `ConnectionsProofs` |
| `Ports` | listening sockets, the resolver's queue, SHOUTcast ports | `MCPorts`, `PortsProofs` |
| `Configuration` | templates and relays as sections of a file; crash and restart; who uses templates | `MCConfiguration`, `ConfigurationProofs` |
| `MP3Format` | titles and their way into an MP3 stream | `Formats` |
| `OGGFormat` | the logical streams of an OGG source | `Formats` |
| `Formats` | the format of a source, composed of the two | `MCFormats`, `FormatsProofs` |
| `RWMutexProofs`, `SourcesProofs`, `ListenersProofs`, `RelaysProofs`, `ConnectionsProofs`, `PortsProofs`, `ConfigurationProofs`, `FormatsProofs` | theorems and proofs, each about the module of its name; besides, `RWMutexProofs` about `RWMutexClients` and `SourceLocks`, `SourcesProofs` about `BufRing`, `RelaysProofs` about `RelayPool` | |

`RWMutex` holds operators only, so that two specifications can use the same
lock: `RWMutexClients` alone with it, `SourceLocks` with mutexes around it.
Two components that one proof module is about have names of their own
(`RingSpec`, `CallsSpec`, `PoolSpec` beside `Spec`).
Definitions marked "mutant" are a definition of the model with a plausible bug
put in; nothing uses them but the check that some property notices the bug.

### What a step is

A mutex of the program makes a stretch of code one step; what interleaves is
what happens between two stretches.  Names are those of the code.

* **`Sources`.** A source is its turn of insertion, because new ones go to the
  tail: the list is the set `linked` in increasing order, and `psNext` is its
  next greater member.  `ulQueryLocks` is the count, `ref` the pointer a thread
  holds.  `SourceCreate` is the steps `CreateQuery` (the look-up),
  `CreateSeesDetached` (reads `bDetached`), `CreateTakesOver` or `CreateNew`
  (inserts); `SourceWrite` is `WriteQuery`, `WriteChecked` or `WriteRefused`,
  `WriteDone`.  The collector is `GcScan` under the list's lock, then, with no lock
  held, `GcRead` (it reads `psSourceGarbageScan` for the argument of the next call),
  `GcDestroy`, `GcRead` again and `GcRelease`, with anybody's steps in between: `gcref` is the
  argument, `gcpin` the source it has queried.  A thread that would touch freed memory
  or NULL next takes no step, as what follows is not described; that does happen,
  and `contested`, `kept` and `robbed` (below) say to which sources.
* **`SourceLocks`.** The same calls, but a step is one lock operation; the list starts
  empty, and any source may be removed.  `PageEnd` gives back the lock also when
  `PageBegin` found the list empty and took none.
* **`Listeners`.** `_SourceQuery` and `SourceRelease` are parameterised by
  where they are called; a release that takes the last pin of an unlinked
  source goes through `WipeUnlink`, `WipeNext`, `WipeEnd` (`_SourceDestroy`)
  before its caller goes on, whichever thread it is.
* **`Relays`.** A relay is a record.  `_RelayProcess` and, inside it,
  `HTTPClntProcess` are a composition of stages, each a function from a record
  to the set of records it may leave, in the order of the code; the network
  picks one.  A pass is one step (`Process`), as `ulLockFlag` keeps the other
  threads off; the resolver, the listeners, an administrator and the clock
  (`due`: a time-out has passed since `ulTimeStamp`) step in between.  What
  they do while a pass is half-way is taken to happen before or after it.
  `late` and `orphans` remember an item whose client was freed after the resolver had
  taken it, and a client that was overwritten.
* **`Connections`.** A thread's round is `Begin`, perhaps `Sweep`, `Accept` and
  `Insert` (`ulGetClientSocketsLock` lets one thread do them), `Enter`, and per
  connection `Look` (reads `bDead`), `Try` (takes `ulLockFlag`), `Serve`.  What is
  under the write lock is one step that waits for a moment without a walk; the
  lock itself is `RWMutex`'s business.  `Serve` is a whole `_ConnectionRead` or
  `_ConnectionWrite`, since nobody else touches a connection whose flag is set: a
  function from the connection's record to the outcomes the socket and the
  request's object may give it.  An object is its kind, and `CbNew`, `CbWrite`,
  `CbEnd`, `CbRead` say what the methods of that kind return; a response code is
  its class; `acBuf` is empty or not (`pending`, `head`), a length zero or not
  (`more`).  Time is the choice of `Sweep` which of the connections with a
  time-out have run out of it.  What `_ConnectionNew` does not set keeps what the
  last user of the memory left, or what `malloc` returned.
* **`RelayPool`.** What a thread does to a relay is `StartProcess` and `Processed`, the
  taking and the giving back of `ulLockFlag`; the rest is how it counts itself in
  and out (`CountRead`, `CountWrite`: the load and the store of an unprotected
  `ulThreadsCount++`, which is where "raced" comes from), decides at the head of
  its loop whether threads are missing or in surplus, and walks.  Who has the
  list's lock follows from where everybody is (`NoReader`, `NoWriter`).
* **`Ports`.** What is under one mutex is a step, but each `accept` is its own,
  since it may wait with the list locked.  A socket is a number, and a number may
  be used again.  `Through` takes a list item by item, as the loops of
  `NetServBindListApply` (`Rebuilt`) and of `CBResolv` (`Remade`) do: an item's
  `_MakeServSock` fails when its port is in use or no number is free.  `Listen` and `LeftOver` are the two halves of
  `NetServBindListApply`: the new list, then what is left of the old one.
* **`Configuration`.** A step is a stretch under the lock of one list, or one call
  of the file system.  `Crash` may come between any two; `Start` reads what is
  there.  `Backup` and `Replaced` are the two `rename`s.
* **`MP3Format`, `OGGFormat`.** A step is what happens between two looks at what
  the listeners share.  A title is its turn.  `ulMetaIdx` is read in `MetaLook`,
  `MetaEnd` and `MetaNote`, as the code does.  What a listener's player makes of
  the bytes is kept beside it (`player`).  The ring is `BufRing`'s subject; here it
  is the sequence of all pages stored.  `VecDel` does what `memcpy` with that
  count does.
* **`BufRing`.** `_BufWrite` takes its mutex in `WriteBegin` and stores a page, or
  what is left of one, in each `WritePage`; the mutex is free when nothing is
  left to store (`Unlocked`).  `_BufRead` is its look at the position, one `Copy`
  per page, and the move of its count.  The copies are made without the mutex:
  they come between the pages of a write, and those between the copies.
  Positions are absolute and `Bits` makes the code's `ULONG` of them, so that
  every comparison is the code's, wrap included.  The bytes need no variable:
  which byte a page holds follows from the writer's position.

## The runs

| run | instance | shows |
|---|---|---|
| `rwmutex` | 4 threads | exact count, refinement of `RWLock` (a writer is alone), readers get in, writers get in once readers stop coming |
| `sources_stop` | 2 sources, 2 mount points of which one has a keep-alive period, 1 owner, 1 user that stops sources and draws the page of one, the collector | exact pins, no leak, refinement of `SourceLife`, a stopped source is freed in the end; each but for the sources with a pin that is kept or robbed |
| `sources_all` | 2 sources, 1 mount point with a keep-alive period, 2 owners, 1 user that stops sources, the collector | nothing is freed under a thread and a fed source is in the list, but for contested and robbed ones; the list leads to no freed memory and an unlinked source is never pinned again, without exception; an owner finds its source again, and mount points are unique, while nobody stops, no period runs out and owners come one after the other |
| `locks_walks` | 3 threads, 2 sources, a list that starts empty | no relinking under a walk, but for the walks whose count a page of an empty list gave back; a query returns, unless it meets a removal of the very source it found |
| `listeners` | 3 listeners, limit 2, 1 administrator, 1 visitor, end of the source | safe reads, exact count, one destruction, live list |
| `ring` | 3 pages of 2 bytes, ULONG of 12 values, 2 listeners, both formats | what a listener has to read is kept and in order |
| `formats` | MP3: 2 listeners, 4 titles, a history of 3; OGG: 2 listeners, 2 streams at once, 6 pages | blocks and streams live as long as they are held; what comes can be decoded; the latest title is told |
| `relays` | 4 kinds of relay one after the other, 2 administrators | the pointers a state relies on are set, one connection at a time, a relay in use is not freed, no listeners on a dead relay, no attempt lasts for ever, no reading for nobody |
| `pool` | 2 relays, 2 threads, 2 administrators, the end of the server | a relay has one thread at a time and is not freed under it; it is processed again and again; the end of the pool returns |
| `connections` | 2 threads, memory for 1 connection at a time, 7 kinds of request | cursors, objects and sockets are safe; time-outs spare requests; answers end visibly; posts are applied whole |
| `ports` | 2 administrators, 2 threads, 2 connections, 4 lists, a name to be looked up, a relay's client | the open sockets are those of the list; nobody waits with the list locked; connections are received and in one place; no client that is gone is called back |
| `config` | 1 administrator, 2 changes, 2 users of templates, crashes and restarts | what was changed is in a file at every moment, unless a rename fails or the program dies between two of them; templates decide as some configuration says; pins are exact |

Each module states its variables' types as `TypeOK`.  It is a theorem of the lock,
the registry, the listeners, the relays and their pool, the connections, the
ports and the configuration; elsewhere it holds on the instances above.  It says
little beyond what the other properties say, so that no run lists it.

### Bounds

Every bound is a constant.  `MaxSources` (2) is how many sources are ever
allocated: two are a source to collect and the one the cursor moves to, or two
generations at one mount point; whatever needs more is left to the proofs, which
are for any number.  `MaxLocks` stops the status page from adding pins for ever.  `MaxCalls`
bounds the operations of a thread in `SourceLocks`; three are enough for each
thread to meet each operation of another one before and after its own.
`BufRing` needs more pages than two for "oldest", "current" and "between", a
page of more than a byte for the middle of a page, a `Width` of two rings so
that a lap and a wrap are different events, and `MaxPos` past both; `MaxUsed`
keeps listeners that come and go at a stale position from counting for ever
(a count that goes round a ULONG is no longer one).
`ring` follows a behaviour until a second of the events in `edge`.

`Relays` has four relays that differ in every respect that is a constant;
`MaxLinked` lets one of them live at a time (they share nothing but the resolver
and the administrators), and a removed relay leaves its late answer behind for
the next one.  One listener is enough for `MaxListeners`: only zero and not
zero differ.

`connections` has memory for one connection: connections share nothing but the
list, and two threads meet on one as they would on any.  That a walk goes from
one to the next, and that one is destroyed beside another, has been checked
with two connections and one kind of request, as far as a search of twelve
million states goes; it is not a run of the project.  A thread accepts one
socket a time where the code takes up to 16, one after the other.

`pool` has `PerThread` 1 and two relays, so that a second thread comes and goes;
`Width` 4 makes a count that falls below zero large, as a ULONG does.  `ports`
has six numbers for sockets, more than are ever open at once, and again and
again the least free one is taken; its four lists keep, move, double and drop a
bind; `MaxApplies` 2 lets two replacements overlap.  `config` either restarts or
looks templates up (`MCBounds`): both at once, or a second administrator, are
beyond a search, and what they would add is the overlap that the properties
except (it can be reached: `Loaded` overlaps the administrator's change).

`formats` has a history of three places for four titles, so that the index comes
round; blocks of two units of two bytes, so that a title may need none, one or
too many; an interval of two bytes and reads of two, which fall on either side
of a boundary.  The code has room for
32 streams; `MaxStreams` is 2 here, and any number in `FormatsProofs`: two are
enough for a vector of which one of several is removed.
Like `ring` it follows a behaviour to the end of the first event that its
properties except (`NoEdge`).

`CHECK_DEADLOCK FALSE` is said where the system really stops: calls, changes and
bytes are bounded (`SourceLocks`, `BufRing`, `Formats`, `Ports`, `Configuration`),
listeners come once (`Listeners`), the server is stopped (`Connections`,
`RelayPool`), or a thread may be about to crash (`sources_all`, `sources_stop`).

### Fairness

`RWMutexClients` and `Sources` assume weak fairness of each thread's own next
step: the operating systems schedule preemptively and the threads have equal
priority.  Where a step waits for a mutex that others take again and again it
is strong fairness: the systems queue the waiters of a mutex.  A writer that
polls (`SysRWMutexLockWrite`, 20 ms) is not queued, and gets in only once the
readers stop coming: that is the second half of `EverybodyGetsIn`.  In `Sources` an owner
is assumed to go on writing until it is told that the source is stopped, which
is how the request threads serve an upload.  `Relays` assumes that a relay thread
visits every relay again and again and that time passes; nothing of the
network, the resolver and the listeners, so that `MovesOn` holds whatever those
do.  `RelayPool` assumes that threads run, that who waits for the list's lock to
read is queued, and that a call that has begun goes on; nobody has to call, and a
thread that waits to write may wait for ever.

### What the properties say where the code is at fault

Some modules model code with known races and say how far it can be trusted, so
that a run shows what holds and where it ends.  The events below do happen on the
instance of the run: the properties except them because they fail after them.

* `Sources` keeps three sets of sources.  `contested`: one that was taken from its
  owner, because a take-over came too late (`SourceCreate` reads `bDetached`,
  `src/sources.c` 152, and clears it, 154, with no look at whether the source is
  still linked or detached: a stop, 348, or the collector has unlinked it, or two
  owners take one source), or because the collector destroys whatever its cursor
  is on when it reads it without the lock (123).  `kept`: one with a pin that nobody
  gives back: the page of one source queries it twice and releases it once
  (`src/control.c` 1177, 1204, 1208), and the collector keeps the pin of every source
  it collects, since `SourceDestroy` has moved the cursor past it (304) when 124
  reads it.  `robbed`: the source the cursor is on then, of which it gives back a pin
  that is another thread's, who may find it freed.  `UseAlive`, `OwnedLinked`,
  `PinsCounted`, `Destroyed`, `LifePromise` and `StopFrees` each name those they except;
  `ScanAlive` and `UnlinkedOnlyDrains` need none.  The default template has a keep-alive
  period of 5 s (`src/templates.c` 39, 121), so that all of it can happen as the program
  comes.
* `SourceLocks` counts in `unpaired` the walks that are not counted in the lock any
  more.  `SourceQueryList` takes no lock when the list is empty, and its callers
  (`src/control.c` 1151-1159, `src/ssfileres.c` 933-963) call `SourceReleaseList` (623-628)
  all the same: if a source is inserted and walked meanwhile, that reader's
  count is given back, and a writer may relink under it.
* `Listeners` keeps the history `stopped` (picked by an administrator) and
  `early` (stopped before `ClientCreate` was over).  Reads are safe for every
  listener outside `early`; one destruction holds outside `stopped`; the list is
  of live listeners as long as the source is linked, and not after: a listener
  that leaves in that window stays in the list (`src/sources.c` 543).
* `BufRing` keeps in `edge` which of three events has happened: `overtaken` (the
  writer reaches the page on which a copy in progress began), `reset` (an OGG
  listener stands at a page's first byte before the writer starts on it, and its
  count is set to zero) and `wrapped` (a position equal to `(ULONG)(-1)`, or a
  ULONG's worth of data written past a listener).  Counts and memory (`DataKept`)
  are exact until one of them; order (`NotTorn`) holds as long as no more than one
  page is written during one copy; `OneStretch` holds always.
* `MP3Format` keeps in `mp3edge`: `raced` (a title is set between two of the three
  reads of `ulMetaIdx`, `src/format.c` 434, 469 and 698: the block or the listener
  gets a newer number than its title, and whoever is served by that block misses the
  new one); `lapped` (METADATA_ITEMS titles later the number is the old one again);
  `long` (a title of more than 224 bytes: the length byte, 472, says less than
  the block is).  `OGGFormat`: `mixed` (one of several streams leaves a vector:
  `__OGGStreamVecDel`, 846, counts entries, less one, as bytes; removing the
  first drops the second instead and leaves a pointer to freed memory, removing
  the last copies 2^32-1 bytes); `unplaced` (a listener that
  joins before any page of data is stored gets its place with the first one that is:
  headers completed after it joined are behind that place);
  `parted` (a stream that ends while a listener joins: its pages come without its
  headers); and a stream that ends before its headers are complete has its last
  page stored all the same.
* `Relays` says one connection at a time of relays that nobody stops or resets:
  both leave IDLE with a client behind (`src/relays.c` 430 and 660), and the next
  pass overwrites it.  `ErrorsDropListeners` excludes m3u locations, where
  `psURLFile` keeps the source alive at the end of a pass.
* `RelayPool` keeps: `missed` (a relay is added when the last thread has decided to
  end, 777 against 598: nobody processes it until another is added); `twice`
  (`RelayDestroy` of a relay that is not in the list any more counts it out once more,
  645); `raced` (`ulThreadsCount` is changed by two threads at once, 762);
  `failed` (a thread could not be created: `_StartThread`, 247, then waits for the
  count to change, with the lock it was called under, and does not wait when it
  could: the test seems to be the wrong way round); `late` (a relay is added after
  `RelayDone` has removed them all).  And `Crossed`: `RelayRemoveAll` and `RelayDestroy` wait for each other's lock (570, 632).
* `Ports` keeps eight events, named at `Excuses`: `inuse` (a new socket is made,
  208, before an old one on its port is closed, 213, and nobody tries again),
  `doubled` (an item is kept that has no socket and waits for no name, because its port
  was given twice or could not be had before: it is never ready), `unknown`,
  `reused` and `left` (the number in the set of `select` belongs to another socket
  by now, or the connection has gone: `accept`, 295, waits with `hmtxBindList`
  locked), `overlap` (two administrators: sockets of one configuration, SHOUTcast
  ports of the other), `taken` (a second connection to a SHOUTcast port before
  `ShoutLoop` has emptied its slot is never closed), `dying` (a client is
  destroyed while its name is looked up, and called back).
* `Configuration` keeps: `overlap` (two threads change or store at once: the file may be
  a mixture), `failed`, `unnamed` (a `rename` fails; what the last one, `src/control.c`
  1114, returns is not looked at, and the call succeeds with no file under the
  name), `stopped` (a stop that meets a change:
  `CtrlDone` frees the name of the file, `RelayDone` empties the list that is
  being stored, `src/main.c` 112-114) and `crashed` (between the two renames, `src/control.c` 1110-1114:
  there is no file, the next start takes the defaults, and its first store removes
  both copies).  A relay queries its template at every attempt and releases only the
  last one (`src/relays.c` 218, 368): those are in `leaked`.

Disagreements of code and intent that no run ends in, as they follow from reading
or from a look at the state graph:

* a source waits without an owner; one that reconnects has pinned it and read
  `bDetached` (`src/sources.c` 152) when a stop unlinks it at once, because
  `bDetached` is set (348-349); the owner's release frees it and the owner keeps
  the pointer, against the comment at `src/sources.c` 423.  Without `contested`
  `UseAlive` is violated in `Sources`;
* the collector passes `psSourceGarbageScan` to `SourceDestroy` after it has given
  back the lock under which it chose that source (122-124): if somebody removes it
  in between, the cursor is NULL, which `SourceDestroy` follows (298), or the next
  source, which is destroyed although it has an owner, or is freed by its own
  thread before `SourceDestroy` has its mutex.  `gc = "destroy" => Alive(gcref)` is violated;
* a page drawn of an empty list gives back a lock it has not taken (623-628): without
  `unpaired` `WalksUndisturbed` is violated in `SourceLocks`;
* in `Connections`, with the exceptions its properties make:
  * a connection marked dead between `Look` and `Try` is served again, and a
    configuration sent until the connection closes is applied twice
    (`httpserv/requests.c` 909-910, 266);
  * an answer of a log, or of a file that has shrunk, over HTTP/1.0 may end when
    nothing is left to send, and then nobody notices (735, 774);
  * the `Content-Length` of a request stays in force for an answer that has none
    (584-589): with zero a stream over HTTP/1.0 ends, unseen, before it begins;
  * the answer to SOURCE sets `bChunked` from the version of the client (591): a
    source over HTTP/1.1 that sends no chunks is closed;
  * a SOURCE that has sent its `Content-Length` is told nothing, against the
    comment at 315 ("rcRespCode must be returned here (not NULL)!");
  * a POST whose first packet has no `=` is answered without being applied
    (`src/ssfileres.c` 731-739), and the rest of it is read as the next request;
    one of length zero, or whose last chunk's header ends a packet (229-230), is
    not answered;
  * an object without `FmRead`, and a stream that has ended, leave the count of
    bytes read as it was (`httpserv/fileres.c` 810, `src/ssfileres.c` 420): the
    client is sent what the buffer holds;
* the page of one source pins it twice and releases it once
  (`src/control.c` 1177, 1204, 1208), and a source whose keep-alive period has run out
  is unlinked and never freed, as its pin of 117 is given back for the source
  the cursor has moved to, if for any (`src/sources.c` 124; `doc/ch03s04.html` 50-54): without
  `kept` `Destroyed` is violated in `Sources`, with `Viewers` empty or not;
* two connections for one free mount point insert two sources (`src/sources.c`
  149, 286): without the last part of `Undisturbed` `SurvivesDisconnect` is violated;
* a query that walks and a removal wait for each other's lock: `SourceDestroy`
  waits for the list with `hmtxQueryLocks` in its hands (298, 303), `SourceQuery`
  and `SourceQueryById` for `hmtxQueryLocks` with the list locked (365, 371):
  `DestroyCompletes` is violated in `SourceLocks`;
* an m3u file whose length is known is fetched and never used
  (`httpserv/httpclnt.c` 655, `src/relays.c` 85-94; `doc/ch03s05.html` 18):
  `PlaylistTaken` is violated in `Relays`, always, so that no race is needed;
* a relay that looks for its template between `TemplRemoveAll` and the first
  `TemplReady` fails for good;
* names are looked up in the reverse of the order in which they were asked for, and
  the address found for an interface is not the one that is bound (`httpserv/netserv.c` 93);
* `_MP3Done` leaves the format's block of metadata allocated (507), and a title
  of more than 240 bytes does not fit the block made for it (465); `MP3Format`
  keeps to shorter ones;
* a listener that leaves reads `psSource` without a mutex while the last release
  of the source may free it (`src/clients.c` 60): `UnlinkedIsPrivate` is
  violated in `Listeners`;
* a relay that is stopped while it transmits, or reset as it comes back by itself,
  loses its client and keeps the connection open: `NoneLeftOpen` is violated in
  `Relays`, against `doc/ch03s05.html` 24-25;
* the resolver calls back for a client that is gone (`httpserv/netresolv.c` 155,
  which looks again only for items still in the queue): `AnswersTheLiving`
  is violated in `Relays`.

## The proofs

TLAPS checks the theorems for every value of the constants that satisfies the
assumptions of the module: any number of sources, listeners, relays, threads,
connections, administrators, names, ports and changes.

What the assumptions say beyond "a constant has its type" and "a value that stands
for nothing is not one of the others": threads, administrators and users of
templates are finitely many, since pins and threads are counted, and fewer
threads than a ULONG can count (`RelayPoolAssumption`); listeners are finitely many
and fewer than a ULONG can count, and a ULONG's worth of bytes is some whole number
of rings, more than one, as 2^32 is of 2^18 (`BufRingAssumption`); and titles fit the
block made for them (`MP3Assumption`).

None of the properties is inductive.  Each proof has a conjunction of named parts
that is; TLC checked it on the instance of the run first.  There is one lemma
per step, and under it one step per part the step may disturb.

* **Lock** (`RWMutexProofs`).  `Inductive`: the mutex has an owner only in the phase
  that took it, and the count is the cardinality of the readers' phases; from it
  `Typed`, `WriterIsAlone`, `CountIsExact`, and `Implements`, the refinement of
  `RWLock` (initial state, then each action to a step or a stutter).
* **Lock of the registry's list** (`RWMutexProofs`, second part): `WalksStayUndisturbed`
  (`WalksUndisturbed` of `SourceLocks`), for a list that may be empty and pages drawn at any
  time.  `CallsInv`: the count and `unpaired` together are the number of walks, and the
  mutex belongs to whoever relinks.  Whoever relinks had seen a count of zero, so
  that the walks that are left are those in `unpaired`; nobody new can come to walk
  while the mutex is taken.
* **Registry** (`SourcesProofs`), for every value of the constants: keep-alive periods that
  run out or not, stops, status pages and the collector included.  `Typed`,
  `WalksAreSafe` (`ScanAlive`) and `PinsDrain` (`UnlinkedOnlyDrains`) rest on `ListInv`: the list and the cursor lead
  to what is in memory, and what the collector has pinned is what it read, unless
  somebody unlinked it (`GcPlace`).  `NothingInUseIsFreed` (`UseAlive`), `FedSourcesAreFound`
  (`OwnedLinked`), `CountCoversPins` (`PinsCounted`), `NothingLeaks` (`Destroyed`) and
  `KeepsLifePromise` (`LifePromise`, the refinement of `SourceLife`) rest on `IInv`, which
  adds three parts.  `OwnerInv`: an owner's source is linked, not detached and its
  alone, unless it is contested.  `DetachedKnown`: what is detached was created.  `PinInv`: the count
  is at least the number of those who have the source pinned unless it was
  robbed, at most that unless a pin was kept, and more than that if one was (`KeptCounted`); what is
  pinned is in memory unless it was robbed (`PinnedAlive`); and an unlinked source
  with a count of zero is freed (`Draining`).
* **Listeners** (`ListenersProofs`): `ReadersAreSafe` (`ReadsAreSafe`), `ListOfTheLiving`
  (`ListHolds`), `ListenersTyped`.  The pins of the source have to be counted
  exactly: one for each request, a second for each that is being attached or
  detached (`PinsCounted`).  It follows that who wipes the source is alone with
  it (`EndSound`), and what the wiping leaves is said by the place of its cursor:
  the listeners before it have lost their source, those behind it still have
  their format's part (`CursorSound`).  `MemberSound` and `FormatSound` say for each
  place of a listener's request whether it is listed and what it owns.
* **Relays** (`RelaysProofs`): `FollowedPointersAreSet` (`PointersAreSet`),
  `NoFeederNoSource` (`ErrorsDropListeners`), `RelaysTyped`.  A pass is a composition of
  stages, and what holds between two passes does not hold inside one.  So
  there are three predicates of a relay: `Sane` holds throughout, `Busy` inside
  `HTTPClntProcess`, `AtRest` between two passes; each stage has a lemma that takes
  one to the next.
* **Pool** (`RelaysProofs`, second part): `RelaysInUseStay` (`UseIsSafe`), `PoolTyped`.  The part
  about processing is inductive with the list's soundness alone, as who walks keeps
  writers out (`NoReader`); that nothing found is freed needs the pins counted
  exactly; that `RelayDone` leaves no thread behind needs the count of threads, which
  is theirs until two count at once.
* **Connections** (`ConnectionsProofs`): `OpenedAndClosed` (`Balanced`),
  `PostsAppliedWhole` (`AppliedWhole`), `AnswersEnd` (`EndsSeen`), and the action properties
  `RequestsServed` (`ServedToTheEnd`) and `KeptIfDelimited` (`KeptIsDelimited`);
  `ConnectionsTyped`.  A call of `_ConnectionRead` or `_ConnectionWrite` is a function from a
  record to the set of its outcomes; lemmas about its parts show that every outcome
  of a sound record is sound (`Sound`: the buffer, the object, the length and the
  framing fit together).  The list is without repetition (`ListSound`), so that
  to destroy a set of connections closes as many sockets as the list loses.
* **Ports** (`PortsProofs`): `ListensAsConfigured` (`Listening`), `AcceptsWhatItSaw`
  (`AcceptReturns`), `OneDoorEach` (`Doors`), `CallsReachTheLiving` (`CallsTheLiving`),
  `PortsTyped`.  A new list is made item by item; `Made` says what one item does to the
  work at hand, and `ThroughRebuilt` and `ThroughRemade` carry that through a list of any
  length.  The library's induction theorems cannot be used, as they take an operator;
  `Climb` does induction on `0..n` for the set of numbers up to which something holds,
  from the well-founded order of numbers.  `WantedInv` (an item
  without socket has an excuse or a look-up under way), `WaitInv` and `SlotsInv` (a
  connection waits once, at one place) and `GivingInv` (one configuration is being
  applied, unless two overlap) make the properties inductive.
* **Configuration** (`ConfigurationProofs`): `HeldTemplatesLive` (`HeldTemplates`),
  `TemplatesDecide` (`Decides`), `ChangesLast` (`Durable`), `ConfigurationTyped`.  Pins: an
  item still to be added is not known yet and added once (`AddedOnce`), so that a
  count always starts at zero.  Decisions: the list in memory is always the beginning
  of a whole one, and what its changer has still to do completes it or begins with
  clearing it (`Filling`, `Clearing`).  Files: `Phase` says for each place in
  `CtrlStoreConfig` and in the start of the program what is in which file and what has
  been loaded of it.

* **Ring** (`SourcesProofs`, part three): `MemoryIsOneStretch` (`OneStretch`),
  `ReadersDataIsKept` (`DataKept`), `CopiesAreNotTorn` (`NotTorn`), `RingTypesHold`.
  The code computes modulo the ring and modulo a ULONG; the argument counts the
  pages of the stream from its start (`Number`), where "older" is "less".  A first
  part says what quotients and remainders do (`DivUnique`, `ModApart`, `ModNext`,
  `PageIs`, `Distances`: how far behind in bytes is how far behind in pages).  Then
  `RingInv`: there is an oldest page number `f` such that the pages with memory are
  those from `f` to the latest (`Stretch`), no page on which a listener stands is
  older than `f` (`Held`), a listener's position, the page its read began on
  and what it had seen fit together (`ReaderSound`), and a count is the number of
  listeners on the page (`Counted`), except on the page the writer starts on next.
  `Held` is why `DataKept` is true and why it needs `Counted`: the writer frees only pages
  whose count is zero.  `PageBegins` is the writer's part of it, `WriterCounted` the
  place where two of the three events (`overtaken`, `reset`) would break it.
* **Formats** (`FormatsProofs`): `SharedByCountHolds` (`SharedByCount`), `DecodableHolds`
  (`Decodable`), `LatestTitleHolds` (`LatestTitle`, an action property).  MP3: a block's count is the
  number of listeners that have it, and one for the format (`BlocksCounted`); what a
  listener's player still expects is what the listener still counts down
  (`InStep`); the history holds the last titles, each at its place, so that equal
  numbers mean equal titles until one is lapped (`HistorySound`, `Recent`,
  `PlaceApart`).  OGG: a stream's count is the number of vectors it is in
  (`StreamsCounted`); no other page of a stream is stored before it has all its headers
  (`WriterSound`), and for each place of a listener's request there is a predicate that
  says which streams it knows, which are in its vector, and whose headers are still
  ahead of its position (`JoinSound`, `IdleSound`, `HeadersFirst`).  `WriterMoves` says what of the
  writer's steps a listener can notice, `ListenerBecomes` what of a listener's the
  others can, so that each step is looked at once.

Only model-checked are the temporal properties, which need fairness and are beyond
the prover: `StopFrees`, `SurvivesDisconnect`, `EverybodyGetsIn`, `QueryReturns`,
`MovesOn`, `Attended` and `StopReturns`.  Every other property of a run is a theorem.

## The plan

1. Done: lock, registry, its locks, listeners, ring, formats, relays and their
   pool, connections, ports with the resolver, configuration with templates.
2. Done: theorems for every safety and action property of the runs.
3. Left: the order in which the parts are shut down, and the metadata inside a
   relayed stream.

## Not modelled

Formatting of pages, logs and headers; a negative `Content-Length`
(`httpserv/requests.c` 507), which is not among the framings of `Connections`; files on disk; the XML inside the
configuration file; libxml2 and iconv, which are vendored and are most of the
repository's lines; calls of the operating systems below `system.c`.  The fields a
source collects for its listeners are data that no property tells apart.
`NetAclTest`, byte ranges and the list of request fields are computations of one
thread on data of its own; `match.c` is a third party's recursive matcher.  A unit
test reaches all of these; nothing in them interleaves, waits or fails half-way.
A thread that stays with a connection as long as its socket takes bytes
(`httpserv/requests.c` 771) keeps sweeping and accepting from the others: how
long is a matter of time, which the models do not measure.
