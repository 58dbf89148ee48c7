# A TLA+ model of COW

COW is an HTTP and SOCKS5 proxy that decides for every site whether to go there
directly or through a parent proxy, and learns from failures.  This directory
holds TLA+ modules for its concurrent and failure-handling parts, the TLC
configurations that check them on small instances, and TLAPS proofs for all
instances.  `PROJECT.json` maps every definition to the lines it models.

Run from this directory:

    tlc -workers 2 -config MCServe.cfg MCServe
    tlapm ConnPoolProofs.tla

Each component `M` has a module `M.tla`, an `MCM.tla` with its settings, one or
more `MCM*.cfg`, and its theorems in `MProofs.tla`.

## 1. The system

| component | source | state it keeps | operations |
|---|---|---|---|
| server connection pool | `conn_pool.go` | map hostPort → buffered channel, one channel for multiplexed parents | `Get`, `Put`, `CloseAll`, a cleanup goroutine per channel |
| HTTP request loop | `proxy.go`, `http.go`, `util.go` | one goroutine per client: the request with its try count, state and kept bytes; the server connection in use | `serve`, `getServerConn`, `doRequest`, `readResponse`, `shouldRetry` |
| CONNECT tunnels | `proxy.go` | two copying goroutines and a watchdog per tunnel | `doConnect`, `copyClient2Server`, `copyServer2Client` |
| site statistics | `sitestat.go`, `site_*.go` | per host counters of direct and blocked visits, temporary blocks, a saved file | `GetVisitCnt`, `DirectVisit`, `BlockedVisit`, `TempBlocked`, `store` |
| parent proxies | `parent_proxy.go` | list of parents, failure counts, latencies, health | `connect` by order, hash, latency or health probe |
| HTTP plugin writer | `plugin.go` | slots, queue of exchanges, a worker, a database | `begin`, `discard`, `submit`, `close`, `run` |
| SOCKS5 server | `socks.go` | per client handshake; UDP association with three goroutines | handshake, CONNECT, UDP relay |
| client authentication | `auth.go`, `timeoutset.go` | users, authenticated addresses with expiry, nonces | `Authenticate`, `TimeoutSet.add/has` |
| capture | `capture.go` | certificates, capture files | TLS interception with its own request loop |
| timeout estimation | `estimate_timeout.go` | global timeouts | a probe every minute |
| listeners and shutdown | `proxy.go`, `main*.go` | listeners, quit channel | `Serve`, `sigHandler`, relaunch |
| parsing, PAC, config, log, error pages, ssh | others | – | conversions and I/O |

How they interact.  A listener starts a goroutine per client, which runs
`serve`.  For each request `serve` asks `SiteStat` what is known of the host,
asks the pool for an idle connection (`Get`), or else connects directly or
through a parent; it sends the request, passes the response on, reports the
outcome to `SiteStat`, and gives the connection back (`Put`).  Requests of one
kind are recorded through the plugin writer, whose worker runs beside the
servers.  When `accept` runs out of file descriptors a listener empties the pool
(`CloseAll`).  At the end `main` waits for the listeners, not for the clients,
and closes the plugin writer.

What is hard, and what makes each part correct:

- **Pool**: clients, cleanup goroutines and `CloseAll` work on the same channels
  while the map forgets channels and makes new ones.  A connection must have one
  owner, must not be used after it is closed, must fit the request that gets it,
  and must not be forgotten while open.
- **Request loop**: every read and write may fail, and a failed request may be
  tried again from the bytes kept.  The client must get one answer per request;
  the server must get the whole body once; the client's stream must stay in
  step; the site lists must be respected; retries must end.
- **Tunnels**: the two directions and the watchdog end in any order, and a retry
  must neither lose nor repeat the client's bytes.
- **Statistics**: counters are updated without a lock by all clients, hosts are
  created by two requests at once, and the file is replaced in steps between
  which the process may end.  Counters must recover, a site marked as blocked
  must stay out of the PAC file, and what was saved must survive.
- **Parent proxies**: health and latency are measured while clients fail and
  while other goroutines measure.  A call must try every parent before it fails,
  and what is out of date when it is applied must not last.
- **Plugin writer**: a slot is taken in one goroutine and given back in another;
  `close` runs while servers still submit.
- **SOCKS5**: both ends must agree where the handshake ends, and a UDP
  association has three goroutines, each of which may end it.
- **Authentication**: several goroutines read, delete and renew the same entry.

The hazards, each at its line, are listed in `PROJECT.json`.

## 2. Modules

### ConnPool (checked and proved)

One step is one critical section of the pool's lock or one channel operation.

| TLA+ | code |
|---|---|
| `idleConn`, `queue`, `MuxChan` | `ConnPool.idleConn`, the channels, `muxConn` |
| `open`, `fresh` | connections not closed; `willCloseOn` in the future |
| `pc`, `chan`, `hand`, `want`, `asDirect`, `left`, `todo` | local variables of the goroutines |
| `GetLookup`, `GetRecv`, `GetEmpty` | `Get`, `getConnFromChan` |
| `PutLookup`, `PutCreate`, `PutStart`, `PutSend` | `Put`, `putConnToChan` |
| `Scan…` | one iteration of `closeServerConn`, by a cleanup or by `CloseAll` |
| `Cleaner…`, `CloseAll…` | `closeStaleServerConn`, `CloseAll` |
| `Dial`, `DialFails`, `Discard`, `Expire` | what clients and time do around the pool |

A cleanup goroutine is named by its channel.  Identities of connections and
channels are used again once nothing refers to them, so that the runs are not
limited to a number of requests.  `TimelyPut` says that a `Put` which has
looked a channel up sends to it before the two-second wait at the end of
that channel's cleanup is over; the code relies on this ("should be no other
goroutines holding reference").  `NoLeak` is stated under it, the other
properties do not need it.

### Serve (checked and proved)

One client connection.  The client's bytes are a sequence of units, a head or
one write of a body; a unit is known by its position, so that what is sent
twice, skipped or left unread shows.  The site is what `SiteStat` says of it:
the list it is on, the temporary block, and whether its counters call it
blocked.  `Settings` holds the client's stream, its framing, the
configuration, the kind of site, and the failures that may happen; Init chooses
one, and a run names the set.  Failures: dialling (`dial`), writing to
the server (`serverWrite`), end of file before a response (`serverEOF`), a reset
or timeout taken as blocking (`blocking`), another error (`serverError`), the
end of the server's stream inside a body (`cutBody`), and a client that goes away
early (`clientClose`).

`ParseRequest … NoRequest` read a request; `PoolHit`, `Connect`, `ConnectFails`
are `getServerConn`; `SkipUnit`, `SkipFails` skip a body that cannot be sent;
`SendHeader … BodyReadFails` are `doRequest` with `sendRequestBody` and the
`serverWriter` that keeps a copy; `ReadStatusLine … Upgrade` are `readResponse`.
The status line is a step of its own, as `parseResponse` sets a read deadline
only for it, and only where the server may be fake.  The operators `shouldRetry`, `GiveUp` and `ErrorPage` are the three ways in which
`serve` leaves a try, each with the closing of the connection.

### IdlePool and ConnPoolRefines (checked and proved)

`IdlePool` is what the rest of the program may assume of the pool: every
connection belongs to a client, to the pool, or is closed; `Get` takes an idle
one that can serve the request, `Put` gives it back or closes it, and the pool
may close any idle one at any time.  `ConnPoolRefines` maps `ConnPool` to it: an
open connection in a client's hand is that client's; one in a channel that a
goroutine still looks after, or in a cleanup's hand, is idle; any other open
connection is `Lost`, a state that `IdlePool` does not have.  That `ConnPool`
implements `IdlePool` therefore says at once that nothing is lost, shared,
closed twice or given to the wrong request.

### PluginQueue (checked and proved)

The slots are a counter, as the channel holds only empty structs; `live` are the
exchanges whose `released` is false; `plugin`, `jobs` and `job` are who holds
them.  `submit` is split where another goroutine could come in: taking the
read lock (`SubmitLock`), the look at the flag (`SubmitCheck`), the send
(`SubmitSend`), the discard (`SubmitDrop`).  `CanRLock` is Go's rule that a
waiting writer keeps new readers out.

### Tunnel (checked and proved)

One CONNECT request, or one SOCKS5 client, through all its tries.

| TLA+ | code |
|---|---|
| `pc` | the goroutine of `serve`/`serveSocks`: `doConnect`, `doSocksConnect`, `tunnel`, then `copyServer2Client` |
| `cpc` | `copyClient2Server` |
| `wd[t]` | the `tunnelWatchdog` of try `t`, which decides and closes in separate steps |
| `raw`, `partial`, `buffered`, `tryCnt`, `state` | fields of `Request`, and whether `bufRd` still exists |
| `open`, `conn`, `sv` | server connections not closed, the one in use, its kind and state |
| `Connect`, `ConnectFails` | `getServerConn`/`connectServer`, `createSocksServerConn` |
| `StartTunnel`, `StartFails`, `StartGivesUp` | up to the start of the copying; the two early returns |
| `ReadServer … ReadEnds`, `WaitRetry`, `WaitEnd` | `copyServer2Client` and what its caller does after it |
| `ResendRaw … CloseServer` | `copyClient2Server` with the `serverWriter` and the deferred closes |

The client's units are numbered, so that what each server gets can be compared
with what the client sent; a write to a peer that has gone may still succeed.

### ParentPool (checked and proved)

`req[r]` is one call of `connect` with the slice it walks, the parents it has
skipped and tried; `fail` are the failure counts of `ParentWithFail`, `list` the
slice of the latency pool, `copy` the one being measured, `available`, `flag`
and `lat` the HTTP pool, `probe[g]` the results that goroutine `g` has so far in
`updateAvailable`.  A dial and the note of its failure are separate steps, as
are the copy, the measurements and the replacement of the list.  Whether a
parent answers may change between any two steps.  `Sorted` puts every entry at
the place that the number of entries before it gives (`Place`, `Arrange`), and
`Without` leaves one out of the HTTP pool's list.

### SiteStat (checked and proved)

`heap` are the `VisitCnt` objects, named by site and creator so that two for one
host differ; `Vcnt` is the map.  `Get` and `Create` are the two halves of
`GetVisitCnt`; `Visit`, `Increment`, `Clamp`, `ClearOther` are the unlocked
steps of a counted visit; `TempBlocked` and `MarkDomain` of a mark.
`UpdateDirectList` begins a PAC list and `GetDirectList` looks at one site of it,
so that marks come between two looks; `create` waits meanwhile, as the list is
made under the map's lock.  `Store…` are the steps of `store` and
`storeSiteStat`: writing the temporary file, the removal of the backup and both
renamings may fail, and only the first and the last failure end the save
(`StoreTmpFails`, `StoreRenameFails`).  `Stop` and `Restart` are the end of the
process at any moment and `initSiteStat`; `Estimate…` is `estimateTimeout`, which
is here because visits count only while the timeouts are the configured ones.
Two variables are not in the code: `bare` says that a save has begun without a
file and none has been completed since, `overrun` that a counter has run round
to the mark of a listed site.

The dates of visits are left out but for whether ten days have passed, and
`shouldNotSave` therefore does not ask `isStale`.  There is a parent and every
host has a domain: otherwise `GetVisitCnt` returns one constant that nothing
changes.

### Socks (checked and proved)

Both ends of a SOCKS5 connection as two byte streams: `cpc` is
`socksParent.connect` of a COW that uses this one as parent, or an application
with contents of its own; `spc` is `serveSocks`.  The messages have their real
lengths and field values, since what can go wrong is that the two ends disagree
on where a message ends.  For a UDP association `spc` is the relay loop, `tcpw`
and `outw` the two other goroutines, and `closing`, `closer` the four statements
of `closeAll` under its `sync.Once`.

### Auth (checked and proved)

`Authenticate` for several client connections at once: the `TimeoutSet` step by
step (`HasRead`, `HasJudge`, `HasDel`, `Accept`, `Add`, with the lock released in
between as in the code), allowed addresses, the checks of basic and digest, and
`initHA1`, whose unlocked write of a string is two steps (`InitHA1`,
`StoreHA1`).  `proof` remembers when right credentials from an address were last
accepted, which the code does not.

## 3. Runs

| run | question | instance |
|---|---|---|
| `pool_clients` | no sharing, implements `IdlePool`: right connection, no loss | 2 clients, 2 sites, a direct connection and one through an http parent, 2 site channels, capacity 1 |
| `pool_closeall` | no use after close, no loss, the map entry of a newer channel is safe, `CloseAll` returns and a removed channel's cleanup ends | 1 client, 1 closer, a connection, 2 channels |
| `serve` | one answer, no panic, connections released, lists respected, stream in step, body whole and once, errors inside a response noticed, no retry from a released buffer, an end unless a server that has no deadline is silent | twelve settings, six with every failure at every step |
| `plugin_queue` | slots conserved, queue never full, no send after close, drained at exit, close returns, slots come back | 3 servers, 2 slots, 3 exchanges |
| `tunnel` | server connection closed by whoever ends the tunnel, bytes once and in order over retries, the client usable after one, one server and one confirmation, nobody waits for ever | ten settings: both fronts, both kinds of parent, a buffer that fills, early units, a watchdog, a block that runs out |
| `parents` | a failed call has tried all, list and flags agree, pools recover | seven settings: every strategy, HTTP parents around others, two requests that probe at once |
| `sitestat` | counters recover, marks reach the right object and the PAC list, saves survive, the last save stays, the network estimate recovers | eight settings: 3 requests on a host, 2 hosts of a listed or unlisted domain, 3 saves, each step of which may fail, with 2 crashes, a save while two requests count |
| `socks` | the handshake leaves nothing behind and ends, nobody is admitted without proof, an association serves one address, lives while used, and ends clean | fifteen settings: COW to COW, wrong credentials, malformed requests, a mixed listener, associations |
| `auth` | authed by proof only, entries expire, the right client is served | six settings of two clients |
| `serve_reread`, `tunnel_leak`, `parents_latency` | violations, section 5 | the smallest instance that shows it |

Bounds.  Capacity 1 makes a channel full with one connection and still lets a
cleanup hold one outside of it; two channels are what it takes for an
old and a new channel of one site; two clients compete for what is idle.  Two
`Put`s that race to make one site's channel need two direct connections and are
in no run: `PutCreate` looks again under the lock, and the theorems of section 4
cover them.  In `Serve` a body of two units distinguishes a
beginning, a middle and an end, three units overflow the buffer of two;
`maxHits` bounds the idle connections the pool offers and `maxExpire` how often
the temporary block runs out during one client connection.  Without the last
bound `serve` need not end: if the two-minute block runs out during every four
tries, `shouldRetry` starts its count over each time.  Two slots for three
servers make the queue's limit matter; a third exchange allows one to be stale.

In `Tunnel` up to three units let the buffer overflow before, at and after
the answer; `MaxConn` (8, set in the cfg) is the number of tries, twice what `tooManyRetry`
allows, so that the count can be restarted once and run out again.  In
`ParentPool` two requests can fail, note and probe at the same time, one change
of a parent at any moment makes every earlier result out of date, and
`maxFailCnt` 2 (30 in the code) is reached and passed by the unlocked increment.
In `SiteStat` `maxCnt` 1 and `IntMax` 2 (100 and 127 in the code) with three
requests make the unlocked counter overflow to the negative range, but not back to
-1.  Three saves are one that is complete, one that fails or is cut off between
its renamings and leaves only the backup, and one that begins there; two
crashes are a restart from the backup followed by one more.  The estimate starts
from the configured timeouts: COW run without estimation and with a dial timeout
other than five seconds counts no visits at all and is not a setting.  In `Socks`
three datagrams are one from the client, one from elsewhere and one back; two
ticks of idle time tell "just now" from "not lately"; two clients in a row show
what the cache of addresses remembers.  In `Auth` the clock stops at three, an
entry lives one tick, so it can be made, expire and be renewed.

Each module also has its type invariant `TypeOK`, the ground of the proofs.  The
configurations leave it out, as it says little about the code; it holds on the
same instances.

Symmetry is used for clients and channels, in `pool_clients` only, which has no
liveness property.

Fairness.  In `ConnPool` every goroutine that can take a step inside the pool
takes one and timers fire (weak fairness per goroutine); no fairness makes a
client send a request or return.  In `Serve` the goroutine runs on and the
client at last sends what it will send and closes.  It does not run on where it
waits for a server with no deadline (`Waits`): the code sets one for the status
line of a server that may be fake and for nothing else, so a parent, a server
that is always visited directly, or one that has begun its response may be
silent for ever, and `ServeEnds` says that serve ends or stays in such a wait.
Writes have no deadline either, nor have reads of the client's body: that peers
take what is sent, and that the client sends its body or closes, is assumed.  In `PluginQueue` servers, worker and the rest of `close`
run on; a request that is being recorded ends at some time (its server is not
silent for ever, see `Serve`); nothing makes `main` quit.  In `Tunnel` the goroutines run and time passes; nothing makes a
client or server send, answer or close.  In `ParentPool` the goroutines run and
dials return (they have a timeout); parents change finitely often.  In
`SiteStat` the estimate goes on and a stopped process is started again, with
finitely many bad estimates.  In `Socks` goroutines run, time passes, and a
client that has begun its handshake goes on with it (the server sets no
deadline there, so nothing else would end it: a client that falls silent in the
handshake holds its goroutine for ever), and `doSocksConnect` returns, though
`establishParentConnect` reads an HTTP parent's answer without a deadline; nobody has to end a tunnel, send
a datagram or close.  In `Auth` goroutines run and a refused client comes back;
the bounded clock stands for a client that is not always slower than its nonces
expire.

## 4. Proofs

`ConnPoolProofs` proves for every number of sites, connections, clients and
closers, every capacity and every table of hosts and types:

- `TypesHold`: the type invariant;
- `OneOwner`: `NoSharing`;
- `ClosedIsGone`: `NoUseAfterClose`;
- `RightConnection`: `ServesRequest`;
- `MapSafety`: the action property `RemovesOwnChannel`.

They rest on `ConstAssumption` (what the tables and capacities are) only.  The
argument: `TypeOK` is not inductive alone, as an action needs to know what its
goroutine holds.  `TypeInv` adds that a goroutine has a connection in hand
exactly where its program counter says so (`HandOK`), a channel where it needs
one (`ChanOK`), iterations left where it scans (`ScanOK`), and that a mapped
channel, and one that is scanned to be removed, was made for that hostPort
(`HostOK`, `StartOK`).  `OwnerInv` says that all places (slots and hands) hold
different, open connections; it needs both at once, since only a connection that
is in one place can be closed without leaving a closed one elsewhere.
`RouteInv` follows a connection from `Put` to the channel: what a
site's channel holds has the hostPort of that channel, what the multiplexed one
holds is multiplexed.  Each is proved from `TypeInv` with one step per action.

`PluginQueueProofs` proves for every number of servers and exchanges and every
limit, from `PluginAssumption` only:

- `SlotsBalance`: `SlotsConserved`;
- `SingleHolder`: `OneHolder`;
- `QueueNeverFull`: `QueueHasRoom`;
- `NeverSendsOnClosed`: `NoSendOnClosed`;
- `DrainsBeforeExit`: `DrainedAtExit`.

Here `TypeInv` adds to the types that a server has an exchange while it is in
`submit` and none before `begin`, and that the worker has one between its receive
and its discard.  With it `OneHolder` is inductive: an exchange only moves, from
a server to the queue to the worker, or is discarded by the one who has it.
`SlotsConserved` needs `OneHolder`, which says that a discard of something held
really gives a slot back; the queue's room follows by counting, as a
server that is about to send holds a slot that the queue does not.  `CloseOK`
is about the lock: the channel is closed only while no server is between its
look at the flag and its send, and the worker stops only with the closed channel
empty.

`ConnPoolProofs` also proves, for the pool with its cleanup goroutines:

- `NothingLost`: `NoLeak`;
- `RefinesIdlePool`: with `TimelyPut`, `Spec => ImplementsIdlePool`.

`NoLeak` is not inductive: whether an open connection stays watched depends on
who may still send to its channel.  `LeakInv` says so: a channel in the map has a
cleanup that is not yet in its final wait, or a client about to start one
(`MappedOK`); a channel to which a client will send is not being drained
(`SendOK`, the place where `TimelyPut` is used); a channel without a cleanup is
empty (`EmptyOK`); and what is open is in a hand or in some channel (`KeptOK`).
The refinement needs no state beyond that.  From the pool's invariants together
(`SharedInv`) the owner of a connection is the client that holds it, or else
depends on `open` alone (`OwnerIs`), so that a step which changes neither
the clients' hands nor `open` is a stutter, and each other action is one of
`IdlePool`: `GetRecv` takes or evicts, `Dial` makes, `PutSend` puts, the scans
and the final drain evict.  `WantOK` ties the request to the program counter, and
`RouteInv` says that what `Get` takes can serve it.  Only `OwnerAssumption`
is new: the names `Closed`, `Idle` and `Lost` are no clients.  Without
`TimelyPut` a `Put` that has looked its channel up could send to it after the
cleanup has drained it and ended, and the connection would be lost.

`ServeProofs` (`ServeAssumption`: the shape of the settings, and a stream that
begins with a head) proves for streams, buffers and bounds of any size:

- `AnswersOnce`: `OneAnswer`; `RetriesFromCopy`: `NoPanic`;
- `ReleasesServers`: `ServerReleased`; `KeepsSiteRules`: `SiteRules`;
- `StreamInStep`: `StaysInStep`;
- `ServeInvHolds`: the invariant behind them, with the types.

`ServeInv` ties the program counter to the connection (`ConnInv`), to the state
of the request (`StateInv`) and to the buffer (`RawInv`: a request that goes to a
retry has its copy, and one whose copy is gone knows it).  `StepInv` says where
in the client's stream serve is: in a first try the units read are those
handed on, in a later one all of them are in the copy (`PlaceInv`); that
`shouldRetry` does not start the count over follows from counting the pooled
connections and expired marks that a direct try costs (`TriesInv`).  Beyond the
settings of the run two of these are as weak as the code makes them: an upgrade to WebSocket after a retry
does panic (`NoPanic` says that nothing else does), and the stream is kept
in step only if the pool and the clock together offer at most two more direct
tries (`KeepsPlace`).

`TunnelProofs` (`TunnelAssumption`) proves for any number of units, replies, tries
and watchdogs and any buffer:

- `TunnelCloses`: `TunnelClosed`; `DeliversInOrder`: `InOrder`;
- `RetryIsReady`: `RetryReady`; `ClientHearsOne`: `HearsOneServer`;
- `TunnelInvHolds`: the invariant behind them, with the types.

`TunnelInv` counts tries and connections (`TryInv`), says what the buffer holds
for as long as a retry is possible (`BufferInv`), that the server in use has got
the first units in order (`DeliveredInv`), whom the client can have heard
(`HeardInv`) and who has closed what (`CloseInv`).  `RetryReady` asks that everything read
be in the buffer, and be there once only where nothing came with the CONNECT, as
such bytes may be written twice.

`ParentPoolProofs` (`ParentAssumption`: no parent is listed twice, and latencies
have a largest) proves for any number of parents, requests and probing goroutines
and every strategy:

- `FailsAfterAll`: `TriesAll`; `HTTPListAgrees`: `ListAgrees`;
- `ParentInvHolds`: the invariant behind them.

A call walks the pool's slice, or its own once a measurement has replaced it;
either is a complete list of the parents, each once (`ListInv`, `CallsInv`).
Where the call is in it says which parents it has tried and which it has put
aside (`WalkInv`, `TriedInv`).  That sorting keeps a list complete is a counting
argument: the number of entries before an entry takes every value below the
length exactly once.  The model sorts by that number, as the prover knows nothing
of the standard `SelectSeq`.

`SiteStatProofs` (`SiteStatAssumption`: positive limits, domains of domains are
themselves, no site on both lists) proves:

- `CountersDoRecover`: `CountersRecover`; `SavesSurvive`: `SavedSurvives`, an
  action property; `MarksAreSeen`: `MarksSeen`;
- `SiteStatInvHolds`: the invariant behind them, with the types.

`CountInv` says that a counter is in range or a request has yet to clamp it;
`ListInv` that the marks of listed sites are never counted on.  `DiskInv` says
where the last complete save is: in the file, or in the backup while there is no
file; it stays there whichever step fails or is the last, and only a save that
begins without a file takes it away, which `bare` records.  For `MarksSeen`,
`PlainInv` says that no record looks listed that is not, and `ListOK` that the
PAC list being made holds no site of a domain that was marked before it began.
The theorems have no bound on the number of requests.  The code has none
either, and the first part of `MarksSeen` fails beyond it: the counters are
`int8`, and about 156 requests that count on one host between two clamps bring it
round to -1, the mark of a listed site.  If the host is a domain, it then looks
listed, and `TempBlocked` for one of its hosts may find no `VisitCnt`.
`MarksSeen` asks nothing of that part once this has happened (`overrun`).  `CountersRecover` makes one
exception: a record saved in the middle of a visit may be out of range in the next
process until a visit has been counted there.

`SocksProofs` (`SocksAssumption`: what a COW client puts into its messages) proves
for any settings, any sequence of clients and any timeout:

- `HandshakeIsClean`: `HandshakeClean`; `OnlyAdmitted`: `Admitted`;
- `AssociationCloses`: `AssociationClosed`; `ServesOneUDPClient`: `OneUDPClient`;
- `ActivityKeeps`: `ActivityKeepsAlive`, an action property;
- `SocksInvHolds`: the invariant behind them, with the types.

`WireInv` is the heart of the handshake: for every pair of places where the two
ends can be, exactly which bytes are under way in each direction.  `AssocInv` says
which socket is open at which statement of `closeAll`, `ClockInv` that the
deadline is not behind the last datagram.

`AuthProofs` (`AuthAssumption`) proves for any number of connections and addresses:

- `AuthedOnlyByProof`: `AuthedByProof`; `CacheNeverOutlives`: `CacheExpires`, an
  action property;
- `AuthInvHolds`: the invariant behind them, with the types.

`EntryInv` says that no time in the `TimeoutSet` is later than the last proof
from that address, and `KnowsInv` what a goroutine that has read an entry, or
is about to add one, may conclude from it.

Every invariant and action property that a passing run checks, and the
refinement, is thus also a theorem.  Only model-checked are:

- liveness, which the prover does not reach: `CleanupsEnd`, `ServeEnds`,
  `CloseReturns`, `SlotsReturned`, `TunnelEnds`, `PoolsRecover`,
  `NetworkRecovers`, `HandshakeEnds`, `AssociationEnds`, `RightOnesServed`;
- the part of `ParentPool`'s `TypeOK` that bounds a failure count by the number
  of calls, which needs a sum over the requests; no theorem depends on it.

Induction over data is out of the prover's reach.  Where a proof needed it, the
least-number principle (the body after a head in `Serve` is a run of units) or
a cardinality (sorting, slots) took its place.

## 5. Where the code differs from what it says

Shown by a run:

- `serve_reread`: after four tries `shouldRetry` sets the count to 0; the next
  try counts as the first and the body is read from the client again, after the
  kept copy has been sent.
- `tunnel_leak`: `doConnect` returns before the goroutine that closes the server
  connection has been started if the CONNECT cannot be sent to a parent or the
  200 to the client, and nobody else closes it.  `doSocksConnect` has the same
  early returns.
- `parents_latency`: `initParentPool` starts the goroutine that measures
  latencies before it installs the pool that the goroutine looks for.

Met while modelling, and the reason why some properties are stated for less than
every setting:

- The cleanup of the multiplexed channel ends the first time it finds it empty,
  five seconds after start if no parent connection was idle then; connections
  put there later are closed by a `Get` or `CloseAll` only.
- A cleanup puts a live connection back with a send that blocks if `Put`s
  have filled the channel meanwhile; it stands still until a `Get` makes room.
- A write error inside a request body leads to a retry with the part that has
  been read, as if it were the whole; and when a retry cannot connect, the body
  already read is skipped again out of the next request (`KeepsPlace` in
  `Serve`).
- `copyN` does not report an end of file: a response cut inside a body with
  Content-Length counts as complete and the client is not told (`OneAnswer`).
  The same holds for request bodies.
- After an upgrade to WebSocket on a retry, `copyClient2Server` reads the
  request's buffer, which `readResponse` has released, and panics.  `NoPanic` says
  that this is the only panic; the settings of `serve` have upgrades only where
  no retry comes before them, as `ServeEnds` would fail there.
- `Get` does not look at the mark of a site just taken as blocked; the pool may
  still give out a direct connection to it (`SiteRules`).
- In a tunnel, an HTTP parent gets the client's bytes twice on a retry, with the
  header and again from `copyClient2Server`; bytes that came with the CONNECT
  are sent twice if their first write failed; and when `shouldRetry` has
  restarted the count, the next try neither re-sends what the client has sent
  nor knows that it has confirmed the tunnel (`Resends`, `HearsOneServer`).
- When the retries of a tunnel that was already confirmed fail, the client gets
  an error page, which it takes for bytes of the tunnel.
- An HTTP parent that was marked unavailable is not dialled as a last resort,
  unlike the parents of other kinds (`TriesAll` asks of the HTTP parents only
  that their pool was asked).
- A second `create` for a host replaces a `VisitCnt` that another request is
  using; its counts, and a mark on it, are lost (`MarksSeen`).
- `store` removes the backup before it moves the file to its place.  Where there
  is only the backup, because the last renaming of an earlier save failed or the
  process ended before it, the next save removes the one copy that is left; if
  its last renaming fails too, or the process ends before it, nothing is left to
  load (`bare` in `SavedSurvives`).
- A `VisitCnt` counted on by some 156 requests at once can look listed, and
  `TempBlocked` may then panic (`overrun` in `MarksSeen`, section 4).
- A server that needs no deadline in the eyes of `parseResponse` and never
  answers holds its client's goroutine for ever (`Waits` in `ServeEnds`).
- A COW with a user name configured for a socks5 parent offers the password
  method only, and cannot use a server that requires no authentication.
- `TimeoutSet.has` can delete an entry renewed since it was read; the client is
  asked again.  `initHA1` may be seen half written by another goroutine
  (`crashed` in `Auth`).

## 6. Not modelled, and the plan

Left out for good:

- header parsing, error pages, the text of the PAC file, capture files, digest
  computation, record decoding and logging: data conversion and I/O;
- configuration: read once, before any goroutine starts;
- the ssh helper and the debug counters: an external process, and numbers that
  nothing depends on;
- TLS interception (`capture.go`): certificates and TLS are I/O, and the request
  loop behind them is that of `Serve`;
- what http, cow and shadowsocks parents do after the dial: encryption and a
  header;
- memory below the level of values: `sv.Close` releases a buffer through which
  the other goroutine of a tunnel may be reading, a retry of a captured CONNECT
  looks into a reader that was released, and `hasBlockedHost` and the live map
  of `store` are read without their lock, for which Go may stop the process.

What is left for proofs: the bound on failure counts in `ParentPool`; and the
action properties that follow from the refinement of `IdlePool` (a connection in
use is given up by its own client only).
