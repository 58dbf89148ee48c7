------------------------------ MODULE ConnPool ------------------------------
(***************************************************************************)
(* The pool of idle server connections, src/conn_pool.go, as it is used by *)
(* the goroutines that serve clients (src/proxy.go, serve and              *)
(* getServerConn), by the cleanup goroutine of every channel               *)
(* (closeStaleServerConn) and by the accept loops that empty the pool when *)
(* the process runs out of file descriptors (CloseAll).                    *)
(*                                                                         *)
(* One step is one operation on shared memory: a critical section of the   *)
(* pool's RWMutex, or one channel operation together with what the         *)
(* goroutine then does to the connection it received, which nobody else    *)
(* holds.  A channel is a bounded FIFO; a connection is an object whose    *)
(* type and hostPort never change.  A connection identity, or a channel    *)
(* identity, that nothing refers to any more may be used again for a new   *)
(* one.                                                                    *)
(***************************************************************************)
EXTENDS Naturals, Sequences, FiniteSets

CONSTANTS
    Hosts,        \* hostPort strings of the requests
    Conns,        \* identities of server connections
    HostPort,     \* hostPort of a connection (serverConn.hostPort)
    Kind,         \* dynamic type of a connection (serverConn.Conn)
    SiteChans,    \* identities of the channels made by Put
    MuxChan,      \* ConnPool.muxConn
    Clients,      \* goroutines serving a client connection
    Closers,      \* accept loops, the callers of CloseAll
    SiteCap,      \* maxServerConnCnt
    MuxCap,       \* maxServerConnCnt * 2
    AlwaysProxy,  \* config.AlwaysProxy
    TimelyPut,    \* no Put is in progress on a channel for the whole final wait
    NoConn, NoChan, NoHost

\* directConn stands for every type that is not multiplexed (socksConn and
\* shadowsocksConn take the same branches in the pool).
Kinds == {"directConn", "httpConn", "cowConn"}
Chans == SiteChans \cup {MuxChan}
Procs == Clients \cup Closers \cup Chans

ASSUME ConstAssumption ==
    /\ HostPort \in [Conns -> Hosts]
    /\ Kind \in [Conns -> Kinds]
    /\ SiteCap \in Nat \ {0} /\ MuxCap \in Nat \ {0}
    /\ AlwaysProxy \in BOOLEAN /\ TimelyPut \in BOOLEAN
    /\ NoConn \notin Conns /\ NoChan \notin Chans /\ NoHost \notin Hosts
    /\ MuxChan \notin SiteChans
    /\ Clients \cap Closers = {} /\ Clients \cap Chans = {} /\ Closers \cap Chans = {}

VARIABLES
    idleConn,   \* ConnPool.idleConn: the channel of a hostPort
    chanHost,   \* hostPort argument given to the cleanup of a channel
    queue,      \* contents of every channel
    open,       \* connections that are not closed
    fresh,      \* open connections with willCloseOn in the future
    pc,         \* where each goroutine is
    chan,       \* local variable ch of clients and closers
    hand,       \* local variable sv of clients and cleaners
    want,       \* hostPort of the client's request
    asDirect,   \* clients whose argument asDirect of Get is true
    left,       \* iterations left in closeServerConn
    todo        \* connCh of CloseAll: the channels not visited yet

poolVars == <<idleConn, chanHost, queue>>
connVars == <<open, fresh>>
reqVars == <<want, asDirect>>
scanVars == <<left, todo>>
vars == <<poolVars, connVars, pc, chan, hand, reqVars, scanVars>>

ClientPC == {"idle", "getSite", "getMux", "dial", "using", "create", "start", "send"}
CloserPC == {"idle", "next", "scan", "remove"}
CleanerPC == {"off", "sleep", "scan", "putback", "remove", "final", "drain"}

TypeOK ==
    /\ idleConn \in [Hosts -> SiteChans \cup {NoChan}]
    /\ chanHost \in [SiteChans -> Hosts \cup {NoHost}]
    /\ queue \in [Chans -> Seq(Conns)]
    /\ open \subseteq Conns
    /\ fresh \subseteq Conns
    /\ pc \in [Procs -> ClientPC \cup CloserPC \cup CleanerPC]
    /\ \A c \in Clients : pc[c] \in ClientPC
    /\ \A k \in Closers : pc[k] \in CloserPC
    /\ \A ch \in Chans : pc[ch] \in CleanerPC
    /\ chan \in [Clients \cup Closers -> Chans \cup {NoChan}]
    /\ hand \in [Clients \cup Chans -> Conns \cup {NoConn}]
    /\ want \in [Clients -> Hosts \cup {NoHost}]
    /\ asDirect \subseteq Clients
    /\ left \in [Closers \cup Chans -> Nat]
    /\ todo \in [Closers -> SUBSET Chans]

-----------------------------------------------------------------------------

\* httpConn and cowConn serve requests for any host.
IsMux(sv) == Kind[sv] \in {"httpConn", "cowConn"}

\* serverConn.mayBeClosed: a cow parent never closes an idle connection.
MayBeClosed(sv) == Kind[sv] # "cowConn" /\ sv \notin fresh

Cap(ch) == IF ch = MuxChan THEN MuxCap ELSE SiteCap

\* serverConn.Close
Close(sv) ==
    /\ open' = open \ {sv}
    /\ fresh' = fresh \ {sv}

Recv(ch) == queue' = [queue EXCEPT ![ch] = Tail(@)]
SendTo(ch, sv) == queue' = [queue EXCEPT ![ch] = Append(@, sv)]

\* A channel that neither the map nor a goroutine refers to.
Garbage(ch) ==
    /\ pc[ch] = "off"
    /\ \A h \in Hosts : idleConn[h] # ch
    /\ \A p \in Clients \cup Closers : chan[p] # ch
    /\ \A k \in Closers : ch \notin todo[k]

-----------------------------------------------------------------------------
(* Get, called by getServerConn. *)

\* Where Get goes on when the channel of the site has given nothing: the
\* connections of parent proxies are not for direct sites.
AfterSite(d) == IF d /\ ~AlwaysProxy THEN "dial" ELSE "getMux"

GetLookup(c, h, d) ==
    /\ pc[c] = "idle"
    /\ want' = [want EXCEPT ![c] = h]
    /\ asDirect' = IF d THEN asDirect \cup {c} ELSE asDirect \ {c}
    /\ IF idleConn[h] # NoChan
         THEN /\ pc' = [pc EXCEPT ![c] = "getSite"]
              /\ chan' = [chan EXCEPT ![c] = idleConn[h]]
         ELSE /\ pc' = [pc EXCEPT ![c] = AfterSite(d)]
              /\ chan' = [chan EXCEPT ![c] = IF AfterSite(d) = "getMux" THEN MuxChan ELSE NoChan]
    /\ UNCHANGED <<poolVars, connVars, hand, scanVars>>

\* Mutant: no continue after closing a stale connection.
GetRecvNoContinue(c) ==
    /\ pc[c] \in {"getSite", "getMux"}
    /\ queue[chan[c]] # <<>>
    /\ LET sv == Head(queue[chan[c]]) IN
         /\ IF MayBeClosed(sv) THEN Close(sv) ELSE UNCHANGED connVars
         /\ hand' = [hand EXCEPT ![c] = sv]
         /\ pc' = [pc EXCEPT ![c] = "using"]
         /\ chan' = [chan EXCEPT ![c] = NoChan]
    /\ Recv(chan[c])
    /\ UNCHANGED <<idleConn, chanHost, reqVars, scanVars>>

\* getConnFromChan, one iteration that receives: a connection the server may
\* have closed is closed and the loop goes on.
GetRecv(c) ==
    /\ pc[c] \in {"getSite", "getMux"}
    /\ queue[chan[c]] # <<>>
    /\ LET sv == Head(queue[chan[c]]) IN
         IF MayBeClosed(sv)
           THEN Close(sv) /\ UNCHANGED <<pc, chan, hand>>
           ELSE /\ hand' = [hand EXCEPT ![c] = sv]
                /\ pc' = [pc EXCEPT ![c] = "using"]
                /\ chan' = [chan EXCEPT ![c] = NoChan]
                /\ UNCHANGED connVars
    /\ Recv(chan[c])
    /\ UNCHANGED <<idleConn, chanHost, reqVars, scanVars>>

\* getConnFromChan, the default branch.
GetEmpty(c) ==
    /\ pc[c] \in {"getSite", "getMux"}
    /\ queue[chan[c]] = <<>>
    /\ LET next == IF pc[c] = "getSite" THEN AfterSite(c \in asDirect) ELSE "dial" IN
         /\ pc' = [pc EXCEPT ![c] = next]
         /\ chan' = [chan EXCEPT ![c] = IF next = "getMux" THEN MuxChan ELSE NoChan]
    /\ UNCHANGED <<poolVars, connVars, hand, reqVars, scanVars>>

-----------------------------------------------------------------------------
(* createServerConn, and what serve does when the response is complete. *)

\* The request's variables are dead.
RequestOver(c) ==
    /\ want' = [want EXCEPT ![c] = NoHost]
    /\ asDirect' = asDirect \ {c}

\* willCloseOn of a new connection is the zero time, which has passed.
Dial(c, sv) ==
    /\ pc[c] = "dial"
    /\ sv \notin open
    /\ HostPort[sv] = want[c]
    /\ AlwaysProxy => Kind[sv] # "directConn"
    /\ open' = open \cup {sv}
    /\ hand' = [hand EXCEPT ![c] = sv]
    /\ pc' = [pc EXCEPT ![c] = "using"]
    /\ UNCHANGED <<poolVars, fresh, chan, reqVars, scanVars>>

DialFails(c) ==
    /\ pc[c] = "dial"
    /\ pc' = [pc EXCEPT ![c] = "idle"]
    /\ RequestOver(c)
    /\ UNCHANGED <<poolVars, connVars, chan, hand, scanVars>>

\* The request failed, or the connection is not persistent.
Discard(c) ==
    /\ pc[c] = "using"
    /\ Close(hand[c])
    /\ hand' = [hand EXCEPT ![c] = NoConn]
    /\ pc' = [pc EXCEPT ![c] = "idle"]
    /\ RequestOver(c)
    /\ UNCHANGED <<poolVars, chan, scanVars>>

\* readResponse sets willCloseOn when the connection is persistent; serve calls
\* Put if it is, or if the parent is a cow.  Put looks the channel up.
PutLookup(c, keepAlive) ==
    LET sv == hand[c] IN
    /\ pc[c] = "using"
    /\ keepAlive \/ Kind[sv] = "cowConn"
    /\ fresh' = IF keepAlive THEN fresh \cup {sv} ELSE fresh
    /\ LET ch == IF IsMux(sv) THEN MuxChan ELSE idleConn[HostPort[sv]] IN
         /\ chan' = [chan EXCEPT ![c] = ch]
         /\ pc' = [pc EXCEPT ![c] = IF ch = NoChan THEN "create" ELSE "send"]
    /\ RequestOver(c)
    /\ UNCHANGED <<poolVars, open, hand, scanVars>>

\* Mutant: the goroutine that makes the channel starts no cleanup.
PutCreateNoCleanup(c) ==
    LET h == HostPort[hand[c]] IN
    /\ pc[c] = "create"
    /\ IF idleConn[h] # NoChan
         THEN chan' = [chan EXCEPT ![c] = idleConn[h]] /\ UNCHANGED poolVars
         ELSE \E ch \in SiteChans :
                /\ Garbage(ch)
                /\ idleConn' = [idleConn EXCEPT ![h] = ch]
                /\ chanHost' = [chanHost EXCEPT ![ch] = h]
                /\ queue' = [queue EXCEPT ![ch] = <<>>]
                /\ chan' = [chan EXCEPT ![c] = ch]
    /\ pc' = [pc EXCEPT ![c] = "send"]
    /\ UNCHANGED <<connVars, hand, reqVars, scanVars>>

\* Put, the critical section that looks again and makes the channel.
PutCreate(c) ==
    LET h == HostPort[hand[c]] IN
    /\ pc[c] = "create"
    /\ \/ /\ idleConn[h] # NoChan
          /\ chan' = [chan EXCEPT ![c] = idleConn[h]]
          /\ pc' = [pc EXCEPT ![c] = "send"]
          /\ UNCHANGED poolVars
       \/ /\ idleConn[h] = NoChan
          /\ \E ch \in SiteChans :
               /\ Garbage(ch)
               /\ idleConn' = [idleConn EXCEPT ![h] = ch]
               /\ chanHost' = [chanHost EXCEPT ![ch] = h]
               /\ queue' = [queue EXCEPT ![ch] = <<>>]
               /\ chan' = [chan EXCEPT ![c] = ch]
          /\ pc' = [pc EXCEPT ![c] = "start"]
    /\ UNCHANGED <<connVars, hand, reqVars, scanVars>>

\* Put, go closeStaleServerConn(ch, sv.hostPort)
PutStart(c) ==
    /\ pc[c] = "start"
    /\ pc' = [pc EXCEPT ![c] = "send", ![chan[c]] = "sleep"]
    /\ UNCHANGED <<poolVars, connVars, chan, hand, reqVars, scanVars>>

\* Mutant: no return after the multiplexed case, so that the connection is also
\* put in the channel of its site.
PutSendNoReturn(c) ==
    LET again == chan[c] = MuxChan /\ idleConn[HostPort[hand[c]]] # NoChan IN
    /\ pc[c] = "send"
    /\ IF Len(queue[chan[c]]) < Cap(chan[c])
         THEN SendTo(chan[c], hand[c]) /\ UNCHANGED connVars
         ELSE Close(hand[c]) /\ UNCHANGED queue
    /\ hand' = [hand EXCEPT ![c] = IF again THEN @ ELSE NoConn]
    /\ chan' = [chan EXCEPT ![c] = IF again THEN idleConn[HostPort[hand[c]]] ELSE NoChan]
    /\ pc' = [pc EXCEPT ![c] = IF again THEN "send" ELSE "idle"]
    /\ UNCHANGED <<idleConn, chanHost, reqVars, scanVars>>

\* putConnToChan: a connection that does not fit is closed.
PutSend(c) ==
    /\ pc[c] = "send"
    /\ \/ /\ Len(queue[chan[c]]) < Cap(chan[c])
          /\ SendTo(chan[c], hand[c])
          /\ UNCHANGED connVars
       \/ /\ Len(queue[chan[c]]) >= Cap(chan[c])
          /\ Close(hand[c])
          /\ UNCHANGED queue
    /\ hand' = [hand EXCEPT ![c] = NoConn]
    /\ chan' = [chan EXCEPT ![c] = NoChan]
    /\ pc' = [pc EXCEPT ![c] = "idle"]
    /\ UNCHANGED <<idleConn, chanHost, reqVars, scanVars>>

-----------------------------------------------------------------------------
(* closeServerConn, run by the cleanup goroutine of a channel (named by the *)
(* channel) and, with force, by CloseAll.                                   *)

Scanners == Chans \cup Closers
ScanChan(p) == IF p \in Chans THEN p ELSE chan[p]
Forced(p) == p \in Closers

\* closeServerConn is left: with done the cleanup goroutine waits a last time,
\* without it goes back to sleep; CloseAll goes to the next channel.
AfterScan(p, done) ==
    IF p \in Closers THEN "next" ELSE IF done THEN "final" ELSE "sleep"

\* lcnt, read from the length of the channel when the scan starts.
Lcnt(ch) == IF queue[ch] = <<>> THEN 1 ELSE Len(queue[ch])

\* One iteration of the loop is over.
Iterated(p) ==
    /\ left' = [left EXCEPT ![p] = @ - 1]
    /\ pc' = [pc EXCEPT ![p] = IF left[p] = 1 THEN AfterScan(p, FALSE) ELSE "scan"]

ScanClose(p) ==
    /\ pc[p] = "scan"
    /\ queue[ScanChan(p)] # <<>>
    /\ LET sv == Head(queue[ScanChan(p)]) IN
         /\ Forced(p) \/ MayBeClosed(sv)
         /\ Close(sv)
    /\ Recv(ScanChan(p))
    /\ Iterated(p)
    /\ UNCHANGED <<idleConn, chanHost, chan, hand, reqVars, todo>>

ScanKeep(p) ==
    /\ pc[p] = "scan"
    /\ queue[ScanChan(p)] # <<>>
    /\ LET sv == Head(queue[ScanChan(p)]) IN
         /\ ~Forced(p) /\ ~MayBeClosed(sv)
         /\ hand' = [hand EXCEPT ![p] = sv]
    /\ Recv(ScanChan(p))
    /\ pc' = [pc EXCEPT ![p] = "putback"]
    /\ UNCHANGED <<idleConn, chanHost, connVars, chan, reqVars, scanVars>>

\* ch <- sv outside of a select: waits for room in the channel.
ScanPutBack(p) ==
    /\ pc[p] = "putback"
    /\ Len(queue[ScanChan(p)]) < Cap(ScanChan(p))
    /\ SendTo(ScanChan(p), hand[p])
    /\ hand' = [hand EXCEPT ![p] = NoConn]
    /\ Iterated(p)
    /\ UNCHANGED <<idleConn, chanHost, connVars, chan, reqVars, todo>>

\* Mutant: in CloseAll the receive has no default branch and waits on an empty channel.
ScanEmptyNoReturn(p) ==
    /\ pc[p] = "scan"
    /\ queue[ScanChan(p)] = <<>>
    /\ p \notin Closers
    /\ pc' = [pc EXCEPT ![p] = IF ScanChan(p) = MuxChan THEN AfterScan(p, TRUE) ELSE "remove"]
    /\ left' = [left EXCEPT ![p] = 0]
    /\ UNCHANGED <<poolVars, connVars, chan, hand, reqVars, todo>>

ScanEmpty(p) ==
    /\ pc[p] = "scan"
    /\ queue[ScanChan(p)] = <<>>
    /\ pc' = [pc EXCEPT ![p] = IF ScanChan(p) = MuxChan THEN AfterScan(p, TRUE) ELSE "remove"]
    /\ left' = [left EXCEPT ![p] = 0]
    /\ UNCHANGED <<poolVars, connVars, chan, hand, reqVars, todo>>

\* Mutant: the map entry is deleted without looking at what it holds.
ScanRemoveAny(p) ==
    /\ pc[p] = "remove"
    /\ idleConn' = [idleConn EXCEPT ![chanHost[ScanChan(p)]] = NoChan]
    /\ pc' = [pc EXCEPT ![p] = AfterScan(p, TRUE)]
    /\ UNCHANGED <<chanHost, queue, connVars, chan, hand, reqVars, scanVars>>

\* Mutant: the channel stays in the map.
ScanRemoveNothing(p) ==
    /\ pc[p] = "remove"
    /\ pc' = [pc EXCEPT ![p] = AfterScan(p, TRUE)]
    /\ UNCHANGED <<poolVars, connVars, chan, hand, reqVars, scanVars>>

\* The critical section that takes the channel out of the map, if it is still
\* the one in the map.
ScanRemove(p) ==
    LET ch == ScanChan(p)  h == chanHost[ScanChan(p)] IN
    /\ pc[p] = "remove"
    /\ idleConn' = IF idleConn[h] = ch THEN [idleConn EXCEPT ![h] = NoChan] ELSE idleConn
    /\ pc' = [pc EXCEPT ![p] = AfterScan(p, TRUE)]
    /\ UNCHANGED <<chanHost, queue, connVars, chan, hand, reqVars, scanVars>>

-----------------------------------------------------------------------------
(* closeStaleServerConn *)

\* After sleeping five seconds.
CleanerWake(ch) ==
    /\ pc[ch] = "sleep"
    /\ pc' = [pc EXCEPT ![ch] = "scan"]
    /\ left' = [left EXCEPT ![ch] = Lcnt(ch)]
    /\ UNCHANGED <<poolVars, connVars, chan, hand, reqVars, todo>>

\* After the final wait of two seconds.  With TimelyPut, a Put that found the
\* channel in the map before it was removed is over by then.
CleanerFinal(ch) ==
    /\ pc[ch] = "final"
    /\ (TimelyPut /\ ch # MuxChan) => \A c \in Clients : ~(pc[c] \in {"start", "send"} /\ chan[c] = ch)
    /\ pc' = [pc EXCEPT ![ch] = "drain"]
    /\ UNCHANGED <<poolVars, connVars, chan, hand, reqVars, scanVars>>

CleanerDrain(ch) ==
    /\ pc[ch] = "drain"
    /\ queue[ch] # <<>>
    /\ Close(Head(queue[ch]))
    /\ Recv(ch)
    /\ UNCHANGED <<idleConn, chanHost, pc, chan, hand, reqVars, scanVars>>

CleanerDone(ch) ==
    /\ pc[ch] = "drain"
    /\ queue[ch] = <<>>
    /\ pc' = [pc EXCEPT ![ch] = "off"]
    /\ UNCHANGED <<poolVars, connVars, chan, hand, reqVars, scanVars>>

-----------------------------------------------------------------------------
(* CloseAll *)

\* Collect the channels of the map under the read lock; muxConn comes last.
CloseAllStart(k) ==
    /\ pc[k] = "idle"
    /\ pc' = [pc EXCEPT ![k] = "next"]
    /\ todo' = [todo EXCEPT ![k] = {idleConn[h] : h \in {g \in Hosts : idleConn[g] # NoChan}}
                                     \cup {MuxChan}]
    /\ UNCHANGED <<poolVars, connVars, chan, hand, reqVars, left>>

\* closeServerConn of the next channel begins.
CloseAllNext(k, ch) ==
    /\ pc[k] = "next"
    /\ ch \in todo[k]
    /\ ch = MuxChan => todo[k] = {MuxChan}
    /\ todo' = [todo EXCEPT ![k] = @ \ {ch}]
    /\ chan' = [chan EXCEPT ![k] = ch]
    /\ left' = [left EXCEPT ![k] = Lcnt(ch)]
    /\ pc' = [pc EXCEPT ![k] = "scan"]
    /\ UNCHANGED <<poolVars, connVars, hand, reqVars>>

CloseAllDone(k) ==
    /\ pc[k] = "next"
    /\ todo[k] = {}
    /\ pc' = [pc EXCEPT ![k] = "idle"]
    /\ chan' = [chan EXCEPT ![k] = NoChan]
    /\ UNCHANGED <<poolVars, connVars, hand, reqVars, scanVars>>

-----------------------------------------------------------------------------

\* Time passes: the keep-alive time of an open connection runs out.
Expire(sv) ==
    /\ sv \in fresh
    /\ fresh' = fresh \ {sv}
    /\ UNCHANGED <<poolVars, open, pc, chan, hand, reqVars, scanVars>>

\* init() starts the cleanup of muxConn.
Init ==
    /\ idleConn = [h \in Hosts |-> NoChan]
    /\ chanHost = [ch \in SiteChans |-> NoHost]
    /\ queue = [ch \in Chans |-> <<>>]
    /\ open = {}
    /\ fresh = {}
    /\ pc = [p \in Procs |-> IF p = MuxChan THEN "sleep" ELSE
                             IF p \in SiteChans THEN "off" ELSE "idle"]
    /\ chan = [p \in Clients \cup Closers |-> NoChan]
    /\ hand = [p \in Clients \cup Chans |-> NoConn]
    /\ want = [c \in Clients |-> NoHost]
    /\ asDirect = {}
    /\ left = [p \in Scanners |-> 0]
    /\ todo = [k \in Closers |-> {}]

\* What a client goroutine does inside Get or Put.
ClientStep(c) ==
    GetRecv(c) \/ GetEmpty(c) \/ PutCreate(c) \/ PutStart(c) \/ PutSend(c)

ScanStep(p) ==
    ScanClose(p) \/ ScanKeep(p) \/ ScanPutBack(p) \/ ScanEmpty(p) \/ ScanRemove(p)

CleanerStep(ch) ==
    ScanStep(ch) \/ CleanerWake(ch) \/ CleanerFinal(ch) \/ CleanerDrain(ch) \/ CleanerDone(ch)

CloserStep(k) ==
    ScanStep(k) \/ (\E ch \in Chans : CloseAllNext(k, ch)) \/ CloseAllDone(k)

Next ==
    \/ \E c \in Clients :
         \/ \E h \in Hosts, d \in BOOLEAN : GetLookup(c, h, d)
         \/ \E sv \in Conns : Dial(c, sv)
         \/ DialFails(c)
         \/ Discard(c)
         \/ \E keepAlive \in BOOLEAN : PutLookup(c, keepAlive)
         \/ ClientStep(c)
    \/ \E ch \in Chans : CleanerStep(ch)
    \/ \E k \in Closers : CloseAllStart(k) \/ CloserStep(k)
    \/ \E sv \in Conns : Expire(sv)

Spec == Init /\ [][Next]_vars

\* The scheduler runs every goroutine that can take a step, timers fire and
\* time passes; nothing makes a client send a request.
Fairness ==
    /\ \A c \in Clients : WF_vars(ClientStep(c))
    /\ \A ch \in Chans : WF_vars(CleanerStep(ch))
    /\ \A k \in Closers : WF_vars(CloserStep(k))

FairSpec == Spec /\ Fairness

-----------------------------------------------------------------------------
(* Properties *)

\* The slots of a channel that hold a connection.
Slots(ch) == 1 .. Len(queue[ch])
Holders == {p \in Clients \cup Chans : hand[p] # NoConn}

\* A server connection has one owner: it is in one slot of one channel or in the
\* hands of one goroutine, never in two places.  Two clients that got the same
\* connection from getConnFromChan would mix two responses.
NoSharing ==
    /\ \A ch1, ch2 \in Chans : \A i \in Slots(ch1), j \in Slots(ch2) :
         queue[ch1][i] = queue[ch2][j] => ch1 = ch2 /\ i = j
    /\ \A p, q \in Holders : hand[p] = hand[q] => p = q
    /\ \A p \in Holders, ch \in Chans : \A i \in Slots(ch) : hand[p] # queue[ch][i]

\* What the pool or a goroutine holds is open: a connection that Get, Put, the
\* cleanup or CloseAll has closed is never handed out or closed again
\* (serverConn.Close gives its buffer back, a second time would share it).
NoUseAfterClose ==
    /\ \A ch \in Chans : \A i \in Slots(ch) : queue[ch][i] \in open
    /\ \A p \in Holders : hand[p] \in open

\* Get gives a request a connection made for its own hostPort, or one to a
\* parent proxy that serves every host, the latter to a direct site only with
\* AlwaysProxy: whatever channel the map held meanwhile.
ServesRequest ==
    \A c \in Clients : pc[c] = "using" =>
        \/ HostPort[hand[c]] = want[c]
        \/ IsMux(hand[c]) /\ (c \in asDirect => AlwaysProxy)

\* A goroutine is there to look after what is left in a channel.
Supervised(ch) ==
    \/ ch = MuxChan
    \/ pc[ch] # "off"
    \/ \E c \in Clients : pc[c] = "start" /\ chan[c] = ch

\* No connection is lost: an open one is in the hands of a goroutine or in a
\* channel that still has its cleanup goroutine, although the map forgets the
\* channel while Puts are in progress on it (the tricky case that
\* closeStaleServerConn describes).  It rests on TimelyPut.
NoLeak ==
    TimelyPut => \A sv \in open :
        \/ \E p \in Holders : hand[p] = sv
        \/ \E ch \in Chans : Supervised(ch) /\ \E i \in Slots(ch) : queue[ch][i] = sv

\* A mapped channel leaves the map through a goroutine that scans that channel.
OwnChannelStep ==
    \A h \in Hosts : (idleConn[h] # NoChan /\ idleConn'[h] # idleConn[h]) =>
        /\ idleConn'[h] = NoChan
        /\ \E p \in Scanners : pc[p] = "remove" /\ ScanChan(p) = idleConn[h]

\* A channel leaves the map only by the hand of a goroutine that has just found
\* that very channel empty, and is never replaced by another one in one step
\* (closeServerConn's test of idleConn[hostPort] == ch, Put's second look).
RemovesOwnChannel == [][OwnChannelStep]_vars

\* Whatever clients and each other do with the channels they work on, CloseAll
\* returns to its accept loop, and the cleanup goroutine of a channel that was
\* taken out of the map ends.
CleanupsEnd ==
    /\ \A k \in Closers : pc[k] # "idle" ~> pc[k] = "idle"
    /\ \A ch \in SiteChans : pc[ch] = "final" ~> pc[ch] = "off"
=============================================================================
