------------------------------- MODULE Tunnel -------------------------------
(***************************************************************************)
(* A tunnel: the CONNECT branch of clientConn.serve with doConnect, and    *)
(* serveSocks with doSocksConnect and tunnel.  Two goroutines copy bytes,  *)
(* copyServer2Client (the one that called, "main" here) and                *)
(* copyClient2Server ("c2s"); a third, the tunnelWatchdog, closes both     *)
(* connections of an idle tunnel.  A direct connection that looks blocked  *)
(* before it has answered is retried over a parent with the same client    *)
(* connection, and what the client has sent so far is sent again.          *)
(*                                                                         *)
(* A unit is what one read returns.  The client's units are numbered, so   *)
(* that what a server receives can be compared with what the client sent;  *)
(* the server's are only counted.                                          *)
(***************************************************************************)
EXTENDS Integers, Sequences, FiniteSets, SequencesExt

CONSTANTS
  Settings,  \* the clients, sites and configurations that are looked at
  MaxConn    \* bound on the number of server connections

Classes == {"alwaysDirect", "alwaysBlocked", "dynamic"}

\* front: how the client asked, with an HTTP CONNECT or over SOCKS5
\* parent: the kind of parent proxy, one that is spoken to in HTTP (http, cow),
\*   one that is not (socks5, shadowsocks), or none
\* class: what the user's site lists say of the site
\* units, early: the client's units, those that come with the CONNECT request
\* replies: units each server sends
\* bufUnits: client units that fill Request.raw (2 * httpBufSize)
\* watchdog, detectSSL: config.TunnelTimeout > 0, config.DetectSSLErr
\* maxExpire: bound, how often tmpBlockedTimeout can run out
ASSUME TunnelAssumption ==
  /\ MaxConn \in Nat
  /\ \A c \in Settings :
      /\ c.front \in {"http", "socks"} /\ c.parent \in {"http", "raw", "none"}
      /\ c.class \in Classes
      /\ {c.units, c.early, c.replies, c.bufUnits, c.maxExpire} \subseteq Nat
      /\ c.early <= c.units
      /\ {c.watchdog, c.detectSSL} \subseteq BOOLEAN

VARIABLES
  cfg,       \* the setting, chosen at the start
  pc,        \* where the main goroutine is
  cpc,       \* where copyClient2Server is, "none" when it does not run
  tryCnt,    \* Request.tryCnt
  state,     \* Request.state
  raw,       \* client units held in Request.raw, or NoRaw when it is nil
  partial,   \* Request.partial
  buffered,  \* clientConn.bufRd is not released
  sent,      \* units the client has sent
  pos,       \* units copyClient2Server has taken from the client
  cliEnd,    \* the client has closed its side
  cliOpen,   \* clientConn.Conn has not been closed by the proxy
  deadline,  \* a read deadline is set on clientConn.Conn
  conn,      \* number of the server connection in use
  sv,        \* its kind and whether its state is still svConnected
  open,      \* server connections that have not been closed
  srv,       \* what the server has done with its side
  got,       \* units read from it
  told,      \* replies the client has got to its request for a tunnel
  delivered, \* client units written to the server connection in use
  heard,     \* server connections whose bytes have reached the client
  notified,  \* srvStopped has been notified and not yet asked
  wd,        \* the watchdog of each server connection
  idle,      \* no byte has passed for TunnelTimeout
  blocked,   \* VisitCnt.AsTempBlocked() of the site
  expire     \* times the temporary block may still run out

request == <<tryCnt, state, raw, partial>>
client == <<buffered, sent, pos, cliEnd, cliOpen, deadline>>
server == <<conn, sv, open, srv, got>>
passed == <<told, delivered, heard>>
watch == <<wd, idle>>
site == <<blocked, expire>>
vars == <<cfg, pc, cpc, request, client, server, passed, notified, watch, site>>

Parents == cfg.parent # "none"
AlwaysDirect == ~Parents \/ cfg.class = "alwaysDirect"
AlwaysBlocked == Parents /\ cfg.class = "alwaysBlocked"

rsCreated == 0
rsRecvBody == 2
NoRaw == <<0>>
NoServer == [kind |-> "none", connected |-> FALSE]

isRetry == tryCnt > 1
tooManyRetry == tryCnt > 3
responseNotSent == state = rsCreated

\* A direct connection that has answered nothing yet may be to a fake server.
maybeFake == sv.connected /\ sv.kind = "direct" /\ ~AlwaysDirect

\* The connection of an HTTP or cow parent.
HTTPParent == sv.kind = "parent" /\ cfg.parent = "http"

-----------------------------------------------------------------------------
Init ==
  /\ cfg \in Settings
  /\ pc = "retry" /\ cpc = "none"
  /\ tryCnt = 0 /\ state = rsCreated
  /\ raw = (IF cfg.front = "http" THEN <<>> ELSE NoRaw) /\ partial = FALSE
  /\ buffered = TRUE /\ sent = cfg.early /\ pos = 0
  /\ cliEnd = FALSE /\ cliOpen = TRUE /\ deadline = FALSE
  /\ conn = 0 /\ sv = NoServer /\ open = {} /\ srv = "up" /\ got = 0
  /\ told = 0 /\ delivered = <<>> /\ heard = {}
  /\ notified = FALSE
  /\ wd = [t \in 1 .. MaxConn |-> "off"] /\ idle = FALSE
  /\ blocked = FALSE /\ expire = cfg.maxExpire

-----------------------------------------------------------------------------
(* The client, the server and time                                         *)

ClientSend ==
  /\ ~cliEnd /\ sent < cfg.units
  /\ sent' = sent + 1
  /\ UNCHANGED <<cfg, pc, cpc, request, buffered, pos, cliEnd, cliOpen,
                 deadline, server, passed, notified, watch, site>>

ClientClose ==
  /\ ~cliEnd /\ cliEnd' = TRUE
  /\ UNCHANGED <<cfg, pc, cpc, request, buffered, sent, pos, cliOpen, deadline,
                 server, passed, notified, watch, site>>

ServerEnd ==
  /\ srv = "up" /\ conn > 0
  /\ srv' \in {"eof", "reset"}
  /\ UNCHANGED <<cfg, pc, cpc, request, client, conn, sv, open, got, passed,
                 notified, watch, site>>

TimePasses ==
  /\ ~idle /\ idle' = TRUE
  /\ UNCHANGED <<cfg, pc, cpc, request, client, server, passed, notified, wd,
                 site>>

BlockExpires ==
  /\ blocked /\ expire > 0
  /\ blocked' = FALSE /\ expire' = expire - 1
  /\ UNCHANGED <<cfg, pc, cpc, request, client, server, passed, notified,
                 watch>>

-----------------------------------------------------------------------------
(* The tunnelWatchdog                                                      *)

\* Mutant: a tunnel that is active when it is looked at is not watched any more.
WatchdogDecideOnce(t) ==
  /\ wd[t] = "on"
  /\ wd' = [wd EXCEPT ![t] = IF idle THEN "client" ELSE "off"]
  /\ UNCHANGED <<cfg, pc, cpc, request, client, server, passed, notified, idle,
                 site>>

\* It reads last and then closes, in two steps: by then the tunnel may have
\* become active again, or the request may be in its next try.
WatchdogDecide(t) ==
  /\ wd[t] = "on" /\ idle
  /\ wd' = [wd EXCEPT ![t] = "client"]
  /\ UNCHANGED <<cfg, pc, cpc, request, client, server, passed, notified, idle,
                 site>>

WatchdogClose(t) ==
  \/ /\ wd[t] = "client"
     /\ wd' = [wd EXCEPT ![t] = "server"]
     /\ cliOpen' = FALSE
     /\ UNCHANGED <<cfg, pc, cpc, request, buffered, sent, pos, cliEnd,
                    deadline, server, passed, notified, idle, site>>
  \/ /\ wd[t] = "server"
     /\ wd' = [wd EXCEPT ![t] = "fired"]
     /\ open' = open \ {t}
     /\ UNCHANGED <<cfg, pc, cpc, request, client, conn, sv, srv, got, passed,
                    notified, idle, site>>

\* activity.stop, deferred by doConnect and tunnel.
stop == wd' = [wd EXCEPT ![conn] = IF @ = "on" THEN "off" ELSE @]

-----------------------------------------------------------------------------
(* serve and serveSocks: connecting and deciding on a retry                *)

\* What connectServer can return: a connection of a kind or "fail";
\* "fallback" is a parent connection after a failed direct one, which marks
\* the site as blocked.
Routes ==
  IF AlwaysDirect THEN {"direct", "fail"}
  ELSE IF AlwaysBlocked \/ blocked THEN {"parent", "fail"}
  ELSE {"direct", "parent", "fallback", "fail"}

Connect ==
  /\ pc = "retry" /\ conn < MaxConn
  /\ \E route \in Routes \ {"fail"} :
       /\ sv' = [kind |-> IF route = "direct" THEN "direct" ELSE "parent",
                 connected |-> TRUE]
       /\ blocked' = (blocked \/ route = "fallback")
  /\ conn' = conn + 1 /\ open' = open \cup {conn + 1}
  /\ srv' = "up" /\ got' = 0 /\ delivered' = <<>>
  /\ tryCnt' = IF cfg.front = "http" THEN tryCnt + 1 ELSE 0
  /\ state' = rsCreated
  /\ pc' = "connected"
  /\ UNCHANGED <<cfg, cpc, raw, partial, client, told, heard, notified, watch,
                 expire>>

\* The end of serve and serveSocks: the request's buffer is released and the
\* client's connection closed.
End ==
  /\ pc' = "end"
  /\ raw' = NoRaw
  /\ cliOpen' = FALSE

\* The client gets an error page or a SOCKS5 reply.
ConnectFails ==
  /\ pc = "retry" /\ "fail" \in Routes
  /\ End
  /\ UNCHANGED <<cfg, cpc, tryCnt, state, partial, buffered, sent, pos, cliEnd,
                 deadline, server, passed, notified, watch, site>>

\* shouldRetry after a RetryError; only serve asks it.
Verdict ==
  IF cfg.front # "http" \/ ~responseNotSent \/ partial THEN "no"
  ELSE IF raw = NoRaw THEN "panic"
  ELSE IF ~tooManyRetry THEN "again"
  ELSE IF maybeFake THEN "block"
  ELSE "no"

\* What follows from it: gives pc, raw, cliOpen, tryCnt and blocked their next
\* values.
ShouldRetry ==
  \/ Verdict = "no" /\ End /\ UNCHANGED <<tryCnt, blocked>>
  \/ /\ Verdict # "no"
     /\ pc' = IF Verdict = "panic" THEN "panic" ELSE "retry"
     /\ tryCnt' = IF Verdict = "block" THEN 0 ELSE tryCnt
     /\ blocked' = (blocked \/ Verdict = "block")
     /\ UNCHANGED <<raw, cliOpen>>

-----------------------------------------------------------------------------
(* doConnect and doSocksConnect before the copying starts                  *)

\* A write to the server may fail once the server has gone, one to the client
\* once the client has; both fail when the proxy has closed the connection.
ServerWrites == (IF conn \in open THEN {TRUE} ELSE {}) \cup
                (IF conn \notin open \/ srv # "up" THEN {FALSE} ELSE {})
ClientWrites == (IF cliOpen THEN {TRUE} ELSE {}) \cup
                (IF ~cliOpen \/ cliEnd THEN {FALSE} ELSE {})

\* Does the proxy itself confirm the tunnel to the client?
Confirms == IF cfg.front = "http" THEN ~HTTPParent /\ ~isRetry ELSE TRUE

\* sendHTTPProxyRequestHeader sends the header and all of raw behind it; over
\* SOCKS5 establishParentConnect sends a request of its own and reads the
\* parent's answer.  Then the client is told, and the watchdog and
\* copyClient2Server start.
StartTunnel ==
  /\ pc = "connected"
  /\ HTTPParent => TRUE \in ServerWrites
  /\ HTTPParent /\ cfg.front = "socks" => srv = "up"
  /\ Confirms => TRUE \in ClientWrites
  /\ delivered' = IF HTTPParent /\ cfg.front = "http" THEN raw ELSE <<>>
  /\ told' = told + (IF Confirms THEN 1 ELSE 0)
  /\ wd' = IF cfg.watchdog THEN [wd EXCEPT ![conn] = "on"] ELSE wd
  /\ idle' = FALSE
  /\ notified' = FALSE
  /\ pc' = "s2c" /\ cpc' = "start"
  /\ UNCHANGED <<cfg, request, client, server, heard, site>>

\* The request cannot be sent to the parent: another try for a CONNECT.  The
\* server connection stays open.
StartFails ==
  /\ pc = "connected" /\ HTTPParent
  /\ FALSE \in ServerWrites
  /\ ShouldRetry
  /\ UNCHANGED <<cfg, cpc, state, partial, buffered, sent, pos, cliEnd,
                 deadline, server, passed, notified, watch, expire>>

\* The client cannot be told, or a parent refuses a SOCKS5 client's request.
\* The server connection stays open here too.
StartGivesUp ==
  /\ pc = "connected"
  /\ \/ Confirms /\ FALSE \in ClientWrites
     \/ HTTPParent /\ cfg.front = "socks"
  /\ End
  /\ UNCHANGED <<cfg, cpc, tryCnt, state, partial, buffered, sent, pos, cliEnd,
                 deadline, server, passed, notified, watch, site>>

-----------------------------------------------------------------------------
(* copyServer2Client                                                       *)

\* A read that returns bytes; sv's read deadline runs while maybeFake.
ReadServer ==
  /\ pc = "s2c" /\ conn \in open
  /\ got < cfg.replies /\ got' = got + 1
  /\ idle' = FALSE
  /\ pc' = "s2cWrite"
  /\ UNCHANGED <<cfg, cpc, request, client, conn, sv, open, srv, passed,
                 notified, wd, site>>

\* Mutant: the states are not set.
WriteClientUnmarked ==
  /\ pc = "s2cWrite" /\ TRUE \in ClientWrites
  /\ heard' = heard \cup {conn}
  /\ pc' = "s2c"
  /\ UNCHANGED <<cfg, cpc, request, client, server, told, delivered, notified,
                 watch, site>>

\* The first bytes of an HTTP parent are its reply to the CONNECT.
WriteClient ==
  /\ pc = "s2cWrite" /\ TRUE \in ClientWrites
  /\ LET reply == HTTPParent /\ cfg.front = "http" /\ got = 1 IN
     /\ told' = told + (IF reply THEN 1 ELSE 0)
     /\ heard' = IF reply THEN heard ELSE heard \cup {conn}
  /\ state' = rsRecvBody
  /\ pc' = "s2cState"
  /\ UNCHANGED <<cfg, cpc, tryCnt, raw, partial, client, server, delivered,
                 notified, watch, site>>

\* sv.setState follows r.setState.
SetServerState ==
  /\ pc = "s2cState"
  /\ sv' = [sv EXCEPT !.connected = FALSE]
  /\ pc' = "s2c"
  /\ UNCHANGED <<cfg, cpc, request, client, conn, open, srv, got, passed,
                 notified, watch, site>>

\* The errors a read can return: a timeout only while a deadline is set.
ReadErrors ==
  (IF conn \notin open THEN {"closed"} ELSE
   IF srv # "up" THEN {srv} ELSE {}) \cup
  (IF conn \in open /\ maybeFake THEN {"timeout"} ELSE {})

\* Does copyServer2Client take the error as a sign of blocking?
Blocked(err) == maybeFake /\ Parents /\ err \in {"timeout", "reset"}

\* The site is marked, and the caller notifies copyClient2Server.
ReadBlocked ==
  /\ pc = "s2c"
  /\ \E err \in ReadErrors : Blocked(err)
  /\ blocked' = TRUE
  /\ notified' = TRUE
  /\ pc' = "waitRetry"
  /\ UNCHANGED <<cfg, cpc, request, client, server, passed, watch, expire>>

\* The caller closes both connections, to wake copyClient2Server.
CloseBoth ==
  /\ cliOpen' = FALSE
  /\ open' = open \ {conn}
ReadEnds ==
  /\ \/ pc = "s2c" /\ \E err \in ReadErrors : ~Blocked(err)
     \/ pc = "s2cWrite" /\ FALSE \in ClientWrites
  /\ CloseBoth
  /\ pc' = "wait"
  /\ UNCHANGED <<cfg, cpc, request, buffered, sent, pos, cliEnd, deadline,
                 conn, sv, srv, got, passed, notified, watch, site>>

\* <-done, and what serve does then.
WaitRetry ==
  /\ pc = "waitRetry" /\ cpc = "done"
  /\ cpc' = "none"
  /\ ShouldRetry
  /\ stop
  /\ UNCHANGED <<cfg, state, partial, buffered, sent, pos, cliEnd, deadline,
                 server, passed, notified, idle, expire>>

WaitEnd ==
  /\ pc = "wait" /\ cpc = "done"
  /\ cpc' = "none"
  /\ End
  /\ stop
  /\ UNCHANGED <<cfg, tryCnt, state, partial, buffered, sent, pos, cliEnd,
                 deadline, server, passed, notified, idle, site>>

Main ==
  \/ Connect \/ ConnectFails
  \/ StartTunnel \/ StartFails \/ StartGivesUp
  \/ ReadServer \/ WriteClient \/ SetServerState
  \/ ReadBlocked \/ ReadEnds \/ WaitRetry \/ WaitEnd

-----------------------------------------------------------------------------
(* copyClient2Server                                                       *)

\* Mutant: a retry does not write what was sent before.
ResendRawNever ==
  /\ cpc = "start" /\ cpc' = "buffered"
  /\ UNCHANGED <<cfg, pc, request, client, server, passed, notified, watch,
                 site>>

\* A retry first writes what raw holds.
ResendRaw ==
  /\ cpc = "start"
  /\ IF ~isRetry
     THEN cpc' = "buffered" /\ UNCHANGED <<delivered, idle>>
     ELSE \/ /\ TRUE \in ServerWrites
             /\ delivered' = delivered \o raw
             /\ idle' = FALSE
             /\ cpc' = "buffered"
          \/ /\ FALSE \in ServerWrites
             /\ cpc' = "closing" /\ UNCHANGED <<delivered, idle>>
  /\ UNCHANGED <<cfg, pc, request, client, server, told, heard, notified, wd,
                 site>>

\* serverWriter.Write keeps a copy while the request could be retried.
Keep(units) ==
  IF raw = NoRaw THEN UNCHANGED <<raw, partial>>
  ELSE IF Len(raw) >= cfg.bufUnits THEN raw' = NoRaw /\ partial' = TRUE
  ELSE /\ raw' = IF responseNotSent THEN raw \o units ELSE NoRaw
       /\ UNCHANGED partial

\* What came with the request is still in clientConn.bufRd; it is released
\* once it has been written.
Early == [i \in 1 .. cfg.early |-> i]
SendBuffered ==
  /\ cpc = "buffered"
  /\ \/ /\ ~buffered \/ cfg.early = 0
        /\ buffered' = FALSE
        /\ cpc' = "loop"
        /\ UNCHANGED <<pos, raw, partial, delivered, idle>>
     \/ /\ buffered /\ cfg.early > 0
        /\ Keep(Early)
        /\ \/ /\ TRUE \in ServerWrites
              /\ delivered' = delivered \o Early
              /\ pos' = cfg.early
              /\ buffered' = FALSE
              /\ idle' = FALSE
              /\ cpc' = "loop"
           \/ /\ FALSE \in ServerWrites
              /\ cpc' = "closing"
              /\ UNCHANGED <<buffered, pos, delivered, idle>>
  /\ UNCHANGED <<cfg, pc, tryCnt, state, sent, cliEnd, cliOpen, deadline,
                 server, told, heard, notified, wd, site>>

\* The deadline of one second, so that a notification is noticed.
SetDeadline == deadline' = maybeFake

LoopTop ==
  /\ cpc = "loop"
  /\ SetDeadline
  /\ cpc' = "read"
  /\ UNCHANGED <<cfg, pc, request, buffered, sent, pos, cliEnd, cliOpen,
                 server, passed, notified, watch, site>>

ReadClient ==
  /\ cpc = "read"
  /\ cliOpen /\ pos < sent
  /\ pos' = pos + 1
  /\ idle' = FALSE
  /\ cpc' = "write"
  /\ UNCHANGED <<cfg, pc, request, buffered, sent, cliEnd, cliOpen, deadline,
                 server, passed, notified, wd, site>>

\* With detectSSL the error is looked at again once maybeFake is known.
ReadClientEnds ==
  /\ cpc = "read"
  /\ ~cliOpen \/ (cliEnd /\ pos = sent)
  /\ cpc' = IF cfg.detectSSL /\ maybeFake /\ cliOpen THEN "ssl" ELSE "closing"
  /\ UNCHANGED <<cfg, pc, request, client, server, passed, notified, watch,
                 site>>

\* maybeSSLErr wants the state beyond svConnected, where maybeFake wanted it
\* to be svConnected.
CheckSSL ==
  /\ cpc = "ssl"
  /\ blocked' \in {blocked, blocked \/ ~sv.connected}
  /\ cpc' = "closing"
  /\ UNCHANGED <<cfg, pc, request, client, server, passed, notified, watch,
                 expire>>

\* hasNotified takes the notification.
ReadClientTimeout ==
  /\ cpc = "read" /\ deadline
  /\ cliOpen
  /\ cpc' = IF ~notified THEN "loop" ELSE "closing"
  /\ notified' = FALSE
  /\ UNCHANGED <<cfg, pc, request, client, server, passed, watch, site>>

WriteServer ==
  /\ cpc = "write"
  /\ Keep(<<pos>>)
  /\ \/ /\ TRUE \in ServerWrites
        /\ delivered' = Append(delivered, pos)
        /\ cpc' = "loop"
     \/ /\ FALSE \in ServerWrites
        /\ cpc' = "closing"
        /\ UNCHANGED delivered
  /\ UNCHANGED <<cfg, pc, tryCnt, state, client, server, told, heard, notified,
                 watch, site>>

\* Mutants: the deadline is left behind; the server connection is.
CloseServerLate ==
  /\ cpc = "closing"
  /\ open' = open \ {conn}
  /\ cpc' = "done"
  /\ UNCHANGED <<cfg, pc, request, client, conn, sv, srv, got, passed,
                 notified, watch, site>>
CloseServerNot ==
  /\ cpc = "closing"
  /\ deadline' = FALSE
  /\ cpc' = "done"
  /\ UNCHANGED <<cfg, pc, request, buffered, sent, pos, cliEnd, cliOpen, server,
                 passed, notified, watch, site>>

\* The deferred reset of the deadline and sv.Close.
CloseServer ==
  /\ cpc = "closing"
  /\ deadline' = FALSE
  /\ open' = open \ {conn}
  /\ cpc' = "done"
  /\ UNCHANGED <<cfg, pc, request, buffered, sent, pos, cliEnd, cliOpen, conn,
                 sv, srv, got, passed, notified, watch, site>>

ClientToServer ==
  \/ ResendRaw \/ SendBuffered \/ LoopTop \/ ReadClient \/ ReadClientEnds
  \/ CheckSSL \/ ReadClientTimeout \/ WriteServer \/ CloseServer

-----------------------------------------------------------------------------
Watchdog == \E t \in 1 .. MaxConn : WatchdogDecide(t) \/ WatchdogClose(t)

Environment ==
  ClientSend \/ ClientClose \/ ServerEnd \/ TimePasses \/ BlockExpires

Ended == pc = "end" /\ UNCHANGED vars

Next == Main \/ ClientToServer \/ Watchdog \/ Environment \/ Ended

Spec == Init /\ [][Next]_vars

\* The goroutines run, and time passes.
FairSpec ==
  /\ Spec
  /\ WF_vars(Main) /\ WF_vars(ClientToServer) /\ WF_vars(Watchdog)
  /\ WF_vars(TimePasses)

-----------------------------------------------------------------------------
(* Properties                                                              *)

MainSteps == {"retry", "connected", "s2c", "s2cWrite", "s2cState", "waitRetry",
              "wait", "end", "panic"}
CopySteps == {"none", "start", "buffered", "loop", "read", "ssl", "write",
              "closing", "done"}
Units == 1 .. cfg.units

\* Types, and the order of the two goroutines: copyClient2Server runs only
\* between the start of the tunnel and the wait for it.
TypeControl ==
  /\ cfg \in Settings
  /\ pc \in MainSteps /\ cpc \in CopySteps
  /\ cpc = "none" <=> pc \in {"retry", "connected", "end", "panic"}
  /\ state \in {rsCreated, rsRecvBody} /\ srv \in {"up", "eof", "reset"}
  /\ sv = NoServer \/ sv \in [kind : {"direct", "parent"}, connected : BOOLEAN]
TypeFlags ==
  /\ partial \in BOOLEAN /\ buffered \in BOOLEAN /\ cliEnd \in BOOLEAN
  /\ cliOpen \in BOOLEAN /\ deadline \in BOOLEAN /\ notified \in BOOLEAN
  /\ idle \in BOOLEAN /\ blocked \in BOOLEAN
TypeCounts ==
  /\ tryCnt \in 0 .. 4
  /\ sent \in 0 .. cfg.units /\ pos \in 0 .. sent
  /\ conn \in 0 .. MaxConn /\ open \subseteq 1 .. conn
  /\ got \in 0 .. cfg.replies /\ told \in Nat /\ heard \subseteq 1 .. conn
  /\ wd \in [1 .. MaxConn -> {"off", "on", "client", "server", "fired"}]
  /\ expire \in 0 .. cfg.maxExpire
TypeUnits ==
  /\ raw = NoRaw \/ raw \in Seq(Units)
  /\ delivered \in Seq(Units)

TypeOK == TypeControl /\ TypeFlags /\ TypeCounts /\ TypeUnits

\* The promise of serve, "server connection will be closed in doConnect":
\* when the client's connection has ended no connection to a server is left
\* open.
AllClosed == pc = "end" => open = {}

\* As far as the code keeps it: when the two copying goroutines have run, the
\* server connection is closed, whatever ended the tunnel and whoever closed
\* it first.
TunnelClosed ==
  cpc = "done" \/ (pc \in {"retry", "end"} /\ got > 0) => conn \notin open

\* shouldRetry has started the count of tries over, so that a retry is taken
\* for a first try.
CountRestarted == cfg.front = "http" /\ conn # tryCnt

\* Where what was sent before is sent twice or not at all: an HTTP parent gets
\* raw with the header and copyClient2Server sends it once more; units that
\* came with the request stay in bufRd when their first write fails, and are
\* in raw as well; a try after the count was restarted does not look at raw.
Resends ==
  \/ isRetry /\ (HTTPParent \/ cfg.early > 0)
  \/ CountRestarted

\* Apart from that, each server connection receives a prefix of what the
\* client sent, each unit once and in order, and all that has been read from
\* the client, in a first try as in a retry: copyClient2Server neither loses
\* nor repeats what a try before has consumed.
InOrder ==
  cpc # "none" /\ ~Resends =>
    /\ delivered = [i \in 1 .. Len(delivered) |-> i]
    /\ cpc \in {"loop", "read"} => Len(delivered) = pos

\* A retry finds the client's connection as the first try did: no read
\* deadline is left on it, it is open unless a watchdog closed it, and all that
\* was read from the client is in the buffer, and there once unless it came
\* with the request; the panic of shouldRetry for a released buffer is not
\* reached.
RetryReady ==
  /\ pc # "panic"
  /\ pc = "retry" /\ tryCnt > 0 =>
       /\ ~deadline
       /\ cliOpen \/ \E t \in 1 .. conn : wd[t] \in {"server", "fired"}
       /\ raw # NoRaw /\ 1 .. pos \subseteq Range(raw)
       /\ cfg.early = 0 => Len(raw) = pos

\* The client never gets bytes of two different servers: once a server has
\* answered, the tunnel stays with it.  And it is told once that the tunnel is
\* established, however often the request is retried (over a parent that is not
\* spoken to in HTTP: the reply of an HTTP parent is passed on in every try; and
\* until the count of tries is restarted).
HearsOneServer ==
  /\ Cardinality(heard) <= 1
  /\ cfg.parent # "http" /\ ~CountRestarted => told <= 1

\* An idle tunnel with a TunnelTimeout is torn down.  With or without one, main
\* does not wait for copyClient2Server for ever, though the client may be
\* silent and its connection is kept open for the retry.
TunnelEnds ==
  /\ cfg.watchdog => <>(pc = "end")
  /\ pc \in {"waitRetry", "wait"} ~> pc \in {"retry", "end"}
=============================================================================
