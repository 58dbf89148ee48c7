------------------------------- MODULE Socks -------------------------------
(***************************************************************************)
(* SOCKS5 from both ends: serveSocks and what it calls, talking over one   *)
(* TCP connection to a client that is either another COW that uses it as a *)
(* socks5 parent (socksParent.connect) or an application.  The handshake   *)
(* ends in a tunnel (module Tunnel has its life) or in a UDP association,  *)
(* whose relay loop, remote reader and TCP reader run as three goroutines. *)
(* Clients connect one after another from one IP address, which the cache  *)
(* of authenticated addresses remembers.                                   *)
(*                                                                         *)
(* The two byte streams are sequences of numbers, with the numbers of      *)
(* RFC 1928 that socks.go names; a host name, a user name and a password   *)
(* are a length and as many units, whose values stand for their contents.  *)
(***************************************************************************)
EXTENDS Integers, Sequences, FiniteSets, SequencesExt

CONSTANT
  Settings  \* the servers and the clients that are looked at

Version == 5
UserPassVersion == 1
AuthNone == 0
AuthUserPass == 2
NoAcceptable == 255
CmdConnect == 1
CmdUDPAssociate == 3
Succeeded == 0
GeneralError == 1
ConnRefused == 5
CmdUnsupported == 7
AtypUnsupported == 8
IPv4 == 1
Domain == 3
IPv6 == 4

User == 70     \* the one user of auth.user, and the password
Passwd == 80
Data == 1000   \* a unit of the tunnel's own bytes

Hosts == {"ipv4", "ipv6", "domain", "other", "none"}
Sources == {"here:1", "here:2", "else:1"}  \* addresses UDP datagrams come from
NoAddr == "none"

\* What a client puts into its messages; cow is FALSE for an application.
ClientTypes == [cow : BOOLEAN, first : Nat, methods : Seq(Nat), version : Nat,
                user : Nat, passwd : Nat, cmd : Nat, rsv : Nat, host : Hosts]

\* required, users, ipAllowed, portOK: auth.required, auth.user is not empty,
\*   authIP and authPort accept the client
\* mixed: the listener is shared with HTTP
\* local: the kind of address the server's replies carry
\* timeout: config.Socks5UDPTimeout in ticks; datagrams: bound on datagrams
\* clients: those that connect, one after another
ASSUME SocksAssumption ==
  \A c \in Settings :
    /\ {c.required, c.users, c.ipAllowed, c.portOK, c.mixed} \subseteq BOOLEAN
    /\ c.users => c.required
    /\ c.local \in {"ipv4", "ipv6"} /\ {c.timeout, c.datagrams} \subseteq Nat
    /\ c.clients \in Seq(ClientTypes) /\ c.clients # <<>>
    /\ \A k \in DOMAIN c.clients :
         LET cl == c.clients[k] IN
           cl.cow => /\ cl.first = Version /\ cl.version = UserPassVersion
                     /\ cl.cmd = CmdConnect /\ cl.rsv = 0 /\ cl.host # "other"
                     /\ cl.methods \in {<<AuthNone>>, <<AuthUserPass>>}

VARIABLES
  cfg,      \* the setting, chosen at the start
  turn,     \* which client is connected
  cpc,      \* where the client is
  spc,      \* where serveSocks is
  up,       \* bytes on their way to the server
  down,     \* bytes on their way to the client
  upEnd,    \* the client has closed the connection
  srvOpen,  \* the server has not closed it
  buffer,   \* clientConn.bufRd has not been released
  authed,   \* auth.authed has the client's address
  proved,   \* a client has given the right user and password
  asked,    \* command and host of the request the server has read
  tcpw,     \* where the goroutine is that reads the TCP connection
  outw,     \* where the goroutine is that reads the remotes' datagrams
  relay,    \* relayConn is open
  out,      \* outConn is open
  closing,  \* statements of closeAll that have run
  closer,   \* who runs them
  addr,     \* clientAddr
  relayIn,  \* datagrams waiting in relayConn, at most one
  outIn,    \* datagrams waiting in outConn, at most one
  count,    \* datagrams that have come
  age,      \* ticks since the read deadline of relayConn was set
  since,    \* ticks since a datagram was passed on
  served,   \* client addresses that datagrams were passed on for
  result,   \* how the relay loop ended
  faulty    \* a UDP socket has failed by itself

tcp == <<turn, cpc, up, down, upEnd>>
login == <<authed, proved, asked>>
workers == <<tcpw, outw>>
closes == <<closing, closer>>
sockets == <<relay, out>>
traffic == <<addr, relayIn, outIn, count, served>>
clock == <<age, since>>
udp == <<workers, closes, sockets, traffic, clock, result, faulty>>
vars == <<cfg, tcp, spc, srvOpen, buffer, login, udp>>

Client == cfg.clients[turn]
Range0(s) == {s[k] : k \in DOMAIN s}
Zeros(n) == [k \in 1 .. n |-> 0]

\* buildSocks5AddrPort: the type, the address and the port.  "other" is a type
\* that no COW sends, "none" a host that it refuses to encode.
AddrPort(host) ==
  CASE host = "ipv4"   -> <<IPv4>> \o Zeros(4 + 2)
    [] host = "ipv6"   -> <<IPv6>> \o Zeros(16 + 2)
    [] host = "domain" -> <<Domain, 2>> \o Zeros(2 + 2)
    [] OTHER           -> <<9>>

HostOf(atyp) ==
  CASE atyp = IPv4 -> "ipv4" [] atyp = IPv6 -> "ipv6" [] atyp = Domain -> "domain"

\* readSocks5Target and readSocks5Address with the port that follows: how many
\* units a message has whose header of four ends in the address type.
MessageLen(s) ==
  CASE s[4] = IPv4   -> 4 + 4 + 2
    [] s[4] = IPv6   -> 4 + 16 + 2
    [] s[4] = Domain -> 4 + 1 + (IF Len(s) > 4 THEN s[5] ELSE 0) + 2

KnownAtyp(atyp) == atyp \in {IPv4, IPv6, Domain}

\* io.ReadFull of n units: it has them, or it never will.
Has(s, n) == Len(s) >= n
Short(s, n, ended) == Len(s) < n /\ ended
Rest(s, n) == SubSeq(s, n + 1, Len(s))

\* buildSocks5Reply; a reply to a failed request carries 0.0.0.0:0.
SocksReply(status, host) == <<Version, status, 0>> \o AddrPort(host)

\* The server writes msg and goes on at next; a client that has closed may make
\* the write fail, which ends serveSocks.
Reply(msg, next) ==
  \/ down' = down \o msg /\ spc' = next
  \/ upEnd /\ down' = down /\ spc' = "ending"

Init ==
  /\ cfg \in Settings
  /\ turn = 1 /\ cpc = "methods" /\ up = <<>> /\ down = <<>> /\ upEnd = FALSE
  /\ spc = (IF cfg.mixed THEN "peek" ELSE "methods")
  /\ srvOpen = TRUE /\ buffer = TRUE
  /\ authed = FALSE /\ proved = FALSE /\ asked = <<>>
  /\ tcpw = "none" /\ outw = "none" /\ relay = FALSE /\ out = FALSE
  /\ closing = 0 /\ closer = "nobody" /\ addr = NoAddr
  /\ relayIn = {} /\ outIn = FALSE /\ count = 0 /\ served = {}
  /\ age = 0 /\ since = 0 /\ result = "none" /\ faulty = FALSE

-----------------------------------------------------------------------------
(* The client: socksParent.connect, or an application that does the same   *)
(* with contents of its own and may close at any time.                     *)

Send(msg, next) ==
  /\ up' = up \o msg /\ cpc' = next
  /\ UNCHANGED <<cfg, turn, spc, down, upEnd, srvOpen, buffer, login, udp>>

\* hasErr: the deferred function closes the connection.
Fail ==
  /\ cpc' = "failed" /\ upEnd' = TRUE
  /\ UNCHANGED <<cfg, turn, spc, up, down, srvOpen, buffer, login, udp>>

Take(n, next) ==
  /\ down' = Rest(down, n) /\ cpc' = next
  /\ UNCHANGED <<cfg, turn, spc, up, upEnd, srvOpen, buffer, login, udp>>

SendMethods ==
  /\ cpc = "methods"
  /\ Send(<<Client.first, Len(Client.methods)>> \o Client.methods, "method")

\* COW offers one method and takes no other than that one.
MethodOK(method) == method \in Range0(Client.methods)

ReadMethod ==
  /\ cpc = "method"
  /\ \/ /\ Has(down, 2) /\ down[1] = Version /\ MethodOK(down[2])
        /\ Take(2, IF down[2] = AuthUserPass THEN "auth" ELSE "request")
     \/ /\ Has(down, 2) /\ ~(down[1] = Version /\ MethodOK(down[2]))
        /\ Fail
     \/ Short(down, 2, ~srvOpen) /\ Fail

SendUserPass ==
  /\ cpc = "auth"
  /\ Send(<<Client.version, 1, Client.user, 1, Client.passwd>>, "status")

ReadStatus ==
  /\ cpc = "status"
  /\ \/ Has(down, 2) /\ down[1] = UserPassVersion /\ down[2] = 0 /\ Take(2, "request")
     \/ Has(down, 2) /\ ~(down[1] = UserPassVersion /\ down[2] = 0) /\ Fail
     \/ Short(down, 2, ~srvOpen) /\ Fail

\* A host that buildSocks5AddrPort refuses ends connect before the request.
SendRequest ==
  /\ cpc = "request"
  /\ IF Client.host = "none" THEN Fail
     ELSE Send(<<Version, Client.cmd, Client.rsv>> \o AddrPort(Client.host), "reply")

\* Mutant: readSocks5ConnectReply takes every address for an IPv4 address.
ReplyLenIPv4(s) == 4 + 4 + 2

\* readSocks5ConnectReply reads the whole reply before it looks at the status.
ReplyLen(s) == MessageLen(s)

ReadReply ==
  /\ cpc = "reply"
  /\ \/ /\ Has(down, 4) /\ down[1] = Version /\ KnownAtyp(down[4])
        /\ \/ /\ Has(down, ReplyLen(down)) /\ down[2] = Succeeded
              /\ Take(ReplyLen(down), IF Client.cmd = CmdConnect THEN "tunnel" ELSE "udp")
           \/ Has(down, ReplyLen(down)) /\ down[2] # Succeeded /\ Fail
           \/ Short(down, ReplyLen(down), ~srvOpen) /\ Fail
     \/ Has(down, 4) /\ ~(down[1] = Version /\ KnownAtyp(down[4])) /\ Fail
     \/ Short(down, 4, ~srvOpen) /\ Fail

\* The connection is in use: the client sends and reads, then closes.
UseTunnel ==
  /\ cpc = "tunnel"
  /\ \/ Data \notin Range0(up) /\ Send(<<Data>>, "tunnel")
     \/ down # <<>> /\ Take(1, "tunnel")

ClientCloses ==
  /\ \/ cpc \in {"tunnel", "udp"}
     \/ ~Client.cow /\ cpc \notin {"closed", "failed"}
  /\ cpc' = "closed" /\ upEnd' = TRUE
  /\ UNCHANGED <<cfg, turn, spc, up, down, srvOpen, buffer, login, udp>>

NextClient ==
  /\ spc = "ended" /\ upEnd /\ turn < Len(cfg.clients)
  /\ turn' = turn + 1 /\ cpc' = "methods" /\ up' = <<>> /\ down' = <<>>
  /\ upEnd' = FALSE /\ spc' = (IF cfg.mixed THEN "peek" ELSE "methods")
  /\ srvOpen' = TRUE /\ buffer' = TRUE /\ asked' = <<>>
  /\ tcpw' = "none" /\ outw' = "none" /\ closing' = 0 /\ closer' = "nobody"
  /\ addr' = NoAddr /\ relayIn' = {} /\ outIn' = FALSE /\ count' = 0 /\ served' = {}
  /\ age' = 0 /\ since' = 0 /\ result' = "none" /\ faulty' = FALSE
  /\ UNCHANGED <<cfg, authed, proved, sockets>>

-----------------------------------------------------------------------------
(* The server's side of the handshake.                                     *)

serverOnly == <<cfg, turn, cpc, upEnd, srvOpen, buffer, udp>>

\* serveMixed: the first byte tells SOCKS5 from HTTP, and stays unread.
Peek ==
  /\ spc = "peek"
  /\ \/ Has(up, 1) /\ spc' = (IF up[1] = Version THEN "methods" ELSE "http")
     \/ Short(up, 1, upEnd) /\ spc' = "ending"
  /\ UNCHANGED <<serverOnly, up, down, login>>

\* The HTTP server (module Serve) ends by closing the connection.
HTTPEnds ==
  /\ spc = "http" /\ spc' = "ending"
  /\ UNCHANGED <<serverOnly, up, down, login>>

socksNoAuthAllowed == ~cfg.required \/ authed \/ cfg.ipAllowed

\* The choice of negotiateSocks5 among the offered methods.
Choice(methods) ==
  IF socksNoAuthAllowed /\ AuthNone \in methods THEN AuthNone
  ELSE IF cfg.users /\ AuthUserPass \in methods THEN AuthUserPass
  ELSE NoAcceptable

AfterChoice(method) ==
  CASE method = AuthNone -> "request" [] method = AuthUserPass -> "userpass"
    [] method = NoAcceptable -> "ending"

negotiateSocks5 ==
  /\ spc = "methods"
  /\ \/ /\ Has(up, 2) /\ up[1] = Version /\ Has(up, 2 + up[2])
        /\ up' = Rest(up, 2 + up[2])
        /\ LET m == Choice(Range0(SubSeq(up, 3, 2 + up[2])))
           IN Reply(<<Version, m>>, AfterChoice(m))
     \/ /\ Has(up, 2) /\ up[1] # Version
        /\ up' = Rest(up, 2) /\ down' = down /\ spc' = "ending"
     \/ /\ \/ Short(up, 2, upEnd)
           \/ Has(up, 2) /\ up[1] = Version /\ Short(up, 2 + up[2], upEnd)
        /\ up' = <<>> /\ down' = down /\ spc' = "ending"
  /\ UNCHANGED <<serverOnly, login>>

\* Mutant: authSocksUserPass forgets the password.
AcceptsUser(user, passwd) == user = User

\* The user, the password and the port the user may come in by.
Accepts(user, passwd) == user = User /\ passwd = Passwd /\ cfg.portOK

\* status 1 is written before every errAuthRequired.
authSocksUserPass ==
  /\ spc = "userpass"
  /\ \/ /\ Has(up, 5) /\ up[1] = UserPassVersion /\ up' = Rest(up, 5)
        /\ proved' = (proved \/ <<up[3], up[5]>> = <<User, Passwd>>)
        /\ IF Accepts(up[3], up[5])
           THEN /\ Reply(<<UserPassVersion, 0>>, "request")
                /\ authed' = (authed \/ spc' = "request")
           ELSE Reply(<<UserPassVersion, 1>>, "ending") /\ UNCHANGED authed
     \/ /\ Has(up, 2) /\ up[1] # UserPassVersion /\ up' = Rest(up, 2)
        /\ Reply(<<UserPassVersion, 1>>, "ending") /\ UNCHANGED <<authed, proved>>
     \/ /\ Short(up, 5, upEnd) /\ ~(Has(up, 2) /\ up[1] # UserPassVersion)
        /\ up' = <<>> /\ down' = down /\ spc' = "ending" /\ UNCHANGED <<authed, proved>>
  /\ UNCHANGED <<serverOnly, asked>>

\* The entry of auth.authed gets older than config.AuthTimeout.
AuthExpires ==
  /\ authed /\ authed' = FALSE
  /\ UNCHANGED <<cfg, tcp, spc, srvOpen, buffer, proved, asked, udp>>

\* What parseSocks5Request finds wrong with a header, in its order.
HeaderError(h) ==
  IF h[1] # Version \/ h[3] # 0 THEN GeneralError
  ELSE IF h[2] \notin {CmdConnect, CmdUDPAssociate} THEN CmdUnsupported
  ELSE IF ~KnownAtyp(h[4]) THEN AtypUnsupported
  ELSE Succeeded

RequestLen(s) == MessageLen(s)

parseSocks5Request ==
  /\ spc = "request"
  /\ \/ /\ Has(up, 4) /\ HeaderError(up) = Succeeded /\ Has(up, RequestLen(up))
        /\ up' = Rest(up, RequestLen(up)) /\ down' = down
        /\ asked' = <<up[2], HostOf(up[4])>>
        /\ spc' = (IF up[2] = CmdConnect THEN "dial" ELSE "listen")
     \/ /\ Has(up, 4) /\ HeaderError(up) # Succeeded
        /\ up' = Rest(up, 4) /\ asked' = asked
        /\ Reply(SocksReply(HeaderError(up), "ipv4"), "ending")
     \/ /\ \/ Short(up, 4, upEnd)
           \/ Has(up, 4) /\ HeaderError(up) = Succeeded /\ Short(up, RequestLen(up), upEnd)
        /\ up' = <<>> /\ asked' = asked
        /\ Reply(SocksReply(GeneralError, "ipv4"), "ending")
  /\ UNCHANGED <<serverOnly, authed, proved>>

\* createSocksServerConn and establishParentConnect; socksReplyFromError knows
\* a refused connection from other errors.
doSocksConnect ==
  /\ spc = "dial"
  /\ \/ Reply(SocksReply(Succeeded, cfg.local), "tunnel")
     \/ \E status \in {GeneralError, ConnRefused} :
          Reply(SocksReply(status, "ipv4"), "ending")
  /\ UNCHANGED <<serverOnly, up, login>>

\* The tunnel passes bytes on, and ends for reasons of its own.
ServerTunnel ==
  /\ spc = "tunnel"
  /\ \/ Data \notin Range0(down) /\ down' = Append(down, Data) /\ UNCHANGED <<up, spc>>
     \/ up # <<>> /\ up' = Tail(up) /\ UNCHANGED <<down, spc>>
     \/ spc' = "ending" /\ UNCHANGED <<up, down>>
  /\ UNCHANGED <<serverOnly, login>>

\* Mutant: serveSocks without its deferred c.Close.
EndOpen ==
  /\ spc = "ending" /\ spc' = "ended" /\ buffer' = FALSE
  /\ UNCHANGED <<cfg, tcp, srvOpen, login, udp>>

\* The deferred c.Close of serveSocks, which also puts bufRd back.
End ==
  /\ spc = "ending" /\ spc' = "ended" /\ srvOpen' = FALSE /\ buffer' = FALSE
  /\ UNCHANGED <<cfg, tcp, login, udp>>

-----------------------------------------------------------------------------
(* The UDP association: serveSocksUDPAssociate.                             *)

keepTCP == <<cfg, turn, cpc, upEnd, buffer, login>>

\* listenSocks5UDPRelay and the listen for outConn, either of which can fail.
Listen ==
  /\ spc = "listen"
  /\ \/ /\ relay' = TRUE /\ out' = TRUE /\ spc' = "reply" /\ down' = down
     \/ /\ Reply(SocksReply(GeneralError, "ipv4"), "ending") /\ UNCHANGED sockets
  /\ UNCHANGED <<keepTCP, up, srvOpen, workers, closes, traffic, clock, result, faulty>>

\* touch before the workers start; without it the first deadline is never set.
ReplyRelay ==
  /\ spc = "reply"
  /\ \/ /\ down' = down \o SocksReply(Succeeded, cfg.local) /\ spc' = "read"
        /\ tcpw' = "read" /\ outw' = "read" /\ age' = 0 /\ since' = 0
     \/ /\ upEnd /\ down' = down /\ spc' = "close" /\ UNCHANGED <<workers, clock>>
  /\ UNCHANGED <<keepTCP, up, srvOpen, closes, sockets, traffic, result, faulty>>

\* Mutant: The worker that reads remotes does not touch.
touchRelayOnly(w) == age' = IF w = "relay" THEN 0 ELSE age

touch(w) == age' = 0

\* refreshSocks5UDPReadDeadline fails on a closed socket, unless there is no
\* timeout to set.
TouchFails == cfg.timeout > 0 /\ ~relay

\* done has been closed, the first thing closeAll does.
Published == closing >= 1

\* Mutant: sameSocks5UDPClient compares the IP address only.
SameUDPClientIP(src) == src \in {"here:1", "here:2"}

\* sameSocks5UDPClient: the address that came first, or else the client's IP.
SameUDPClient(src) ==
  IF addr # NoAddr THEN src = addr ELSE src \in {"here:1", "here:2"}

\* One round of the relay loop, up to the touch.  A datagram that cannot be
\* parsed, resolved or sent is dropped, after its source has become clientAddr.
RelayRead ==
  /\ spc = "read" /\ relay
  /\ \E src \in relayIn :
       /\ relayIn' = {}
       /\ \/ /\ ~SameUDPClient(src)
             /\ UNCHANGED <<spc, addr, served, since>>
          \/ /\ SameUDPClient(src)
             /\ addr' = (IF addr = NoAddr THEN src ELSE addr)
             /\ \/ spc' = "touch" /\ out /\ served' = served \cup {src} /\ since' = 0
                \/ UNCHANGED <<spc, served, since>>
  /\ UNCHANGED <<keepTCP, up, down, srvOpen, workers, closes, sockets, outIn, count,
                 age, result, faulty>>

RelayTouch ==
  /\ spc = "touch"
  /\ IF TouchFails
     THEN /\ spc' = "close" /\ result' = (IF Published THEN "closed" ELSE "error")
          /\ UNCHANGED age
     ELSE spc' = "read" /\ touch("relay") /\ UNCHANGED result
  /\ UNCHANGED <<keepTCP, up, down, srvOpen, workers, closes, sockets, traffic, since,
                 faulty>>

\* The read fails, because closeAll has closed the socket or the deadline has
\* passed: done is looked at first.
RelayFails ==
  /\ spc = "read" /\ spc' = "close"
  /\ \/ ~relay /\ result' = (IF Published THEN "closed" ELSE "error")
     \/ /\ relay /\ cfg.timeout > 0 /\ age = cfg.timeout
        /\ result' = (IF Published THEN "closed" ELSE "idle")
  /\ UNCHANGED <<keepTCP, up, down, srvOpen, workers, closes, sockets, traffic, clock,
                 faulty>>

\* Mutant: The goroutine that reads the TCP connection ends without closeAll.
TCPReadNoClose ==
  /\ tcpw = "read"
  /\ \/ srvOpen /\ up # <<>> /\ up' = Tail(up) /\ UNCHANGED tcpw
     \/ (~srvOpen \/ (up = <<>> /\ upEnd)) /\ tcpw' = "ended" /\ UNCHANGED up
  /\ UNCHANGED <<keepTCP, spc, down, srvOpen, outw, closes, sockets, traffic, clock,
                 result, faulty>>

\* The goroutine that reads the TCP connection only waits for its end.
TCPRead ==
  /\ tcpw = "read"
  /\ \/ srvOpen /\ up # <<>> /\ up' = Tail(up) /\ UNCHANGED tcpw
     \/ (~srvOpen \/ (up = <<>> /\ upEnd)) /\ tcpw' = "close" /\ UNCHANGED up
  /\ UNCHANGED <<keepTCP, spc, down, srvOpen, outw, closes, sockets, traffic, clock,
                 result, faulty>>

\* A datagram that comes before the client's first one is dropped.
OutNext == IF addr = NoAddr THEN "read" ELSE "write"

OutRead ==
  /\ outw = "read"
  /\ \/ /\ out /\ outIn /\ outIn' = FALSE
        /\ outw' = OutNext
     \/ /\ ~out /\ UNCHANGED outIn
        /\ outw' = (IF Published THEN "ended" ELSE "close")
  /\ UNCHANGED <<keepTCP, up, down, srvOpen, spc, tcpw, closes, sockets, addr, relayIn,
                 count, served, clock, result, faulty>>

\* A read of an open socket fails by itself.
SocketFails ==
  /\ faulty' = TRUE
  /\ \/ /\ spc = "read" /\ relay /\ spc' = "close" /\ UNCHANGED outw
        /\ result' = (IF Published THEN "closed" ELSE "error")
     \/ /\ outw = "read" /\ out /\ UNCHANGED <<spc, result>>
        /\ outw' = (IF Published THEN "ended" ELSE "close")
  /\ UNCHANGED <<keepTCP, up, down, srvOpen, tcpw, closes, sockets, traffic, clock>>

\* WriteToUDP to the client's address; a failed write drops the datagram.
OutWrite ==
  /\ outw = "write"
  /\ \/ relay /\ outw' = "touch" /\ served' = served \cup {addr} /\ since' = 0
     \/ /\ outw' = (IF Published THEN "ended" ELSE "read")
        /\ UNCHANGED <<served, since>>
  /\ UNCHANGED <<keepTCP, up, down, srvOpen, spc, tcpw, closes, sockets, addr, relayIn,
                 outIn, count, age, result, faulty>>

OutTouch ==
  /\ outw = "touch"
  /\ IF TouchFails THEN outw' = "close" /\ UNCHANGED age
     ELSE outw' = "read" /\ touch("out")
  /\ UNCHANGED <<keepTCP, up, down, srvOpen, spc, tcpw, closes, sockets, traffic, since,
                 result, faulty>>

\* closeOnce.Do: the first caller runs the four statements, in their order, and
\* the others wait for it.
CloseStep(k) ==
  /\ srvOpen' = (IF k = 2 THEN FALSE ELSE srvOpen)
  /\ relay' = (IF k = 3 THEN FALSE ELSE relay)
  /\ out' = (IF k = 4 THEN FALSE ELSE out)

Closers == {"main", "tcp", "out"}
AtClose(w) == \/ w = "main" /\ spc = "close"
              \/ w = "tcp" /\ tcpw = "close"
              \/ w = "out" /\ outw = "close"

CloseAll(w) ==
  /\ AtClose(w) /\ closing < 4 /\ closer \in {w, "nobody"}
  /\ closer' = w /\ closing' = closing + 1 /\ CloseStep(closing + 1)
  /\ UNCHANGED <<keepTCP, up, down, spc, workers, traffic, clock, result, faulty>>

\* The workers end once everything is closed; main waits for them.
CloseDone(w) ==
  /\ AtClose(w) /\ closing = 4
  /\ CASE w = "main" -> spc' = "wait" /\ UNCHANGED workers
       [] w = "tcp"  -> tcpw' = "ended" /\ UNCHANGED <<spc, outw>>
       [] w = "out"  -> outw' = "ended" /\ UNCHANGED <<spc, tcpw>>
  /\ UNCHANGED <<keepTCP, up, down, srvOpen, closes, sockets, traffic, clock, result,
                 faulty>>

\* Mutant: defer closeAll without workers.Wait.
WaitNot ==
  /\ spc = "wait" /\ spc' = "ending"
  /\ UNCHANGED <<keepTCP, up, down, srvOpen, workers, closes, sockets, traffic, clock,
                 result, faulty>>

Wait ==
  /\ spc = "wait" /\ {tcpw, outw} \subseteq {"none", "ended"} /\ spc' = "ending"
  /\ UNCHANGED <<keepTCP, up, down, srvOpen, workers, closes, sockets, traffic, clock,
                 result, faulty>>

\* Datagrams come for the relay and from remotes; time passes.
Datagram ==
  /\ tcpw # "none" /\ count < cfg.datagrams /\ count' = count + 1
  /\ \/ relay /\ relayIn = {} /\ UNCHANGED outIn /\ \E s \in Sources : relayIn' = {s}
     \/ out /\ ~outIn /\ outIn' = TRUE /\ UNCHANGED relayIn
  /\ UNCHANGED <<keepTCP, up, down, srvOpen, spc, workers, closes, sockets, addr, served,
                 clock, result, faulty>>

Tick ==
  /\ relay /\ tcpw # "none" /\ age < cfg.timeout
  /\ age' = age + 1 /\ since' = (IF since < cfg.timeout THEN since + 1 ELSE since)
  /\ UNCHANGED <<keepTCP, up, down, srvOpen, spc, workers, closes, sockets, traffic,
                 result, faulty>>

Done ==
  /\ spc = "ended" /\ upEnd /\ turn = Len(cfg.clients)
  /\ UNCHANGED vars

ClientStep == \/ SendMethods \/ ReadMethod \/ SendUserPass \/ ReadStatus \/ SendRequest
              \/ ReadReply
ServerStep == \/ Peek \/ negotiateSocks5 \/ authSocksUserPass
              \/ parseSocks5Request \/ doSocksConnect \/ End
              \/ Listen \/ ReplyRelay \/ RelayRead \/ RelayTouch \/ RelayFails \/ Wait
OutStep == OutRead \/ OutWrite \/ OutTouch

Next == \/ ClientStep \/ UseTunnel \/ ClientCloses \/ NextClient
        \/ ServerStep \/ HTTPEnds \/ ServerTunnel \/ AuthExpires
        \/ TCPRead \/ OutStep \/ SocketFails \/ Datagram \/ Tick
        \/ \E w \in Closers : CloseAll(w) \/ CloseDone(w)
        \/ Done

Spec == Init /\ [][Next]_vars

\* Each goroutine goes on while it can, a client that has begun a handshake
\* goes on with it, and time passes.  Nobody has to end a tunnel or an HTTP
\* session, to send a datagram or to close, and no socket has to fail.
FairSpec ==
  /\ Spec /\ WF_vars(ClientStep) /\ WF_vars(ServerStep)
  /\ WF_vars(TCPRead) /\ WF_vars(OutStep) /\ WF_vars(Tick)
  /\ \A w \in Closers : WF_vars(CloseAll(w) \/ CloseDone(w))

-----------------------------------------------------------------------------
InHandshake == {"methods", "method", "auth", "status", "request", "reply"}
InAssociation == {"read", "touch", "close", "wait"}

\* Every variable holds one of the values the code can give it; closeAll runs
\* its four statements once.
TypeOK ==
  /\ cfg \in Settings /\ turn \in DOMAIN cfg.clients
  /\ cpc \in InHandshake \cup {"tunnel", "udp", "failed", "closed"}
  /\ spc \in InAssociation \cup {"peek", "http", "methods", "userpass", "request",
               "dial", "tunnel", "listen", "reply", "ending", "ended"}
  /\ up \in Seq(Nat) /\ down \in Seq(Nat)
  /\ upEnd \in BOOLEAN /\ srvOpen \in BOOLEAN /\ buffer \in BOOLEAN
  /\ authed \in BOOLEAN /\ proved \in BOOLEAN /\ relay \in BOOLEAN
  /\ out \in BOOLEAN /\ outIn \in BOOLEAN /\ faulty \in BOOLEAN
  /\ tcpw \in {"none", "read", "close", "ended"}
  /\ outw \in {"none", "read", "write", "touch", "close", "ended"}
  /\ closing \in 0 .. 4 /\ closer \in Closers \cup {"nobody"}
  /\ addr \in Sources \cup {NoAddr} /\ relayIn \subseteq Sources /\ served \subseteq Sources
  /\ count \in 0 .. cfg.datagrams /\ age \in 0 .. cfg.timeout /\ since \in 0 .. cfg.timeout
  /\ result \in {"none", "closed", "error", "idle"}

\* When connect hands the connection out (parent_proxy.go: "Now the socket can
\* be used to pass data"), the server has read this request and no other, and
\* both directions hold bytes of the tunnel only: no byte of the handshake is
\* left over for the tunnel to read, and none of the tunnel's was taken.
HandshakeClean ==
  cpc = "tunnel" =>
    /\ asked = <<CmdConnect, Client.host>>
    /\ Range0(up) \subseteq {Data} /\ Range0(down) \subseteq {Data}

\* negotiateSocks5 lets a client go on to its request only when no
\* authentication is required, its address is allowed, or a client from there
\* has given a right user and password, in this connection or an earlier one.
Admitted ==
  spc \in InAssociation \cup {"request", "dial", "tunnel", "listen", "reply"} =>
    ~cfg.required \/ cfg.ipAllowed \/ proved

\* When serveSocks has ended, both UDP sockets are closed and both goroutines
\* of the association have ended; none of them can read bufRd after it was put
\* back.  "Publish shutdown before closing sockets": the relay loop reports an
\* error only when a socket has failed, not when closeAll has closed it.
AssociationClosed ==
  /\ ~buffer => tcpw # "read"
  /\ spc = "ended" => ~relay /\ ~out /\ {tcpw, outw} \subseteq {"none", "ended"}
  /\ result = "error" => faulty

\* An association passes datagrams on for one address only, one with the IP
\* address of the TCP connection, in both directions.
OneUDPClient ==
  /\ Cardinality(served) <= 1
  /\ served \subseteq {"here:1", "here:2"}
  /\ served # {} => served = {addr}

\* "activity from either direction still keeps it alive": the relay loop calls
\* an association idle only when no datagram has been passed on for the
\* timeout, or the goroutine that has just written one is about to say so.
ActivityKeepsAlive ==
  [][result' = "idle" /\ result # "idle" => since = cfg.timeout \/ outw = "touch"]_vars

\* Neither side waits for the other for ever: a client that goes on with its
\* SOCKS5 handshake gets to its end.
HandshakeEnds == cpc \in InHandshake ~> cpc \notin InHandshake \/ spc = "http"

\* An association ends once the client has closed its TCP connection, or, when
\* there is an idle timeout, once no more datagrams come.
AssociationEnds ==
  spc \in InAssociation /\ (upEnd \/ cfg.timeout > 0) ~> spc = "ended"

=============================================================================
