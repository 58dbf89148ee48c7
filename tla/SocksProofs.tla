----------------------------- MODULE SocksProofs -----------------------------
(***************************************************************************)
(* Proofs about Socks: the handshake hands over a clean connection, nobody *)
(* passes the negotiation without a right to, and a UDP association closes *)
(* what it opened, serves one client and is not cut off while it is used.  *)
(***************************************************************************)
EXTENDS Socks, FiniteSetTheorems, TLAPS

Dead == {"failed", "closed"}
Asking == {"request", "dial", "tunnel", "listen", "reply"}
Here == {"here:1", "here:2"}

\* Who is remembered has proved who he is; who goes on was let in.
LoginInv ==
  /\ authed => proved
  /\ spc \in InAssociation \cup Asking => ~cfg.required \/ cfg.ipAllowed \/ proved

\* The sockets are open from Listen until closeAll gets to them, the workers
\* live while the relay loop does, and what was not closed is not reported.
AssocInv ==
  /\ spc \in InAssociation \cup {"reply"} => (relay <=> closing < 3) /\ (out <=> closing < 4)
  /\ spc \notin InAssociation \cup {"reply"} => ~relay /\ ~out
  /\ spc \notin InAssociation \cup {"ending", "ended"} =>
       tcpw = "none" /\ outw = "none" /\ closing = 0
  /\ spc \in {"ending", "ended"} => tcpw \in {"none", "ended"} /\ outw \in {"none", "ended"}
  /\ spc = "wait" => closing = 4
  /\ ~buffer => spc = "ended"
  /\ result = "error" => faulty

\* Datagrams are passed on for clientAddr alone, which is the client's IP.
UdpInv ==
  /\ addr \in Here \cup {NoAddr} /\ served \subseteq {addr}
  /\ served # {} => addr # NoAddr
  /\ outw = "write" => addr # NoAddr

\* While the relay is open, the deadline is never behind the last datagram,
\* except between passing one on and the touch that follows.
ClockInv ==
  relay /\ spc = "read" /\ outw # "touch" => age <= since

Nil == <<>>
Pair(a, b) == <<a, b>>

\* The messages of the handshake, as this client sends them.
Methods == <<Client.first, Len(Client.methods)>> \o Client.methods
UserPass == <<Client.version, 1, Client.user, 1, Client.passwd>>
Request == <<Version, Client.cmd, Client.rsv>> \o AddrPort(Client.host)

Accepted == asked = <<CmdConnect, Client.host>>

\* The reply to an accepted request, with bytes of the tunnel behind it.
HasSuccess == \E d \in Seq({Data}) : down = SocksReply(Succeeded, cfg.local) \o d

\* Both sides agree that the tunnel stands, or the client has yet to read so.
Agreed == \/ cpc = "reply" /\ Accepted /\ up = Nil /\ HasSuccess
          \/ cpc = "tunnel" /\ Accepted /\ up \in Seq({Data}) /\ down \in Seq({Data})

\* What is on the wire between the server and a client that has not
\* given up and asks for a CONNECT.
Wire ==
  /\ spc \in {"peek", "methods"} =>
       /\ down = Nil
       /\ \/ cpc = "methods" /\ up = Nil
          \/ cpc = "method" /\ up = Methods
  /\ spc = "userpass" =>
       \/ cpc = "method" /\ up = Nil /\ down = Pair(Version, AuthUserPass)
       \/ cpc = "auth" /\ up = Nil /\ down = Nil
       \/ cpc = "status" /\ up = UserPass /\ down = Nil
  /\ spc = "request" =>
       \/ cpc = "method" /\ up = Nil /\ down = Pair(Version, AuthNone)
       \/ cpc = "status" /\ up = Nil /\ down = Pair(UserPassVersion, 0)
       \/ cpc = "request" /\ up = Nil /\ down = Nil
       \/ cpc = "reply" /\ up = Request /\ down = Nil /\ Client.host # "none"
  /\ spc = "dial" => cpc = "reply" /\ Accepted /\ up = Nil /\ down = Nil
  /\ spc = "tunnel" => Agreed
  /\ spc \notin InAssociation \cup {"listen", "reply"}
  /\ spc \in {"http", "ending", "ended"} =>
       \/ cpc = "method" /\ (down = Nil \/ down = Pair(Version, NoAcceptable))
       \/ cpc = "status" /\ down = Pair(UserPassVersion, 1)
       \/ cpc = "request" /\ down = Nil
       \/ cpc = "reply" /\ (down = Nil \/ (Len(down) > 1 /\ down[2] # Succeeded))
       \/ Agreed

WireInv ==
  /\ upEnd <=> cpc \in Dead
  /\ cpc = "tunnel" => Client.cmd = CmdConnect
  /\ ~upEnd /\ Client.cmd = CmdConnect => Wire

SocksInv == TypeOK /\ LoginInv /\ AssocInv /\ UdpInv /\ ClockInv /\ WireInv

-----------------------------------------------------------------------------
(* The messages                                                            *)

\* Where the parts of a concatenation are.
LEMMA ConcatParts ==
  ASSUME NEW s \in Seq(Nat), NEW t \in Seq(Nat)
  PROVE  /\ s \o t \in Seq(Nat) /\ Len(s \o t) = Len(s) + Len(t)
         /\ \A i \in 1 .. Len(s) : (s \o t)[i] = s[i]
         /\ \A i \in 1 .. Len(t) : (s \o t)[Len(s) + i] = t[i]
         /\ Rest(s \o t, Len(s)) = t
BY DEF Rest

\* n zeros have length n.
LEMMA ZerosLen ==
  ASSUME NEW n \in Nat
  PROVE  Zeros(n) \in Seq(Nat) /\ Len(Zeros(n)) = n
<1>1. Zeros(n) \in [1 .. n -> Nat]
  BY DEF Zeros
<1> QED BY <1>1 DEF Zeros

\* What buildSocks5AddrPort makes of each kind of host.
LEMMA AddrPortIs ==
  ASSUME NEW host \in Hosts
  PROVE  /\ AddrPort(host) \in Seq(Nat) /\ Len(AddrPort(host)) >= 1
         /\ host = "ipv4" => AddrPort(host)[1] = 1 /\ Len(AddrPort(host)) = 7
         /\ host = "ipv6" => AddrPort(host)[1] = 4 /\ Len(AddrPort(host)) = 19
         /\ host = "domain" => /\ AddrPort(host)[1] = 3 /\ AddrPort(host)[2] = 2
                               /\ Len(AddrPort(host)) = 6
         /\ host \in {"other", "none"} => AddrPort(host)[1] = 9
<1> DEFINE s == AddrPort(host)
<1>1. CASE host = "ipv4"
  <2> PICK z : z = Zeros(6)
    OBVIOUS
  <2>1. s = <<1>> \o z
    BY <1>1 DEF AddrPort, IPv4
  <2>2. z \in Seq(Nat)
    BY ZerosLen
  <2>3. Len(z) = 6
    BY ZerosLen
  <2>4. s \in Seq(Nat) /\ s[1] = 1 /\ Len(s) = 1 + Len(z)
    BY <2>1, <2>2
  <2>5. Len(s) = 7
    BY <2>3, <2>4
  <2> QED BY <1>1, <2>4, <2>5
<1>2. CASE host = "ipv6"
  <2> PICK z : z = Zeros(18)
    OBVIOUS
  <2>1. s = <<4>> \o z
    BY <1>2 DEF AddrPort, IPv6
  <2>2. z \in Seq(Nat)
    BY ZerosLen
  <2>3. Len(z) = 18
    BY ZerosLen
  <2>4. s \in Seq(Nat) /\ s[1] = 4 /\ Len(s) = 1 + Len(z)
    BY <2>1, <2>2
  <2>5. Len(s) = 19
    BY <2>3, <2>4
  <2> QED BY <1>2, <2>4, <2>5
<1>3. CASE host = "domain"
  <2> PICK z : z = Zeros(4)
    OBVIOUS
  <2>1. s = <<3, 2>> \o z
    BY <1>3 DEF AddrPort, Domain
  <2>2. z \in Seq(Nat)
    BY ZerosLen
  <2>3. Len(z) = 4
    BY ZerosLen
  <2>4. s \in Seq(Nat) /\ s[1] = 3 /\ s[2] = 2 /\ Len(s) = 2 + Len(z)
    BY <2>1, <2>2
  <2>5. Len(s) = 6
    BY <2>3, <2>4
  <2> QED BY <1>3, <2>4, <2>5
<1>4. CASE host \in {"other", "none"}
  <2>1. s = <<9>>
    BY <1>4 DEF AddrPort
  <2> QED BY <1>4, <2>1
<1> QED BY <1>1, <1>2, <1>3, <1>4 DEF Hosts

\* The address type tells which kind of host it was.
LEMMA HostOfIs == HostOf(1) = "ipv4" /\ HostOf(4) = "ipv6" /\ HostOf(3) = "domain"
<1>1. 1 # 4 /\ 1 # 3 /\ 4 # 3
  OBVIOUS
<1> QED BY <1>1, Zenon DEF HostOf, IPv4, IPv6, Domain

\* A message of a header and an address: its parts, and that MessageLen finds
\* where it ends whatever follows.
Message(a, b, c, host) == <<a, b, c>> \o AddrPort(host)

IsMessage(s, a, b, c, host) ==
  /\ s \in Seq(Nat) /\ Len(s) >= 4
  /\ s[1] = a /\ s[2] = b /\ s[3] = c
  /\ host = "ipv4" => s[4] = 1 /\ Len(s) = 10
  /\ host = "ipv6" => s[4] = 4 /\ Len(s) = 22
  /\ host = "domain" => s[4] = 3 /\ s[5] = 2 /\ Len(s) = 9
  /\ host \in {"other", "none"} => s[4] = 9

\* The fields of a message are where its reader looks for them.
LEMMA MessageParts ==
  ASSUME NEW a \in Nat, NEW b \in Nat, NEW c \in Nat, NEW host \in Hosts
  PROVE  IsMessage(Message(a, b, c, host), a, b, c, host)
<1> PICK h : h = <<a, b, c>>
  OBVIOUS
<1> PICK t : t = AddrPort(host)
  OBVIOUS
<1> PICK s : s = Message(a, b, c, host)
  OBVIOUS
<1>1. h \in Seq(Nat) /\ Len(h) = 3 /\ h[1] = a /\ h[2] = b /\ h[3] = c
  OBVIOUS
<1>2. t \in Seq(Nat) /\ Len(t) >= 1
  BY AddrPortIs
<1>3. s = h \o t
  BY DEF Message
<1>4. s \in Seq(Nat) /\ Len(s) = Len(h) + Len(t) /\ s[1] = h[1] /\ s[2] = h[2] /\ s[3] = h[3]
  BY <1>1, <1>2, <1>3
<1>5. Len(s) = 3 + Len(t) /\ s[4] = t[1] /\ (Len(t) >= 2 => s[5] = t[2])
  BY <1>1, <1>2, <1>3
<1>6. s \in Seq(Nat) /\ Len(s) >= 4 /\ s[1] = a /\ s[2] = b /\ s[3] = c
  BY <1>1, <1>2, <1>4, <1>5
<1>7. CASE host = "ipv4"
  <2>1. t[1] = 1 /\ Len(t) = 7
    BY <1>7, AddrPortIs
  <2>2. s[4] = 1 /\ Len(s) = 10
    BY <2>1, <1>5
  <2> QED BY <1>6, <1>7, <2>2 DEF IsMessage
<1>8. CASE host = "ipv6"
  <2>1. t[1] = 4 /\ Len(t) = 19
    BY <1>8, AddrPortIs
  <2>2. s[4] = 4 /\ Len(s) = 22
    BY <2>1, <1>5
  <2> QED BY <1>6, <1>8, <2>2 DEF IsMessage
<1>9. CASE host = "domain"
  <2>1. t[1] = 3 /\ t[2] = 2 /\ Len(t) = 6
    BY <1>9, AddrPortIs
  <2>2. s[4] = 3 /\ s[5] = 2 /\ Len(s) = 9
    BY <2>1, <1>5
  <2> QED BY <1>6, <1>9, <2>2 DEF IsMessage
<1>10. CASE host \in {"other", "none"}
  <2>1. s[4] = 9
    BY <1>10, <1>5, AddrPortIs
  <2> QED BY <1>6, <1>10, <2>1 DEF IsMessage
<1> QED BY <1>7, <1>8, <1>9, <1>10 DEF Hosts

Ends(m, d) == MessageLen(m \o d) = Len(m) /\ Rest(m \o d, Len(m)) = d

\* Reader and writer agree where a message ends, whatever follows it.
LEMMA MessageEnds ==
  ASSUME NEW a \in Nat, NEW b \in Nat, NEW c \in Nat,
         NEW host \in {"ipv4", "ipv6", "domain"}, NEW d \in Seq(Nat)
  PROVE  Ends(Message(a, b, c, host), d)
<1> PICK m : m = Message(a, b, c, host)
  OBVIOUS
<1> PICK s : s = m \o d
  OBVIOUS
<1>0. IsMessage(m, a, b, c, host)
  BY MessageParts DEF Hosts
<1>1. m \in Seq(Nat) /\ Len(m) >= 4
  BY <1>0 DEF IsMessage
<1>2. Rest(s, Len(m)) = d /\ Len(s) = Len(m) + Len(d)
  BY <1>1, ConcatParts
<1>3. Len(m) \in Nat /\ Len(d) \in Nat /\ s[4] = m[4] /\ (Len(m) >= 5 => s[5] = m[5])
  BY <1>1
<1>4. CASE host = "ipv4"
  <2>1. m[4] = 1 /\ Len(m) = 10
    BY <1>0, <1>4, Zenon DEF IsMessage
  <2>2. s[4] = 1 /\ 1 # 3 /\ 1 # 4
    BY <1>3, <2>1
  <2>3. MessageLen(s) = 4 + 4 + 2
    BY <2>2, Zenon DEF MessageLen, IPv4, IPv6, Domain
  <2> QED BY <1>2, <2>1, <2>3 DEF Ends
<1>5. CASE host = "ipv6"
  <2>1. m[4] = 4 /\ Len(m) = 22
    BY <1>0, <1>5, Zenon DEF IsMessage
  <2>2. s[4] = 4 /\ 4 # 1 /\ 4 # 3
    BY <1>3, <2>1
  <2>3. MessageLen(s) = 4 + 16 + 2
    BY <2>2, Zenon DEF MessageLen, IPv4, IPv6, Domain
  <2> QED BY <1>2, <2>1, <2>3 DEF Ends
<1>6. CASE host = "domain"
  <2>1. m[4] = 3 /\ m[5] = 2 /\ Len(m) = 9
    BY <1>0, <1>6, Zenon DEF IsMessage
  <2>2. s[4] = 3 /\ 3 # 1 /\ 3 # 4
    BY <1>3, <2>1
  <2>3. MessageLen(s) = 4 + 1 + (IF Len(s) > 4 THEN s[5] ELSE 0) + 2
    BY <2>2, Zenon DEF MessageLen, IPv4, IPv6, Domain
  <2>4. (IF Len(s) > 4 THEN s[5] ELSE 0) = 2
    BY <1>2, <1>3, <2>1
  <2>5. MessageLen(s) = 9
    BY <2>3, <2>4
  <2> QED BY <1>2, <2>1, <2>5 DEF Ends
<1> QED BY <1>4, <1>5, <1>6

-----------------------------------------------------------------------------
(* What the three groups of actions leave alone                            *)

ClientActs == ClientStep \/ UseTunnel \/ ClientCloses
TalkActs == \/ Peek \/ HTTPEnds \/ negotiateSocks5 \/ authSocksUserPass
            \/ parseSocks5Request \/ doSocksConnect \/ ServerTunnel
AssocActs == \/ Listen \/ ReplyRelay \/ RelayRead \/ RelayTouch \/ RelayFails \/ Wait
             \/ TCPRead \/ OutStep \/ SocketFails \/ Datagram \/ Tick
             \/ \E w \in Closers : CloseAll(w) \/ CloseDone(w)

\* The steps, by who takes them.
LEMMA NextIs ==
  ASSUME [Next]_vars
  PROVE  \/ ClientActs \/ NextClient \/ TalkActs \/ AuthExpires \/ End \/ AssocActs
         \/ UNCHANGED vars
BY Zenon DEF Next, Done, ServerStep, ClientActs, TalkActs, AssocActs

\* What the client does leaves the server's variables alone.
LEMMA ClientLeaves ==
  ASSUME ClientActs
  PROVE  UNCHANGED <<cfg, turn, spc, srvOpen, buffer, login, udp>>
BY DEF ClientActs, ClientStep, SendMethods, ReadMethod, SendUserPass, ReadStatus,
       SendRequest, ReadReply, UseTunnel, ClientCloses, Send, Take, Fail

\* What serveSocks does in the handshake leaves the client's variables alone.
LEMMA TalkLeaves ==
  ASSUME TalkActs
  PROVE  UNCHANGED <<cfg, turn, cpc, upEnd, srvOpen, buffer, udp>>
BY DEF TalkActs, Peek, HTTPEnds, negotiateSocks5, authSocksUserPass,
       parseSocks5Request, doSocksConnect, ServerTunnel, serverOnly

\* What the association does leaves the handshake alone.
LEMMA AssocLeaves ==
  ASSUME AssocActs
  PROVE  UNCHANGED <<cfg, turn, cpc, upEnd, buffer, login>>
BY DEF AssocActs, Listen, ReplyRelay, RelayRead, RelayTouch, RelayFails, Wait, TCPRead,
       OutStep, OutRead, OutWrite, OutTouch, SocketFails, Datagram, Tick, CloseAll,
       CloseDone, keepTCP

\* CloseDone, one caller at a time.
LEMMA CloseDoneCases ==
  ASSUME NEW w \in Closers, CloseDone(w)
  PROVE  /\ closing = 4
         /\ \/ spc = "close" /\ spc' = "wait" /\ UNCHANGED <<tcpw, outw>>
            \/ tcpw = "close" /\ tcpw' = "ended" /\ UNCHANGED <<spc, outw>>
            \/ outw = "close" /\ outw' = "ended" /\ UNCHANGED <<spc, tcpw>>
<1>1. "main" # "tcp" /\ "main" # "out" /\ "tcp" # "out"
  OBVIOUS
<1>2. CASE w = "main"
  BY <1>1, <1>2, Zenon DEF CloseDone, AtClose, workers
<1>3. CASE w = "tcp"
  BY <1>1, <1>3, Zenon DEF CloseDone, AtClose
<1>4. CASE w = "out"
  BY <1>1, <1>4, Zenon DEF CloseDone, AtClose
<1> QED BY <1>2, <1>3, <1>4 DEF Closers

\* The setting never changes.
LEMMA SettingStays ==
  ASSUME [Next]_vars
  PROVE  cfg' = cfg
BY NextIs, ClientLeaves, TalkLeaves, AssocLeaves
   DEF NextClient, AuthExpires, End, vars

\* The setting's and the client's parts have their types.
LEMMA SettingTypes ==
  ASSUME cfg \in Settings
  PROVE  /\ cfg.required \in BOOLEAN /\ cfg.users \in BOOLEAN /\ cfg.ipAllowed \in BOOLEAN
         /\ cfg.users => cfg.required
         /\ cfg.local \in {"ipv4", "ipv6"} /\ cfg.timeout \in Nat /\ cfg.datagrams \in Nat
         /\ cfg.clients \in Seq(ClientTypes) /\ Len(cfg.clients) >= 1
BY SocksAssumption

\* What SocksAssumption says of the client that is connected.
LEMMA ClientIs ==
  ASSUME cfg \in Settings, turn \in DOMAIN cfg.clients
  PROVE  /\ Client.first \in Nat /\ Client.methods \in Seq(Nat) /\ Client.version \in Nat
         /\ Client.user \in Nat /\ Client.passwd \in Nat /\ Client.cmd \in Nat
         /\ Client.rsv \in Nat /\ Client.host \in Hosts
<1>1. Client \in ClientTypes
  BY SettingTypes DEF Client
<1> QED BY <1>1 DEF ClientTypes

-----------------------------------------------------------------------------
(* The types                                                               *)

TypePlaces ==
  /\ cfg \in Settings /\ turn \in DOMAIN cfg.clients
  /\ cpc \in InHandshake \cup {"tunnel", "udp", "failed", "closed"}
  /\ spc \in InAssociation \cup {"peek", "http", "methods", "userpass", "request",
               "dial", "tunnel", "listen", "reply", "ending", "ended"}
  /\ upEnd \in BOOLEAN /\ srvOpen \in BOOLEAN /\ buffer \in BOOLEAN
  /\ authed \in BOOLEAN /\ proved \in BOOLEAN

TypeStreams == up \in Seq(Nat) /\ down \in Seq(Nat)

TypeFlags == relay \in BOOLEAN /\ out \in BOOLEAN /\ outIn \in BOOLEAN /\ faulty \in BOOLEAN

TypeWorkers ==
  /\ tcpw \in {"none", "read", "close", "ended"}
  /\ outw \in {"none", "read", "write", "touch", "close", "ended"}
  /\ closing \in 0 .. 4 /\ closer \in Closers \cup {"nobody"}
  /\ result \in {"none", "closed", "error", "idle"}

TypeTraffic ==
  /\ addr \in Sources \cup {NoAddr} /\ relayIn \subseteq Sources /\ served \subseteq Sources
  /\ count \in 0 .. cfg.datagrams /\ age \in 0 .. cfg.timeout /\ since \in 0 .. cfg.timeout

TypeUDP == TypeFlags /\ TypeWorkers /\ TypeTraffic

\* The type invariant in terms of its parts.
LEMMA TypeParts == TypeOK <=> TypePlaces /\ TypeStreams /\ TypeUDP
BY Zenon DEF TypeOK, TypePlaces, TypeStreams, TypeUDP, TypeFlags, TypeWorkers, TypeTraffic

\* Where everyone is.
LEMMA AfterChoiceIs ==
  ASSUME NEW m \in {AuthNone, AuthUserPass, NoAcceptable}
  PROVE  /\ m = AuthNone => AfterChoice(m) = "request"
         /\ m = AuthUserPass => AfterChoice(m) = "userpass"
         /\ m = NoAcceptable => AfterChoice(m) = "ending"
<1>1. AuthNone # AuthUserPass /\ AuthNone # NoAcceptable /\ AuthUserPass # NoAcceptable
  BY DEF AuthNone, AuthUserPass, NoAcceptable
<1> QED BY <1>1, Zenon DEF AfterChoice

\* The method that the server chooses.
LEMMA ChoiceIs ==
  ASSUME NEW ms
  PROVE  Choice(ms) \in {AuthNone, AuthUserPass, NoAcceptable}
BY DEF Choice

\* Every step keeps the types of the places.
LEMMA PlacesStep ==
  ASSUME TypePlaces, [Next]_vars
  PROVE  TypePlaces'
<1> USE DEF TypePlaces
<1>0. cfg' = cfg
  BY SettingStays
<1>1. CASE ClientActs
  <2>1. cpc' \in InHandshake \cup {"tunnel", "udp", "failed", "closed"}
    BY <1>1 DEF ClientActs, ClientStep, SendMethods, ReadMethod, SendUserPass, ReadStatus,
       SendRequest, ReadReply, UseTunnel, ClientCloses, Send, Take, Fail, InHandshake
  <2>2. upEnd' \in BOOLEAN
    BY <1>1 DEF ClientActs, ClientStep, SendMethods, ReadMethod, SendUserPass, ReadStatus,
       SendRequest, ReadReply, UseTunnel, ClientCloses, Send, Take, Fail
  <2> QED BY <1>0, <1>1, <2>1, <2>2, ClientLeaves DEF login
<1>2. CASE NextClient
  <2>1. turn' \in DOMAIN cfg.clients
    BY <1>2, SettingTypes DEF NextClient
  <2> QED BY <1>2, <2>1 DEF NextClient, InHandshake
<1>3. CASE TalkActs
  <2>1. UNCHANGED <<cfg, turn, cpc, upEnd, srvOpen, buffer>>
    BY <1>3, TalkLeaves
  <2>2. ASSUME negotiateSocks5 PROVE TypePlaces'
    <3>1. spc' \in {"request", "userpass", "ending"}
      BY <2>2, ChoiceIs, AfterChoiceIs DEF negotiateSocks5, Reply
    <3> QED BY <2>1, <2>2, <3>1 DEF negotiateSocks5, login
  <2>3. ASSUME authSocksUserPass PROVE TypePlaces'
    <3>1. spc' \in {"request", "ending"} /\ authed' \in BOOLEAN /\ proved' \in BOOLEAN
      BY <2>3 DEF authSocksUserPass, Reply
    <3> QED BY <2>1, <3>1
  <2>4. ASSUME Peek \/ HTTPEnds \/ parseSocks5Request \/ doSocksConnect \/ ServerTunnel
        PROVE  TypePlaces'
    BY <2>1, <2>4 DEF Peek, HTTPEnds, parseSocks5Request, doSocksConnect, ServerTunnel,
       Reply, login
  <2> QED BY <1>3, <2>2, <2>3, <2>4 DEF TalkActs
<1>4. CASE AuthExpires \/ End
  BY <1>4 DEF AuthExpires, End, tcp, login
<1>5. CASE AssocActs
  <2>1. UNCHANGED <<cfg, turn, cpc, upEnd, buffer, authed, proved>>
    BY <1>5, AssocLeaves DEF login
  <2>2. ASSUME Listen \/ ReplyRelay \/ RelayRead \/ RelayTouch \/ RelayFails \/ Wait
               \/ TCPRead \/ OutStep \/ SocketFails \/ Datagram \/ Tick
        PROVE  TypePlaces'
    BY <2>1, <2>2 DEF Listen, ReplyRelay, RelayRead, RelayTouch, RelayFails, Wait, TCPRead,
       OutStep, OutRead, OutWrite, OutTouch, SocketFails, Datagram, Tick, Reply,
       InAssociation
  <2>3. ASSUME NEW w \in Closers, CloseAll(w) PROVE TypePlaces'
    BY <2>1, <2>3 DEF CloseAll, CloseStep
  <2>4. ASSUME NEW w \in Closers, CloseDone(w) PROVE TypePlaces'
    BY <2>1, <2>4, CloseDoneCases DEF CloseDone, InAssociation
  <2> QED BY <1>5, <2>2, <2>3, <2>4 DEF AssocActs
<1>6. CASE UNCHANGED vars
  BY <1>6 DEF vars, tcp, login
<1> QED BY <1>1, <1>2, <1>3, <1>4, <1>5, <1>6, NextIs

\* What is on the wire are numbers.
LEMMA RestSeq ==
  ASSUME NEW s \in Seq(Nat), NEW n \in Nat
  PROVE  Rest(s, n) \in Seq(Nat)
BY DEF Rest

\* The length of a message whose address type is known.
LEMMA MessageLenIs ==
  ASSUME NEW s \in Seq(Nat), Len(s) >= 4, KnownAtyp(s[4])
  PROVE  MessageLen(s) \in Nat
<1> USE DEF KnownAtyp, IPv4, IPv6, Domain
<1>1. CASE s[4] = 1
  <2>1. 1 # 3 /\ 1 # 4
    OBVIOUS
  <2>2. MessageLen(s) = 4 + 4 + 2
    BY <1>1, <2>1, Zenon DEF MessageLen
  <2> QED BY <2>2
<1>2. CASE s[4] = 4
  <2>1. 4 # 3 /\ 4 # 1
    OBVIOUS
  <2>2. MessageLen(s) = 4 + 16 + 2
    BY <1>2, <2>1, Zenon DEF MessageLen
  <2> QED BY <2>2
<1>3. CASE s[4] = 3
  <2>1. 3 # 4 /\ 3 # 1
    OBVIOUS
  <2>2. MessageLen(s) = 4 + 1 + (IF Len(s) > 4 THEN s[5] ELSE 0) + 2
    BY <1>3, <2>1, Zenon DEF MessageLen
  <2>3. (IF Len(s) > 4 THEN s[5] ELSE 0) \in Nat
    OBVIOUS
  <2> QED BY <2>2, <2>3
<1> QED BY <1>1, <1>2, <1>3

\* A reply is a message of the server.
LEMMA ReplyTypes ==
  ASSUME NEW status \in Nat, NEW host \in {"ipv4", "ipv6"}
  PROVE  /\ SocksReply(status, host) \in Seq(Nat)
         /\ SocksReply(status, host) = Message(Version, status, 0, host)
<1>1. SocksReply(status, host) = Message(Version, status, 0, host)
  BY DEF SocksReply, Message
<1>2. host \in Hosts /\ Version \in Nat
  BY DEF Hosts, Version
<1> QED BY <1>1, <1>2, MessageParts DEF IsMessage

\* What a header can be refused for.
LEMMA HeaderErrorIs ==
  ASSUME NEW h
  PROVE  HeaderError(h) \in {0, 1, 7, 8}
BY DEF HeaderError, GeneralError, CmdUnsupported, AtypUnsupported, Succeeded

\* Every step keeps the types of the two streams.
LEMMA StreamsStep ==
  ASSUME TypePlaces, TypeStreams, [Next]_vars
  PROVE  TypeStreams'
<1> USE DEF TypeStreams
<1>1. /\ Client.first \in Nat /\ Client.methods \in Seq(Nat) /\ Client.version \in Nat
      /\ Client.user \in Nat /\ Client.passwd \in Nat /\ Client.cmd \in Nat
      /\ Client.rsv \in Nat /\ Client.host \in Hosts
  BY ClientIs DEF TypePlaces
<1>2. cfg.local \in {"ipv4", "ipv6"}
  BY SettingTypes DEF TypePlaces
<1>3. Version \in Nat /\ UserPassVersion \in Nat /\ Data \in Nat
  BY DEF Version, UserPassVersion, Data
<1>12. /\ <<>> \in Seq(Nat) /\ Append(down, Data) \in Seq(Nat)
       /\ up # <<>> => Tail(up) \in Seq(Nat)
  BY <1>3
<1>4. ASSUME NEW msg \in Seq(Nat), NEW next, Send(msg, next) PROVE TypeStreams'
  BY <1>4 DEF Send
<1>5. ASSUME NEW n \in Nat, NEW next, Take(n, next) PROVE TypeStreams'
  BY <1>5, RestSeq DEF Take
<1>6. ASSUME NEW msg \in Seq(Nat), NEW next, Reply(msg, next) PROVE down' \in Seq(Nat)
  <2>1. down \o msg \in Seq(Nat)
    BY ConcatParts
  <2> QED BY <1>6, <2>1 DEF Reply
<1>7. ASSUME Fail \/ ClientCloses PROVE TypeStreams'
  BY <1>7 DEF Fail, ClientCloses
<1>8. CASE ClientActs
  <2>1. ASSUME SendMethods PROVE TypeStreams'
    <3>1. <<Client.first, Len(Client.methods)>> \in Seq(Nat)
      BY <1>1
    <3>2. <<Client.first, Len(Client.methods)>> \o Client.methods \in Seq(Nat)
      BY <1>1, <3>1, ConcatParts
    <3> QED BY <2>1, <1>4, <3>2 DEF SendMethods
  <2>2. ASSUME SendUserPass PROVE TypeStreams'
    <3>1. <<Client.version, 1, Client.user, 1, Client.passwd>> \in Seq(Nat)
      BY <1>1
    <3> QED BY <2>2, <1>4, <3>1 DEF SendUserPass
  <2>3. ASSUME SendRequest PROVE TypeStreams'
    <3>1. IsMessage(Message(Version, Client.cmd, Client.rsv, Client.host),
                    Version, Client.cmd, Client.rsv, Client.host)
      BY <1>1, <1>3, MessageParts
    <3>2. <<Version, Client.cmd, Client.rsv>> \o AddrPort(Client.host) \in Seq(Nat)
      BY <3>1 DEF IsMessage, Message
    <3> QED BY <2>3, <1>4, <1>7, <3>2 DEF SendRequest
  <2>4. ASSUME ReadMethod \/ ReadStatus PROVE TypeStreams'
    BY <2>4, <1>5, <1>7 DEF ReadMethod, ReadStatus
  <2>5. ASSUME ReadReply PROVE TypeStreams'
    <3>1. CASE Fail
      BY <3>1, <1>7
    <3>2. CASE /\ Has(down, 4) /\ KnownAtyp(down[4])
               /\ \E next : Take(ReplyLen(down), next)
      <4>1. ReplyLen(down) \in Nat
        BY <3>2, MessageLenIs DEF ReplyLen, Has
      <4> QED BY <3>2, <4>1, <1>5
    <3> QED BY <2>5, <3>1, <3>2, Zenon DEF ReadReply
  <2>6. ASSUME UseTunnel PROVE TypeStreams'
    <3>1. <<Data>> \in Seq(Nat)
      BY <1>3
    <3> QED BY <2>6, <3>1, <1>4, <1>5 DEF UseTunnel
  <2> QED BY <1>8, <1>7, <2>1, <2>2, <2>3, <2>4, <2>5, <2>6 DEF ClientActs, ClientStep
<1>9. CASE TalkActs
  <2>1. ASSUME Peek \/ HTTPEnds PROVE TypeStreams'
    BY <2>1 DEF Peek, HTTPEnds
  <2>2. ASSUME negotiateSocks5 PROVE TypeStreams'
    <3>1. up' \in Seq(Nat)
      <4>1. CASE Has(up, 2) /\ up' = Rest(up, 2 + up[2])
        <5>1. 2 + up[2] \in Nat
          BY <4>1 DEF Has
        <5> QED BY <4>1, <5>1, RestSeq
      <4>2. CASE up' = Rest(up, 2)
        BY <4>2, RestSeq
      <4>3. CASE up' = <<>>
        BY <4>3, <1>12
      <4> QED BY <2>2, <4>1, <4>2, <4>3, Zenon DEF negotiateSocks5
    <3>2. ASSUME NEW m \in {AuthNone, AuthUserPass, NoAcceptable}
          PROVE  <<Version, m>> \in Seq(Nat)
      BY <3>2, <1>3 DEF AuthNone, AuthUserPass, NoAcceptable
    <3>3. down' \in Seq(Nat)
      BY <2>2, <1>6, <3>2, ChoiceIs DEF negotiateSocks5
    <3> QED BY <3>1, <3>3
  <2>3. ASSUME authSocksUserPass PROVE TypeStreams'
    <3>1. up' \in Seq(Nat)
      <4>1. CASE up' = Rest(up, 5) \/ up' = Rest(up, 2)
        BY <4>1, RestSeq
      <4>2. CASE up' = <<>>
        BY <4>2, <1>12
      <4> QED BY <2>3, <4>1, <4>2, Zenon DEF authSocksUserPass
    <3>2. <<UserPassVersion, 0>> \in Seq(Nat) /\ <<UserPassVersion, 1>> \in Seq(Nat)
      BY <1>3
    <3>3. down' \in Seq(Nat)
      BY <2>3, <1>6, <3>2 DEF authSocksUserPass
    <3> QED BY <3>1, <3>3
  <2>4. ASSUME parseSocks5Request PROVE TypeStreams'
    <3>1. up' \in Seq(Nat)
      <4>1. CASE up' = Rest(up, 4)
        BY <4>1, RestSeq
      <4>3. CASE up' = <<>>
        BY <4>3, <1>12
      <4>2. CASE /\ Has(up, 4) /\ HeaderError(up) = Succeeded
                 /\ up' = Rest(up, RequestLen(up))
        <5>1. KnownAtyp(up[4])
          BY <4>2 DEF HeaderError, GeneralError, CmdUnsupported, AtypUnsupported, Succeeded
        <5>2. RequestLen(up) \in Nat
          BY <4>2, <5>1, MessageLenIs DEF RequestLen, Has
        <5> QED BY <4>2, <5>2, RestSeq
      <4> QED BY <2>4, <4>1, <4>2, <4>3, Zenon DEF parseSocks5Request
    <3>2. /\ SocksReply(HeaderError(up), "ipv4") \in Seq(Nat)
          /\ SocksReply(GeneralError, "ipv4") \in Seq(Nat)
      BY ReplyTypes, HeaderErrorIs DEF GeneralError
    <3>3. down' \in Seq(Nat)
      BY <2>4, <1>6, <3>2 DEF parseSocks5Request
    <3> QED BY <3>1, <3>3
  <2>5. ASSUME doSocksConnect PROVE TypeStreams'
    <3>1. /\ SocksReply(Succeeded, cfg.local) \in Seq(Nat)
          /\ SocksReply(ConnRefused, "ipv4") \in Seq(Nat)
          /\ SocksReply(GeneralError, "ipv4") \in Seq(Nat)
      BY <1>2, ReplyTypes DEF GeneralError, ConnRefused, Succeeded
    <3> QED BY <2>5, <1>6, <3>1 DEF doSocksConnect
  <2>6. ASSUME ServerTunnel PROVE TypeStreams'
    BY <2>6, <1>12, Zenon DEF ServerTunnel
  <2> QED BY <1>9, <2>1, <2>2, <2>3, <2>4, <2>5, <2>6 DEF TalkActs
<1>10. CASE NextClient \/ AuthExpires \/ End \/ UNCHANGED vars
  BY <1>10, <1>12, Zenon DEF NextClient, AuthExpires, End, vars, tcp
<1>11. CASE AssocActs
  <2>1. ASSUME RelayRead \/ RelayTouch \/ RelayFails \/ Wait \/ OutStep \/ SocketFails
               \/ Datagram \/ Tick
        PROVE  TypeStreams'
    BY <2>1 DEF RelayRead, RelayTouch, RelayFails, Wait, OutStep, OutRead, OutWrite,
       OutTouch, SocketFails, Datagram, Tick
  <2>2. ASSUME NEW w \in Closers, CloseAll(w) \/ CloseDone(w) PROVE TypeStreams'
    BY <2>2 DEF CloseAll, CloseDone
  <2>3. ASSUME Listen PROVE TypeStreams'
    <3>1. SocksReply(GeneralError, "ipv4") \in Seq(Nat)
      BY ReplyTypes DEF GeneralError
    <3> QED BY <2>3, <1>6, <3>1 DEF Listen
  <2>4. ASSUME ReplyRelay PROVE TypeStreams'
    <3>1. SocksReply(Succeeded, cfg.local) \in Seq(Nat)
      BY <1>2, ReplyTypes DEF Succeeded
    <3>2. down \o SocksReply(Succeeded, cfg.local) \in Seq(Nat)
      BY <3>1, ConcatParts
    <3> QED BY <2>4, <3>2 DEF ReplyRelay
  <2>5. ASSUME TCPRead PROVE TypeStreams'
    BY <2>5, <1>12, Zenon DEF TCPRead
  <2> QED BY <1>11, <2>1, <2>2, <2>3, <2>4, <2>5 DEF AssocActs
<1> QED BY <1>8, <1>9, <1>10, <1>11, NextIs

\* The parts of the association.
LEMMA UDPTypesStay ==
  ASSUME TypeUDP, UNCHANGED <<cfg, udp>>
  PROVE  TypeUDP'
BY DEF TypeUDP, TypeFlags, TypeWorkers, TypeTraffic, udp, workers, closes, sockets,
       traffic, clock

\* The association keeps the types of its sockets and workers.
LEMMA FlagsStep ==
  ASSUME TypePlaces, TypeUDP, AssocActs
  PROVE  TypeFlags' /\ TypeWorkers'
<1> USE DEF TypeUDP, TypeFlags, TypeWorkers, workers, closes, sockets, traffic
<1>1. ASSUME Listen \/ ReplyRelay \/ RelayRead \/ RelayTouch PROVE TypeFlags' /\ TypeWorkers'
  <2>1. TypeWorkers'
    BY <1>1 DEF Listen, ReplyRelay, RelayRead, RelayTouch
  <2>2. TypeFlags'
    BY <1>1 DEF Listen, ReplyRelay, RelayRead, RelayTouch
  <2> QED BY <2>1, <2>2
<1>2. ASSUME RelayFails \/ Wait \/ TCPRead PROVE TypeFlags' /\ TypeWorkers'
  BY <1>2 DEF RelayFails, Wait, TCPRead
<1>3. ASSUME OutStep PROVE TypeFlags' /\ TypeWorkers'
  BY <1>3 DEF OutStep, OutRead, OutNext, OutWrite, OutTouch
<1>4. ASSUME SocketFails \/ Datagram \/ Tick PROVE TypeFlags' /\ TypeWorkers'
  <2>1. TypeWorkers'
    BY <1>4 DEF SocketFails, Datagram, Tick
  <2>2. TypeFlags'
    BY <1>4 DEF SocketFails, Datagram, Tick
  <2> QED BY <2>1, <2>2
<1>5. ASSUME NEW w \in Closers, CloseAll(w) PROVE TypeFlags' /\ TypeWorkers'
  <2>1. TypeWorkers'
    BY <1>5 DEF CloseAll
  <2>2. TypeFlags'
    BY <1>5 DEF CloseAll, CloseStep
  <2> QED BY <2>1, <2>2
<1>6. ASSUME NEW w \in Closers, CloseDone(w) PROVE TypeFlags' /\ TypeWorkers'
  BY <1>6, CloseDoneCases DEF CloseDone
<1> QED BY <1>1, <1>2, <1>3, <1>4, <1>5, <1>6, Zenon DEF AssocActs

\* The association keeps the types of its addresses and clocks.
LEMMA TrafficStep ==
  ASSUME TypePlaces, TypeUDP, UdpInv, AssocActs
  PROVE  TypeTraffic'
<1> USE DEF TypeUDP, TypeTraffic, traffic, clock
<1>0. cfg' = cfg /\ cfg.timeout \in Nat /\ cfg.datagrams \in Nat
  BY AssocLeaves, SettingTypes DEF TypePlaces
<1>1. ASSUME Listen \/ RelayFails \/ Wait \/ TCPRead \/ OutRead \/ SocketFails
      PROVE  TypeTraffic'
  BY <1>0, <1>1 DEF Listen, RelayFails, Wait, TCPRead, OutRead, SocketFails
<1>2. ASSUME ReplyRelay \/ RelayTouch \/ OutTouch PROVE TypeTraffic'
  BY <1>0, <1>2 DEF ReplyRelay, RelayTouch, OutTouch, touch
<1>3. ASSUME RelayRead PROVE TypeTraffic'
  <2>1. PICK src \in relayIn :
          /\ relayIn' = {} /\ addr' \in {addr, src} /\ served' \subseteq served \cup {src}
          /\ since' \in {since, 0} /\ UNCHANGED <<count, age>>
    BY <1>3 DEF RelayRead
  <2> QED BY <1>0, <2>1
<1>4. ASSUME OutWrite PROVE TypeTraffic'
  <2>1. /\ served' \subseteq served \cup {addr} /\ addr # NoAddr
        /\ since' \in {since, 0} /\ UNCHANGED <<addr, relayIn, count, age>>
    BY <1>4 DEF OutWrite, UdpInv
  <2> QED BY <1>0, <2>1
<1>5. ASSUME Datagram PROVE TypeTraffic'
  <2>1. /\ relayIn' \subseteq Sources /\ count < cfg.datagrams /\ count' = count + 1
        /\ UNCHANGED <<addr, served, age, since>>
    BY <1>5 DEF Datagram
  <2> QED BY <1>0, <2>1
<1>6. ASSUME Tick PROVE TypeTraffic'
  BY <1>0, <1>6 DEF Tick
<1>7. ASSUME NEW w \in Closers, CloseAll(w) \/ CloseDone(w) PROVE TypeTraffic'
  BY <1>0, <1>7 DEF CloseAll, CloseDone
<1> QED BY <1>1, <1>2, <1>3, <1>4, <1>5, <1>6, <1>7, Zenon DEF AssocActs, OutStep

\* Every step keeps the types of the association.
LEMMA UDPTypesStep ==
  ASSUME TypePlaces, TypeUDP, UdpInv, [Next]_vars
  PROVE  TypeUDP'
<1>1. CASE ClientActs \/ TalkActs
  BY <1>1, ClientLeaves, TalkLeaves, UDPTypesStay
<1>2. CASE AuthExpires \/ End \/ UNCHANGED vars
  BY <1>2, UDPTypesStay DEF AuthExpires, End, vars
<1>3. CASE NextClient
  <2>0. cfg' = cfg /\ cfg.timeout \in Nat /\ cfg.datagrams \in Nat
    BY SettingStays, SettingTypes DEF TypePlaces
  <2>1. TypeFlags'
    BY <1>3 DEF NextClient, TypeUDP, TypeFlags, sockets
  <2>3. TypeWorkers'
    BY <1>3 DEF NextClient, TypeWorkers
  <2>2. TypeTraffic'
    BY <1>3, <2>0 DEF NextClient, TypeTraffic
  <2> QED BY <2>1, <2>2, <2>3 DEF TypeUDP
<1>4. CASE AssocActs
  BY <1>4, FlagsStep, TrafficStep DEF TypeUDP
<1> QED BY <1>1, <1>2, <1>3, <1>4, NextIs

\* Every step keeps the type invariant.
LEMMA TypeStep ==
  ASSUME TypeOK, UdpInv, [Next]_vars
  PROVE  TypeOK'
<1>1. TypePlaces /\ TypeStreams /\ TypeUDP
  BY TypeParts
<1>2. TypePlaces' /\ TypeStreams' /\ TypeUDP'
  BY <1>1, PlacesStep, StreamsStep, UDPTypesStep
<1> QED BY <1>2, TypeParts, PTL

-----------------------------------------------------------------------------
(* Who may go on                                                           *)

\* Every step keeps LoginInv.
LEMMA LoginStep ==
  ASSUME TypeOK, LoginInv, [Next]_vars
  PROVE  LoginInv'
<1> USE DEF LoginInv, Asking, InAssociation
<1>0. cfg' = cfg /\ (cfg.users => cfg.required) /\ cfg.required \in BOOLEAN
  BY SettingStays, SettingTypes DEF TypeOK
<1>1. CASE ClientActs
  BY <1>0, <1>1, ClientLeaves DEF login
<1>2. CASE NextClient \/ AuthExpires \/ End \/ UNCHANGED vars
  BY <1>0, <1>2 DEF NextClient, AuthExpires, End, vars, login
<1>3. CASE AssocActs
  <2>1. UNCHANGED <<authed, proved>>
    BY <1>3, AssocLeaves DEF login
  <2>2. spc' \in InAssociation \cup Asking => spc \in InAssociation \cup Asking
    <3>1. ASSUME NEW w \in Closers, CloseAll(w) \/ CloseDone(w)
          PROVE  spc' = spc \/ (spc = "close" /\ spc' = "wait")
      BY <3>1, CloseDoneCases DEF CloseAll
    <3>2. ASSUME Listen \/ ReplyRelay \/ RelayRead \/ RelayTouch \/ RelayFails \/ Wait
                 \/ TCPRead \/ OutStep \/ SocketFails \/ Datagram \/ Tick
          PROVE  spc' = spc \/ spc \in {"listen", "reply", "read", "touch", "wait"}
      BY <3>2 DEF Listen, ReplyRelay, RelayRead, RelayTouch, RelayFails, Wait, TCPRead,
         OutStep, OutRead, OutWrite, OutTouch, SocketFails, Datagram, Tick
    <3> QED BY <1>3, <3>1, <3>2 DEF AssocActs
  <2> QED BY <1>0, <2>1, <2>2
<1>4. CASE negotiateSocks5
  <2>1. UNCHANGED <<authed, proved>>
    BY <1>4 DEF negotiateSocks5, login
  <2>2. PICK ms : \/ spc' = "ending" \/ spc' = AfterChoice(Choice(ms))
    BY <1>4 DEF negotiateSocks5, Reply
  <2>3. Choice(ms) = AuthNone => ~cfg.required \/ authed \/ cfg.ipAllowed
    BY DEF Choice, socksNoAuthAllowed, AuthNone, AuthUserPass, NoAcceptable
  <2>4. spc' = "request" => Choice(ms) = AuthNone
    BY <2>2, ChoiceIs, AfterChoiceIs
  <2>5. spc' \in {"request", "userpass", "ending"}
    BY <2>2, ChoiceIs, AfterChoiceIs
  <2> QED BY <1>0, <2>1, <2>3, <2>4, <2>5
<1>5. CASE authSocksUserPass
  <2>1. spc' \in {"request", "ending"} /\ (proved => proved')
    BY <1>5 DEF authSocksUserPass, Reply, TypeOK
  <2>2. spc' = "request" \/ (authed' /\ ~authed) => proved'
    BY <1>5 DEF authSocksUserPass, Reply, Accepts, TypeOK
  <2> QED BY <1>0, <2>1, <2>2 DEF TypeOK
<1>6. CASE Peek \/ HTTPEnds \/ parseSocks5Request \/ doSocksConnect \/ ServerTunnel
  BY <1>0, <1>6 DEF Peek, HTTPEnds, parseSocks5Request, doSocksConnect, ServerTunnel, Reply,
     login
<1> QED BY <1>1, <1>2, <1>3, <1>4, <1>5, <1>6, NextIs DEF TalkActs

-----------------------------------------------------------------------------
(* The association                                                         *)

\* Every step keeps AssocInv.
LEMMA AssocStep ==
  ASSUME TypeOK, AssocInv, [Next]_vars
  PROVE  AssocInv'
<1> USE DEF AssocInv, InAssociation
<1>0. closing \in 0 .. 4 /\ relay \in BOOLEAN /\ out \in BOOLEAN /\ buffer \in BOOLEAN
      /\ faulty \in BOOLEAN
  BY DEF TypeOK
<1>1. CASE ClientActs
  BY <1>1, ClientLeaves DEF udp, workers, closes, sockets
<1>2. CASE TalkActs
  <2>1. UNCHANGED <<buffer, relay, out, closing, tcpw, outw, result, faulty>>
    BY <1>2, TalkLeaves DEF udp, workers, closes, sockets
  <2>2. /\ spc \in {"peek", "http", "methods", "userpass", "request", "dial", "tunnel"}
        /\ spc' \in {"peek", "http", "methods", "userpass", "request", "dial", "tunnel",
                     "ending", "listen"}
    <3>1. ASSUME negotiateSocks5 PROVE spc = "methods" /\ spc' \in {"request", "userpass", "ending"}
      BY <3>1, ChoiceIs, AfterChoiceIs DEF negotiateSocks5, Reply
    <3>2. ASSUME Peek \/ HTTPEnds \/ authSocksUserPass \/ parseSocks5Request
                 \/ doSocksConnect \/ ServerTunnel
          PROVE  /\ spc \in {"peek", "http", "userpass", "request", "dial", "tunnel"}
                 /\ spc' \in {"http", "methods", "request", "dial", "tunnel", "ending", "listen"}
      BY <3>2 DEF Peek, HTTPEnds, authSocksUserPass, parseSocks5Request, doSocksConnect,
         ServerTunnel, Reply
    <3> QED BY <1>2, <3>1, <3>2 DEF TalkActs
  <2> QED BY <2>1, <2>2
<1>3. CASE NextClient
  BY <1>3 DEF NextClient, sockets
<1>4. CASE AuthExpires \/ UNCHANGED vars
  BY <1>4 DEF AuthExpires, vars, udp, workers, closes, sockets
<1>5. CASE End
  BY <1>5 DEF End, udp, workers, closes, sockets
<1>6. CASE AssocActs
  <2> USE DEF workers, closes, sockets
  <2>0. buffer' = buffer
    BY <1>6, AssocLeaves
  <2>1. ASSUME Listen \/ ReplyRelay PROVE AssocInv'
    BY <1>0, <2>0, <2>1 DEF Listen, ReplyRelay, Reply
  <2>2. ASSUME RelayRead \/ RelayTouch PROVE AssocInv'
    BY <1>0, <2>0, <2>2 DEF RelayRead, RelayTouch, TouchFails, Published
  <2>3. ASSUME RelayFails \/ SocketFails PROVE AssocInv'
    BY <1>0, <2>0, <2>3 DEF RelayFails, SocketFails, Published
  <2>4. ASSUME Wait \/ TCPRead \/ Datagram \/ Tick PROVE AssocInv'
    BY <1>0, <2>0, <2>4 DEF Wait, TCPRead, Datagram, Tick
  <2>5. ASSUME OutStep PROVE AssocInv'
    BY <1>0, <2>0, <2>5 DEF OutStep, OutRead, OutNext, OutWrite, OutTouch
  <2>6. ASSUME NEW w \in Closers, CloseAll(w) PROVE AssocInv'
    <3>1. /\ spc \in InAssociation /\ closing < 4 /\ closing' = closing + 1
          /\ relay' = (IF closing + 1 = 3 THEN FALSE ELSE relay)
          /\ out' = (IF closing + 1 = 4 THEN FALSE ELSE out)
          /\ UNCHANGED <<spc, tcpw, outw, result, faulty>>
      <4>1. AtClose(w) /\ spc \in InAssociation \cup {"peek", "http", "methods", "userpass",
               "request", "dial", "tunnel", "listen", "reply", "ending", "ended"}
        BY <2>6 DEF CloseAll, TypeOK
      <4>2. spc \in InAssociation
        BY <4>1 DEF AtClose
      <4> QED BY <2>6, <4>2 DEF CloseAll, CloseStep
    <3>2. (relay' <=> closing' < 3) /\ (out' <=> closing' < 4)
      BY <1>0, <3>1
    <3> QED BY <1>0, <2>0, <3>1, <3>2
  <2>7. ASSUME NEW w \in Closers, CloseDone(w) PROVE AssocInv'
    <3>1. UNCHANGED <<relay, out, closing, result, faulty>>
      BY <2>7 DEF CloseDone
    <3> QED BY <1>0, <2>0, <2>7, <3>1, CloseDoneCases
  <2> QED BY <1>6, <2>1, <2>2, <2>3, <2>4, <2>5, <2>6, <2>7, Zenon DEF AssocActs
<1> QED BY <1>1, <1>2, <1>3, <1>4, <1>5, <1>6, NextIs

\* Every step keeps UdpInv.
LEMMA UdpStep ==
  ASSUME TypeOK, AssocInv, UdpInv, [Next]_vars
  PROVE  UdpInv'
<1> USE DEF UdpInv, Here, NoAddr
<1>1. CASE UNCHANGED <<addr, served, outw>>
  BY <1>1
<1>2. CASE NextClient
  BY <1>2 DEF NextClient
<1>3. CASE ClientActs \/ TalkActs \/ AuthExpires \/ End \/ UNCHANGED vars
  BY <1>1, <1>3, ClientLeaves, TalkLeaves DEF AuthExpires, End, vars, udp, workers, traffic
<1>4. CASE AssocActs
  <2> USE DEF workers, traffic
  <2>1. ASSUME Listen \/ RelayTouch \/ RelayFails \/ Wait \/ TCPRead \/ Datagram \/ Tick
        PROVE  UdpInv'
    BY <1>1, <2>1 DEF Listen, RelayTouch, RelayFails, Wait, TCPRead, Datagram, Tick
  <2>2. ASSUME ReplyRelay \/ SocketFails \/ OutTouch \/ OutRead PROVE UdpInv'
    BY <2>2 DEF ReplyRelay, SocketFails, OutTouch, OutRead, OutNext
  <2>3. ASSUME RelayRead PROVE UdpInv'
    <3>1. PICK src \in relayIn :
            \/ UNCHANGED <<addr, served>>
            \/ /\ SameUDPClient(src) /\ addr' = (IF addr = NoAddr THEN src ELSE addr)
               /\ served' \in {served, served \cup {src}}
      BY <2>3 DEF RelayRead
    <3>2. outw' = outw
      BY <2>3 DEF RelayRead
    <3> QED BY <3>1, <3>2 DEF SameUDPClient
  <2>4. ASSUME OutWrite PROVE UdpInv'
    <3>1. /\ served' \in {served, served \cup {addr}} /\ addr' = addr /\ addr # NoAddr
          /\ outw' # "write"
      BY <2>4 DEF OutWrite
    <3> QED BY <3>1
  <2>5. ASSUME NEW w \in Closers, CloseAll(w) \/ CloseDone(w) PROVE UdpInv'
    <3>1. UNCHANGED <<addr, served>> /\ (outw' = outw \/ outw' = "ended")
      BY <2>5, CloseDoneCases DEF CloseAll, CloseDone
    <3> QED BY <3>1
  <2> QED BY <1>4, <2>1, <2>2, <2>3, <2>4, <2>5, Zenon DEF AssocActs, OutStep
<1> QED BY <1>2, <1>3, <1>4, NextIs

\* Every step keeps ClockInv.
LEMMA ClockStep ==
  ASSUME TypeOK, AssocInv, ClockInv, [Next]_vars
  PROVE  ClockInv'
<1> USE DEF ClockInv
<1>0. /\ cfg.timeout \in Nat /\ age \in 0 .. cfg.timeout /\ since \in 0 .. cfg.timeout
      /\ relay \in BOOLEAN
  BY SettingTypes DEF TypeOK
<1>1. CASE UNCHANGED <<age, since, spc, outw, relay>>
  BY <1>1
<1>2. CASE NextClient \/ TalkActs
  <2>1. ~relay'
    BY <1>2, TalkLeaves DEF NextClient, TalkActs, Peek, HTTPEnds, negotiateSocks5,
       authSocksUserPass, parseSocks5Request, doSocksConnect, ServerTunnel, AssocInv,
       InAssociation, sockets, udp
  <2> QED BY <2>1
<1>3. CASE ClientActs \/ AuthExpires \/ UNCHANGED vars
  BY <1>1, <1>3, ClientLeaves DEF AuthExpires, vars, udp, workers, clock, sockets
<1>4. CASE End
  BY <1>4 DEF End
<1>5. CASE AssocActs
  <2> USE DEF workers, clock, sockets
  <2>1. ASSUME Listen \/ RelayFails \/ Wait PROVE ClockInv'
    <3>1. spc' # "read"
      BY <2>1 DEF Listen, RelayFails, Wait, Reply
    <3> QED BY <3>1
  <2>2. ASSUME TCPRead \/ Datagram PROVE ClockInv'
    BY <1>1, <2>2 DEF TCPRead, Datagram
  <2>3. ASSUME ReplyRelay PROVE ClockInv'
    BY <2>3, <1>0 DEF ReplyRelay
  <2>4. ASSUME RelayRead PROVE ClockInv'
    BY <2>4, <1>0 DEF RelayRead
  <2>5. ASSUME RelayTouch PROVE ClockInv'
    BY <2>5, <1>0 DEF RelayTouch, touch
  <2>6. ASSUME OutRead PROVE ClockInv'
    <3>1. outw = "read" /\ UNCHANGED <<age, since, spc, relay>>
      BY <2>6 DEF OutRead
    <3> QED BY <3>1
  <2>7. ASSUME OutWrite PROVE ClockInv'
    BY <2>7, <1>0 DEF OutWrite
  <2>8. ASSUME OutTouch PROVE ClockInv'
    <3>1. CASE TouchFails
      <4>1. ~relay'
        BY <2>8, <3>1 DEF OutTouch, TouchFails
      <4> QED BY <4>1
    <3>2. CASE ~TouchFails
      BY <2>8, <3>2, <1>0 DEF OutTouch, touch
    <3> QED BY <3>1, <3>2
  <2>9. ASSUME SocketFails PROVE ClockInv'
    <3>1. /\ (spc' = "close" /\ UNCHANGED outw) \/ (UNCHANGED spc /\ outw = "read")
          /\ UNCHANGED <<age, since, relay>>
      BY <2>9 DEF SocketFails
    <3> QED BY <3>1
  <2>10. ASSUME Tick PROVE ClockInv'
    BY <2>10, <1>0 DEF Tick
  <2>11. ASSUME NEW w \in Closers, CloseAll(w) PROVE ClockInv'
    <3>1. (relay' => relay) /\ UNCHANGED <<age, since, spc, outw>>
      BY <2>11, <1>0 DEF CloseAll, CloseStep
    <3> QED BY <3>1
  <2>12. ASSUME NEW w \in Closers, CloseDone(w) PROVE ClockInv'
    <3>1. /\ spc' = spc \/ spc' = "wait"
          /\ outw' = outw \/ outw = "close"
          /\ UNCHANGED <<age, since, relay>>
      BY <2>12, CloseDoneCases DEF CloseDone
    <3> QED BY <3>1
  <2> QED BY <1>5, <2>1, <2>2, <2>3, <2>4, <2>5, <2>6, <2>7, <2>8, <2>9, <2>10, <2>11,
             <2>12, Zenon DEF AssocActs, OutStep
<1> QED BY <1>2, <1>3, <1>4, <1>5, NextIs

-----------------------------------------------------------------------------
(* What is on the wire                                                     *)

\* Nothing is to be read from an empty stream.
LEMMA NilIs ==
  /\ Nil \in Seq(Nat) /\ Nil \in Seq({Data})
  /\ \A n \in Nat \ {0} : ~Has(Nil, n)
  /\ \A s \in Seq(Nat) : Nil \o s = s /\ s \o Nil = s
BY DEF Nil, Has

IsPair(s, a, b) == /\ s \in Seq(Nat) /\ Len(s) = 2 /\ s[1] = a /\ s[2] = b
                   /\ Rest(s, 2) = Nil

\* The fields of a message of two bytes.
LEMMA PairIs ==
  ASSUME NEW a \in Nat, NEW b \in Nat
  PROVE  IsPair(Pair(a, b), a, b)
<1>1. Pair(a, b) \in Seq(Nat) /\ Len(Pair(a, b)) = 2 /\ Pair(a, b)[1] = a /\ Pair(a, b)[2] = b
  BY DEF Pair
<1>2. Rest(Pair(a, b), 2) = Nil
  BY DEF Pair, Rest, Nil
<1> QED BY <1>1, <1>2 DEF IsPair

\* Nothing is left when everything was read.
LEMMA RestAll ==
  ASSUME NEW s \in Seq(Nat)
  PROVE  Rest(s, Len(s)) = Nil
BY DEF Rest, Nil

\* A byte goes behind what is under way.
LEMMA AppendBehind ==
  ASSUME NEW r \in Seq(Nat), NEW d \in Seq(Nat), NEW e \in Nat
  PROVE  Append(r \o d, e) = r \o Append(d, e)
OBVIOUS

\* The client's list of methods, as the server reads it.
LEMMA MethodsIs ==
  ASSUME TypeOK
  PROVE  /\ Methods \in Seq(Nat) /\ Methods[1] = Client.first
         /\ Methods[2] = Len(Client.methods) /\ Len(Methods) = 2 + Methods[2]
         /\ Len(Methods) >= 2
         /\ Rest(Methods, 2 + Methods[2]) = Nil /\ Methods # Nil
<1>1. Client.first \in Nat /\ Client.methods \in Seq(Nat)
  BY ClientIs DEF TypeOK
<1> PICK h : h = Pair(Client.first, Len(Client.methods))
  OBVIOUS
<1> PICK t : t = Client.methods
  OBVIOUS
<1>8. IsPair(h, Client.first, Len(t))
  BY <1>1, PairIs
<1>2. h \in Seq(Nat) /\ Len(h) = 2 /\ h[1] = Client.first /\ h[2] = Len(t)
  BY <1>8 DEF IsPair
<1>3. Methods = h \o t
  BY DEF Methods, Pair
<1>9. /\ Methods \in Seq(Nat) /\ Len(Methods) = Len(h) + Len(t)
      /\ \A i \in 1 .. Len(h) : Methods[i] = h[i]
  BY <1>1, <1>2, <1>3, ConcatParts
<1>4. /\ Methods \in Seq(Nat) /\ Len(Methods) = 2 + Len(t)
      /\ Methods[1] = h[1] /\ Methods[2] = h[2]
  BY <1>2, <1>9
<1>5. Len(Methods) = 2 + Methods[2] /\ Len(Methods) >= 2
  BY <1>1, <1>2, <1>4
<1>6. Rest(Methods, 2 + Methods[2]) = Nil
  BY <1>4, <1>5, RestAll
<1>7. Methods # Nil
  BY <1>5, NilIs DEF Has
<1> QED BY <1>2, <1>4, <1>5, <1>6, <1>7

\* The client's user and password, as the server reads them.
LEMMA UserPassIs ==
  ASSUME TypeOK
  PROVE  UserPass \in Seq(Nat) /\ Len(UserPass) = 5 /\ Rest(UserPass, 5) = Nil
<1>1. Client.version \in Nat /\ Client.user \in Nat /\ Client.passwd \in Nat
  BY ClientIs DEF TypeOK
<1>2. UserPass \in Seq(Nat) /\ Len(UserPass) = 5
  BY <1>1 DEF UserPass
<1>3. Rest(UserPass, Len(UserPass)) = Nil
  BY <1>2, RestAll
<1> QED BY <1>2, <1>3

\* parseSocks5Request reads the request the client has sent, to its end.
LEMMA RequestIs ==
  ASSUME TypeOK
  PROVE  /\ Request \in Seq(Nat) /\ Len(Request) >= 4
         /\ Request[1] = Version /\ Request[2] = Client.cmd
         /\ KnownAtyp(Request[4]) => /\ HostOf(Request[4]) = Client.host
                                     /\ Rest(Request, MessageLen(Request)) = Nil
<1>1. Client.cmd \in Nat /\ Client.rsv \in Nat /\ Client.host \in Hosts /\ Version \in Nat
  BY ClientIs DEF TypeOK, Version
<1>2. Request = Message(Version, Client.cmd, Client.rsv, Client.host)
  BY DEF Request, Message
<1>3. IsMessage(Request, Version, Client.cmd, Client.rsv, Client.host)
  BY <1>1, <1>2, MessageParts
<1>4. ASSUME KnownAtyp(Request[4])
      PROVE  HostOf(Request[4]) = Client.host /\ Rest(Request, MessageLen(Request)) = Nil
  <2>1. Client.host \in {"ipv4", "ipv6", "domain"}
    BY <1>1, <1>3, <1>4 DEF IsMessage, KnownAtyp, IPv4, IPv6, Domain, Hosts
  <2>2. HostOf(Request[4]) = Client.host
    BY <2>1, <1>3, HostOfIs DEF IsMessage
  <2>3. Request \o Nil = Request
    BY <1>3, NilIs DEF IsMessage
  <2>4. Ends(Request, Nil)
    BY <1>1, <1>2, <2>1, MessageEnds, NilIs
  <2> QED BY <2>2, <2>3, <2>4 DEF Ends
<1> QED BY <1>3, <1>4 DEF IsMessage

\* A reply: its status, and where it ends.
LEMMA ReplyIs ==
  ASSUME NEW status \in Nat, NEW host \in {"ipv4", "ipv6"}
  PROVE  /\ SocksReply(status, host) \in Seq(Nat) /\ Len(SocksReply(status, host)) > 1
         /\ SocksReply(status, host)[2] = status
         /\ \A d \in Seq(Nat) :
              LET s == SocksReply(status, host) \o d
              IN  Rest(s, MessageLen(s)) = d
<1>1. SocksReply(status, host) = Message(Version, status, 0, host)
  BY ReplyTypes
<1>2. Version \in Nat /\ host \in Hosts
  BY DEF Version, Hosts
<1>3. IsMessage(SocksReply(status, host), Version, status, 0, host)
  BY <1>1, <1>2, MessageParts
<1>4. ASSUME NEW d \in Seq(Nat)
      PROVE  LET s == SocksReply(status, host) \o d IN Rest(s, MessageLen(s)) = d
  <2>1. Ends(SocksReply(status, host), d)
    BY <1>1, <1>2, MessageEnds
  <2> QED BY <2>1 DEF Ends
<1> QED BY <1>3, <1>4 DEF IsMessage

ServerPlaces == {"peek", "methods", "userpass", "request", "dial", "tunnel", "http",
                 "ending", "ended"}

\* The client's steps: what it takes is what the server has sent it.
LEMMA WireClient ==
  ASSUME TypeOK, Wire, Client.cmd = CmdConnect, ClientActs, ~upEnd'
  PROVE  Wire'
<1>0. /\ UNCHANGED <<spc, asked, cfg, turn>> /\ Client' = Client
      /\ Methods' = Methods /\ UserPass' = UserPass /\ Request' = Request
      /\ (Accepted' <=> Accepted)
  BY ClientLeaves DEF login, Client, Methods, UserPass, Request, Accepted
<1>1. spc \in ServerPlaces
  BY DEF TypeOK, Wire, InAssociation, ServerPlaces
<1>2. up \in Seq(Nat) /\ down \in Seq(Nat) /\ ~Fail /\ ~ClientCloses
  BY DEF TypeOK, Fail, ClientCloses
<1>3. CASE SendMethods
  <2>1. spc \in {"peek", "methods"} /\ up = Nil /\ down = Nil
    BY <1>1, <1>3 DEF Wire, SendMethods, ServerPlaces, Agreed
  <2>2. up' = Methods /\ cpc' = "method" /\ down' = down
    BY <1>3, <2>1, NilIs, MethodsIs DEF SendMethods, Send, Methods
  <2> QED BY <1>0, <2>1, <2>2 DEF Wire, InAssociation
<1>4. CASE SendUserPass
  <2>1. spc = "userpass" /\ up = Nil /\ down = Nil
    BY <1>1, <1>4 DEF Wire, SendUserPass, ServerPlaces, Agreed
  <2>2. up' = UserPass /\ cpc' = "status" /\ down' = down
    BY <1>4, <2>1, NilIs, UserPassIs DEF SendUserPass, Send, UserPass
  <2> QED BY <1>0, <2>1, <2>2 DEF Wire, InAssociation
<1>5. CASE SendRequest
  <2>1. spc \in {"request", "http", "ending", "ended"} /\ down = Nil
        /\ (spc = "request" => up = Nil)
    BY <1>1, <1>5 DEF Wire, SendRequest, ServerPlaces, Agreed
  <2>2. Client.host # "none" /\ Send(Request, "reply")
    BY <1>2, <1>5 DEF SendRequest, Request
  <2>3. (spc = "request" => up' = Request) /\ cpc' = "reply" /\ down' = down
    BY <2>1, <2>2, NilIs, RequestIs DEF Send
  <2> QED BY <1>0, <2>1, <2>2, <2>3 DEF Wire, InAssociation
<1>6. CASE ReadMethod
  <2>1. /\ cpc = "method" /\ Has(down, 2) /\ up' = up /\ down' = Rest(down, 2)
        /\ cpc' = (IF down[2] = AuthUserPass THEN "auth" ELSE "request")
    BY <1>2, <1>6 DEF ReadMethod, Take
  <2>2. down # Nil
    BY <2>1, NilIs
  <2>3. \/ spc = "userpass" /\ up = Nil /\ down = Pair(Version, AuthUserPass)
        \/ spc = "request" /\ up = Nil /\ down = Pair(Version, AuthNone)
        \/ spc \in {"http", "ending", "ended"} /\ down = Pair(Version, NoAcceptable)
    BY <1>1, <2>1, <2>2 DEF Wire, ServerPlaces, Agreed
  <2>4. /\ IsPair(Pair(Version, AuthUserPass), Version, AuthUserPass)
        /\ IsPair(Pair(Version, AuthNone), Version, AuthNone)
        /\ IsPair(Pair(Version, NoAcceptable), Version, NoAcceptable)
    BY PairIs DEF Version, AuthUserPass, AuthNone, NoAcceptable
  <2>5. down' = Nil /\ (IF spc = "userpass" THEN cpc' = "auth" ELSE cpc' = "request")
    BY <2>1, <2>3, <2>4 DEF IsPair, AuthUserPass, AuthNone, NoAcceptable
  <2> QED BY <1>0, <2>1, <2>3, <2>5 DEF Wire, InAssociation
<1>7. CASE ReadStatus
  <2>1. /\ cpc = "status" /\ Has(down, 2) /\ down[2] = 0 /\ up' = up
        /\ down' = Rest(down, 2) /\ cpc' = "request"
    BY <1>2, <1>7 DEF ReadStatus, Take
  <2>2. down # Nil
    BY <2>1, NilIs
  <2>3. \/ spc = "request" /\ up = Nil /\ down = Pair(UserPassVersion, 0)
        \/ spc \in {"http", "ending", "ended"} /\ down = Pair(UserPassVersion, 1)
    BY <1>1, <2>1, <2>2 DEF Wire, ServerPlaces, Agreed
  <2>4. /\ IsPair(Pair(UserPassVersion, 0), UserPassVersion, 0)
        /\ IsPair(Pair(UserPassVersion, 1), UserPassVersion, 1)
    BY PairIs DEF UserPassVersion
  <2>5. spc = "request" /\ up = Nil /\ down' = Nil
    BY <2>1, <2>3, <2>4 DEF IsPair
  <2> QED BY <1>0, <2>1, <2>5 DEF Wire, InAssociation
<1>8. CASE ReadReply
  <2>1. /\ cpc = "reply" /\ Has(down, 4) /\ down[2] = Succeeded /\ up' = up
        /\ down' = Rest(down, MessageLen(down)) /\ cpc' = "tunnel"
    BY <1>2, <1>8 DEF ReadReply, Take, ReplyLen
  <2>2. down # Nil
    BY <2>1, NilIs
  <2>3. spc \in {"tunnel", "http", "ending", "ended"} /\ Accepted /\ up = Nil /\ HasSuccess
    BY <1>1, <2>1, <2>2 DEF Wire, ServerPlaces, Agreed
  <2>4. PICK d \in Seq({Data}) : down = SocksReply(Succeeded, cfg.local) \o d
    BY <2>3 DEF HasSuccess
  <2>5. down' = d
    <3>1. d \in Seq(Nat) /\ Succeeded \in Nat /\ cfg.local \in {"ipv4", "ipv6"}
      BY SettingTypes DEF Data, Succeeded, TypeOK
    <3>2. LET s == SocksReply(Succeeded, cfg.local) \o d IN Rest(s, MessageLen(s)) = d
      BY <3>1, ReplyIs, Zenon
    <3> QED BY <2>1, <2>4, <3>2
  <2>6. Agreed'
    BY <1>0, <2>1, <2>3, <2>5, NilIs DEF Agreed
  <2> QED BY <1>0, <2>3, <2>6 DEF Wire, InAssociation
<1>9. CASE UseTunnel
  <2>1. cpc = "tunnel" /\ cpc' = "tunnel"
    BY <1>9 DEF UseTunnel, Send, Take
  <2>2. spc \in {"tunnel", "http", "ending", "ended"} /\ Agreed
    BY <1>1, <2>1 DEF Wire, ServerPlaces
  <2>3. Accepted /\ up \in Seq({Data}) /\ down \in Seq({Data})
    BY <2>1, <2>2 DEF Agreed
  <2>4. up \o <<Data>> \in Seq({Data}) /\ Rest(down, 1) \in Seq({Data})
    BY <2>3 DEF Rest
  <2>5. up' \in Seq({Data}) /\ down' \in Seq({Data})
    BY <1>9, <2>3, <2>4 DEF UseTunnel, Send, Take
  <2> QED BY <1>0, <2>1, <2>2, <2>3, <2>5 DEF Wire, Agreed, InAssociation
<1> QED BY <1>2, <1>3, <1>4, <1>5, <1>6, <1>7, <1>8, <1>9 DEF ClientActs, ClientStep

\* The server's steps: what it reads is what the client has sent it.
LEMMA WireServer ==
  ASSUME TypeOK, Wire, ~upEnd, Client.cmd = CmdConnect, TalkActs
  PROVE  Wire'
<1>0. /\ UNCHANGED <<cpc, cfg, turn>> /\ Client' = Client
      /\ Methods' = Methods /\ UserPass' = UserPass /\ Request' = Request
  BY TalkLeaves DEF Client, Methods, UserPass, Request
<1>1. up \in Seq(Nat) /\ down \in Seq(Nat)
  BY DEF TypeOK
<1>2. ASSUME NEW msg, NEW next, Reply(msg, next), down = Nil, msg \in Seq(Nat)
      PROVE  down' = msg /\ spc' = next
  BY <1>2, NilIs DEF Reply
<1>3. CASE Peek
  <2>1. /\ spc = "peek" /\ Has(up, 1) /\ spc' \in {"methods", "http"}
        /\ UNCHANGED <<up, down, asked>>
    BY <1>3 DEF Peek, Short, login
  <2>2. up # Nil
    BY <2>1, NilIs
  <2>3. cpc = "method" /\ up = Methods /\ down = Nil
    BY <2>1, <2>2 DEF Wire
  <2> QED BY <1>0, <2>1, <2>3 DEF Wire, InAssociation
<1>4. CASE HTTPEnds
  <2>1. spc = "http" /\ spc' = "ending" /\ UNCHANGED <<up, down, asked>>
    BY <1>4 DEF HTTPEnds, login
  <2>2. Agreed' <=> Agreed
    BY <1>0, <2>1 DEF Agreed, Accepted, HasSuccess
  <2> QED BY <1>0, <2>1, <2>2 DEF Wire, InAssociation
<1>5. CASE negotiateSocks5
  <2>1. spc = "methods" /\ Has(up, 2)
    BY <1>5 DEF negotiateSocks5, Short
  <2>2. up # Nil
    BY <2>1, NilIs
  <2>3. cpc = "method" /\ up = Methods /\ down = Nil
    BY <2>1, <2>2 DEF Wire
  <2>4. CASE up[1] # Version
    <3>1. spc' = "ending" /\ down' = down
      BY <1>5, <2>4 DEF negotiateSocks5, Short
    <3> QED BY <1>0, <2>3, <3>1 DEF Wire, InAssociation
  <2>5. CASE up[1] = Version
    <3>1. Has(up, 2 + up[2])
      BY <1>5, <2>5 DEF negotiateSocks5, Short
    <3>2. PICK m : /\ m \in {AuthNone, AuthUserPass, NoAcceptable}
                   /\ Reply(<<Version, m>>, AfterChoice(m)) /\ up' = Rest(up, 2 + up[2])
      BY <1>5, <2>5, <3>1, ChoiceIs DEF negotiateSocks5, Short
    <3>3. up' = Nil
      BY <2>3, <3>2, MethodsIs
    <3>4. IsPair(Pair(Version, m), Version, m)
      BY <3>2, PairIs DEF Version, AuthUserPass, AuthNone, NoAcceptable
    <3>5. down' = Pair(Version, m) /\ spc' = AfterChoice(m)
      BY <1>2, <2>3, <3>2, <3>4 DEF IsPair, Pair
    <3>6. CASE m = AuthNone
      <4>1. spc' = "request"
        BY <3>2, <3>5, <3>6, AfterChoiceIs
      <4> QED BY <1>0, <2>3, <3>3, <3>5, <3>6, <4>1 DEF Wire, InAssociation
    <3>7. CASE m = AuthUserPass
      <4>1. spc' = "userpass"
        BY <3>2, <3>5, <3>7, AfterChoiceIs
      <4> QED BY <1>0, <2>3, <3>3, <3>5, <3>7, <4>1 DEF Wire, InAssociation
    <3>8. CASE m = NoAcceptable
      <4>1. spc' = "ending"
        BY <3>2, <3>5, <3>8, AfterChoiceIs
      <4> QED BY <1>0, <2>3, <3>3, <3>5, <3>8, <4>1 DEF Wire, InAssociation
    <3> QED BY <3>2, <3>6, <3>7, <3>8
  <2> QED BY <2>4, <2>5
<1>6. CASE authSocksUserPass
  <2>1. spc = "userpass" /\ Has(up, 2)
    BY <1>1, <1>6 DEF authSocksUserPass, Short, Has
  <2>2. up # Nil
    BY <2>1, NilIs
  <2>3. cpc = "status" /\ up = UserPass /\ down = Nil
    BY <2>1, <2>2 DEF Wire
  <2>4. /\ IsPair(Pair(UserPassVersion, 0), UserPassVersion, 0)
        /\ IsPair(Pair(UserPassVersion, 1), UserPassVersion, 1)
    BY PairIs DEF UserPassVersion
  <2>5. \/ Reply(Pair(UserPassVersion, 0), "request") /\ up' = Rest(up, 5)
        \/ Reply(Pair(UserPassVersion, 1), "ending")
    BY <1>6 DEF authSocksUserPass, Short, Pair
  <2>6. CASE Reply(Pair(UserPassVersion, 0), "request") /\ up' = Rest(up, 5)
    <3>1. up' = Nil /\ down' = Pair(UserPassVersion, 0) /\ spc' = "request"
      BY <1>2, <2>3, <2>4, <2>6, UserPassIs DEF IsPair
    <3> QED BY <1>0, <2>3, <3>1 DEF Wire, InAssociation
  <2>7. CASE Reply(Pair(UserPassVersion, 1), "ending")
    <3>1. down' = Pair(UserPassVersion, 1) /\ spc' = "ending"
      BY <1>2, <2>3, <2>4, <2>7 DEF IsPair
    <3> QED BY <1>0, <2>3, <3>1 DEF Wire, InAssociation
  <2> QED BY <2>5, <2>6, <2>7
<1>7. CASE parseSocks5Request
  <2>1. spc = "request" /\ Has(up, 4)
    BY <1>7 DEF parseSocks5Request, Short
  <2>2. up # Nil
    BY <2>1, NilIs
  <2>3. cpc = "reply" /\ up = Request /\ down = Nil
    BY <2>1, <2>2 DEF Wire
  <2>4. CASE HeaderError(up) = Succeeded
    <3>1. KnownAtyp(up[4])
      BY <2>4 DEF HeaderError, GeneralError, CmdUnsupported, AtypUnsupported, Succeeded
    <3>2. /\ up' = Rest(up, RequestLen(up)) /\ down' = down
          /\ asked' = <<up[2], HostOf(up[4])>>
          /\ spc' = (IF up[2] = CmdConnect THEN "dial" ELSE "listen")
      BY <1>7, <2>4 DEF parseSocks5Request, Short
    <3>3. /\ Request[2] = CmdConnect /\ HostOf(Request[4]) = Client.host
          /\ Rest(Request, MessageLen(Request)) = Nil
      BY <2>3, <3>1, RequestIs
    <3>4. up' = Nil /\ down' = Nil /\ spc' = "dial" /\ asked' = <<CmdConnect, Client.host>>
      BY <2>3, <3>2, <3>3 DEF RequestLen
    <3> QED BY <1>0, <2>3, <3>4 DEF Wire, Accepted, InAssociation
  <2>5. CASE HeaderError(up) # Succeeded
    <3>1. Reply(SocksReply(HeaderError(up), "ipv4"), "ending")
      BY <1>7, <2>5 DEF parseSocks5Request, Short
    <3>2. HeaderError(up) \in Nat /\ HeaderError(up) # Succeeded
      BY <2>5, HeaderErrorIs
    <3>3. /\ SocksReply(HeaderError(up), "ipv4") \in Seq(Nat)
          /\ Len(SocksReply(HeaderError(up), "ipv4")) > 1
          /\ SocksReply(HeaderError(up), "ipv4")[2] # Succeeded
      BY <3>2, ReplyIs
    <3>4. down' = SocksReply(HeaderError(up), "ipv4") /\ spc' = "ending"
      BY <1>2, <2>3, <3>1, <3>3
    <3> QED BY <1>0, <2>3, <3>3, <3>4 DEF Wire, InAssociation
  <2> QED BY <2>4, <2>5
<1>8. CASE doSocksConnect
  <2>1. /\ spc = "dial" /\ cpc = "reply" /\ Accepted /\ up = Nil /\ down = Nil
        /\ UNCHANGED <<up, asked>>
    BY <1>8 DEF doSocksConnect, Wire, login
  <2>2. Accepted'
    BY <1>0, <2>1 DEF Accepted
  <2>3. CASE Reply(SocksReply(Succeeded, cfg.local), "tunnel")
    <3>1. SocksReply(Succeeded, cfg.local) \in Seq(Nat)
      BY ReplyIs, SettingTypes DEF Succeeded, TypeOK
    <3>2. down' = SocksReply(Succeeded, cfg.local) /\ spc' = "tunnel"
      BY <1>2, <2>1, <2>3, <3>1
    <3>3. down' = SocksReply(Succeeded, cfg.local) \o Nil
      BY <3>1, <3>2, NilIs
    <3>4. HasSuccess'
      BY <1>0, <3>3, NilIs DEF HasSuccess
    <3> QED BY <1>0, <2>1, <2>2, <3>2, <3>4 DEF Wire, Agreed, InAssociation
  <2>4. ASSUME NEW status \in {GeneralError, ConnRefused},
               Reply(SocksReply(status, "ipv4"), "ending")
        PROVE  Wire'
    <3>1. status \in Nat /\ status # Succeeded
      BY DEF GeneralError, ConnRefused, Succeeded
    <3>2. /\ SocksReply(status, "ipv4") \in Seq(Nat) /\ Len(SocksReply(status, "ipv4")) > 1
          /\ SocksReply(status, "ipv4")[2] # Succeeded
      BY <3>1, ReplyIs
    <3>3. down' = SocksReply(status, "ipv4") /\ spc' = "ending"
      BY <1>2, <2>1, <2>4, <3>2
    <3> QED BY <1>0, <2>1, <3>2, <3>3 DEF Wire, InAssociation
  <2> QED BY <1>8, <2>3, <2>4 DEF doSocksConnect
<1>9. CASE ServerTunnel
  <2>1. spc = "tunnel" /\ Agreed /\ asked' = asked /\ spc' \in {"tunnel", "ending"}
    BY <1>9 DEF ServerTunnel, Wire, login
  <2>2. Accepted' <=> Accepted
    BY <1>0, <2>1 DEF Accepted
  <2>3. Data \in Nat
    BY DEF Data
  <2>4. CASE UNCHANGED <<up, down>>
    <3>1. Agreed'
      BY <1>0, <2>1, <2>2, <2>4 DEF Agreed, HasSuccess
    <3> QED BY <2>1, <3>1 DEF Wire, InAssociation
  <2>5. CASE down' = Append(down, Data) /\ up' = up
    <3>1. ASSUME HasSuccess PROVE HasSuccess'
      <4>1. PICK d \in Seq({Data}) : down = SocksReply(Succeeded, cfg.local) \o d
        BY <3>1 DEF HasSuccess
      <4>2. SocksReply(Succeeded, cfg.local) \in Seq(Nat)
        BY ReplyIs, SettingTypes DEF Succeeded, TypeOK
      <4>3. Append(d, Data) \in Seq({Data})
        BY <2>3
      <4>4. down' = SocksReply(Succeeded, cfg.local) \o Append(d, Data)
        <5>1. d \in Seq(Nat)
          BY <2>3
        <5> QED BY <2>3, <2>5, <4>1, <4>2, <5>1, AppendBehind
      <4> QED BY <1>0, <4>3, <4>4 DEF HasSuccess
    <3>2. ASSUME down \in Seq({Data}) PROVE down' \in Seq({Data})
      BY <2>3, <2>5, <3>2
    <3>3. Agreed'
      BY <1>0, <2>1, <2>2, <2>5, <3>1, <3>2 DEF Agreed
    <3> QED BY <2>1, <3>3 DEF Wire, InAssociation
  <2>6. CASE up # <<>> /\ up' = Tail(up) /\ down' = down
    <3>1. cpc = "tunnel" /\ Accepted /\ up \in Seq({Data}) /\ down \in Seq({Data})
      BY <2>1, <2>6 DEF Agreed, Nil
    <3>2. up' \in Seq({Data})
      BY <2>6, <3>1
    <3> QED BY <1>0, <2>1, <2>2, <2>6, <3>1, <3>2 DEF Wire, Agreed, InAssociation
  <2> QED BY <1>9, <2>4, <2>5, <2>6 DEF ServerTunnel
<1> QED BY <1>3, <1>4, <1>5, <1>6, <1>7, <1>8, <1>9 DEF TalkActs

\* A handshake for a CONNECT has no association.
LEMMA AssocPlaces ==
  ASSUME TypeOK, AssocInv, AssocActs
  PROVE  spc \in InAssociation \cup {"listen", "reply"}
<1>1. spc \in InAssociation \cup {"peek", "http", "methods", "userpass", "request",
               "dial", "tunnel", "listen", "reply", "ending", "ended"}
  BY DEF TypeOK
<1>2. ASSUME Listen \/ ReplyRelay \/ RelayRead \/ RelayTouch \/ RelayFails \/ Wait
      PROVE  spc \in InAssociation \cup {"listen", "reply"}
  BY <1>2 DEF Listen, ReplyRelay, RelayRead, RelayTouch, RelayFails, Wait, InAssociation
<1>3. ASSUME TCPRead \/ OutStep \/ SocketFails \/ Datagram \/ Tick
      PROVE  spc \in InAssociation \cup {"listen", "reply"}
  BY <1>1, <1>3 DEF TCPRead, OutStep, OutRead, OutWrite, OutTouch, SocketFails, Datagram,
     Tick, AssocInv, InAssociation
<1>4. ASSUME NEW w \in Closers, CloseAll(w) \/ CloseDone(w)
      PROVE  spc \in InAssociation \cup {"listen", "reply"}
  BY <1>1, <1>4 DEF CloseAll, CloseDone, AtClose, AssocInv, InAssociation
<1> QED BY <1>2, <1>3, <1>4 DEF AssocActs

\* Every step keeps WireInv.
LEMMA WireStep ==
  ASSUME TypeOK, AssocInv, WireInv, [Next]_vars
  PROVE  WireInv'
<1>1. CASE NextClient
  <2>1. /\ cpc' = "methods" /\ up' = Nil /\ down' = Nil /\ upEnd' = FALSE
        /\ spc' \in {"peek", "methods"}
    BY <1>1 DEF NextClient, Nil
  <2> QED BY <2>1 DEF WireInv, Wire, Dead, InAssociation
<1>2. CASE ClientActs
  <2>1. Client' = Client
    BY <1>2, ClientLeaves DEF Client
  <2>2. /\ upEnd' <=> cpc' \in Dead
        /\ cpc' = "tunnel" => Client.cmd = CmdConnect
    BY <1>2 DEF WireInv, ClientActs, ClientStep, SendMethods, ReadMethod, SendUserPass,
       ReadStatus, SendRequest, ReadReply, UseTunnel, ClientCloses, Send, Take, Fail, Dead
  <2>3. ASSUME ~upEnd', Client.cmd = CmdConnect PROVE Wire'
    <3>1. ~upEnd
      BY <1>2, <2>3 DEF ClientActs, ClientStep, SendMethods, ReadMethod, SendUserPass,
         ReadStatus, SendRequest, ReadReply, UseTunnel, ClientCloses, Send, Take, Fail
    <3> QED BY <1>2, <2>3, <3>1, WireClient DEF WireInv
  <2> QED BY <2>1, <2>2, <2>3 DEF WireInv
<1>3. CASE TalkActs
  <2>1. Client' = Client /\ UNCHANGED <<cpc, upEnd>>
    BY <1>3, TalkLeaves DEF Client
  <2> QED BY <1>3, <2>1, WireServer DEF WireInv
<1>4. CASE AuthExpires \/ UNCHANGED vars
  <2>1. UNCHANGED <<cfg, turn, cpc, spc, up, down, upEnd, asked>>
    BY <1>4 DEF AuthExpires, vars, tcp, login
  <2> QED BY <2>1 DEF WireInv, Wire, Agreed, Accepted, HasSuccess, Methods, UserPass,
             Request, Client
<1>5. CASE End
  <2>1. /\ UNCHANGED <<cfg, turn, cpc, up, down, upEnd, asked>>
        /\ spc = "ending" /\ spc' = "ended" /\ Client' = Client
    BY <1>5 DEF End, tcp, login, Client
  <2>2. Agreed' <=> Agreed
    BY <2>1 DEF Agreed, Accepted, HasSuccess
  <2> QED BY <2>1, <2>2 DEF WireInv, Wire, InAssociation
<1>6. CASE AssocActs
  <2>1. Client' = Client /\ UNCHANGED <<cpc, upEnd>>
    BY <1>6, AssocLeaves DEF Client
  <2>2. spc \in InAssociation \cup {"listen", "reply"}
    BY <1>6, AssocPlaces
  <2> QED BY <2>1, <2>2 DEF WireInv, Wire
<1> QED BY <1>1, <1>2, <1>3, <1>4, <1>5, <1>6, NextIs

-----------------------------------------------------------------------------
(* The theorems                                                            *)

\* Init establishes the invariant.
LEMMA SocksInit == Init => SocksInv
<1> SUFFICES ASSUME Init PROVE SocksInv
  OBVIOUS
<1>1. cfg \in Settings /\ cfg.timeout \in Nat /\ cfg.datagrams \in Nat /\ turn \in DOMAIN cfg.clients
  BY SettingTypes DEF Init
<1>2. TypePlaces
  BY <1>1 DEF Init, TypePlaces, InHandshake, InAssociation
<1>3. TypeStreams
  BY DEF Init, TypeStreams
<1>4. TypeFlags
  BY DEF Init, TypeFlags
<1>9. TypeWorkers
  BY DEF Init, TypeWorkers
<1>5. TypeTraffic
  BY <1>1 DEF Init, TypeTraffic
<1>6. TypeOK
  BY <1>2, <1>3, <1>4, <1>5, <1>9, TypeParts DEF TypeUDP
<1>7. LoginInv /\ AssocInv /\ UdpInv /\ ClockInv
  BY DEF Init, LoginInv, AssocInv, UdpInv, ClockInv, InAssociation, Asking, Here, NoAddr
<1>8. WireInv
  BY DEF Init, WireInv, Wire, Dead, InAssociation, Nil
<1> QED BY <1>6, <1>7, <1>8 DEF SocksInv

\* Every step keeps the invariant.
LEMMA SocksStep == SocksInv /\ [Next]_vars => SocksInv'
BY TypeStep, LoginStep, AssocStep, UdpStep, ClockStep, WireStep DEF SocksInv

\* Every variable of both ends and of the association holds values of its
\* type, and the invariants of the login, the association and the wire hold.
THEOREM SocksInvHolds == Spec => []SocksInv
BY SocksInit, SocksStep, PTL DEF Spec

\* Whatever the client offers and whatever kind of host it asks for, the
\* connection socksParent.connect hands out stands for its own request, and
\* holds bytes of the tunnel only.
THEOREM HandshakeIsClean == Spec => []HandshakeClean
<1>1. SocksInv => HandshakeClean
  <2> SUFFICES ASSUME SocksInv, cpc = "tunnel"
               PROVE  /\ asked = <<CmdConnect, Client.host>>
                      /\ Range0(up) \subseteq {Data} /\ Range0(down) \subseteq {Data}
    BY DEF HandshakeClean
  <2>1. Wire
    BY DEF SocksInv, WireInv, Dead
  <2>2. Agreed
    BY <2>1 DEF Wire, SocksInv, TypeOK, InAssociation
  <2>3. Accepted /\ up \in Seq({Data}) /\ down \in Seq({Data})
    BY <2>2 DEF Agreed
  <2>4. ASSUME NEW s \in Seq({Data}) PROVE Range0(s) \subseteq {Data}
    BY DEF Range0
  <2> QED BY <2>3, <2>4 DEF Accepted
<1> QED BY <1>1, SocksInvHolds, PTL

\* A server that requires authentication gets to a request only from an
\* allowed address, or after a right user and password from there.
THEOREM OnlyAdmitted == Spec => []Admitted
<1>1. SocksInv => Admitted
  BY DEF SocksInv, LoginInv, Admitted, Asking
<1> QED BY <1>1, SocksInvHolds, PTL

\* When serveSocks returns, nothing of the association is left open or
\* running, whichever of its three goroutines began to close it.
THEOREM AssociationCloses == Spec => []AssociationClosed
<1>1. SocksInv => AssociationClosed
  BY DEF SocksInv, AssocInv, AssociationClosed, InAssociation
<1> QED BY <1>1, SocksInvHolds, PTL

\* Datagrams are passed on for one address of the client, from either side.
THEOREM ServesOneUDPClient == Spec => []OneUDPClient
<1>1. SocksInv => OneUDPClient
  <2> SUFFICES ASSUME SocksInv PROVE OneUDPClient
    OBVIOUS
  <2>1. served \subseteq {addr} /\ (served # {} => addr \in Here)
    BY DEF SocksInv, UdpInv
  <2>2. CASE served = {}
    <3>1. Cardinality(served) = 0
      BY <2>2, FS_EmptySet
    <3> QED BY <2>2, <3>1 DEF OneUDPClient
  <2>3. CASE served # {}
    <3>1. served = {addr} /\ addr \in Here
      BY <2>1, <2>3
    <3>2. Cardinality(served) = 1
      BY <3>1, FS_Singleton
    <3> QED BY <3>1, <3>2 DEF OneUDPClient, Here
  <2> QED BY <2>2, <2>3
<1> QED BY <1>1, SocksInvHolds, PTL

\* The relay loop gives up as idle only when nothing was passed on for the
\* whole timeout, for a timeout of any length.
THEOREM ActivityKeeps == Spec => ActivityKeepsAlive
<1>1. SocksInv /\ [Next]_vars =>
        [result' = "idle" /\ result # "idle" => since = cfg.timeout \/ outw = "touch"]_vars
  <2> SUFFICES ASSUME SocksInv, [Next]_vars, result' = "idle", result # "idle",
                      outw # "touch"
               PROVE  since = cfg.timeout
    OBVIOUS
  <2>1. cfg.timeout \in Nat /\ age \in 0 .. cfg.timeout /\ since \in 0 .. cfg.timeout
    BY SettingTypes DEF SocksInv, TypeOK
  <2>2. RelayFails
    <3>1. CASE ClientActs \/ TalkActs
      BY <3>1, ClientLeaves, TalkLeaves DEF udp
    <3>2. CASE NextClient \/ AuthExpires \/ End \/ UNCHANGED vars
      BY <3>2 DEF NextClient, AuthExpires, End, vars, udp
    <3>3. CASE AssocActs
      BY <3>3 DEF AssocActs, Listen, ReplyRelay, RelayRead, RelayTouch, Wait, TCPRead,
         OutStep, OutRead, OutWrite, OutTouch, SocketFails, Datagram, Tick, CloseAll,
         CloseDone
    <3> QED BY <3>1, <3>2, <3>3, NextIs
  <2>3. relay /\ spc = "read" /\ age = cfg.timeout
    BY <2>2 DEF RelayFails
  <2>4. age <= since
    BY <2>3 DEF SocksInv, ClockInv
  <2> QED BY <2>1, <2>3, <2>4
<1> QED BY <1>1, SocksInvHolds, PTL DEF Spec, ActivityKeepsAlive

=============================================================================
