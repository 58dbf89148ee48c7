---------------------------- MODULE TunnelProofs ----------------------------
(***************************************************************************)
(* Proofs about Tunnel: what both copying goroutines, the watchdogs and    *)
(* the retries leave behind, for any number of units, replies, tries and   *)
(* any size of the buffer.                                                 *)
(***************************************************************************)
EXTENDS Tunnel, FiniteSetTheorems, TLAPS

\* The first n units of the client.
FirstUnits(n) == [i \in 1 .. n |-> i]

\* Units that have been read from the client and handed to serverWriter.
Handed == IF cpc = "write" THEN pos - 1 ELSE pos

\* The first try has not yet sent anything to the server.
Fresh ==
  \/ pc = "retry" /\ conn = 0
  \/ conn = 1 /\ (pc = "connected" \/ cpc \in {"start", "buffered"})

\* How tries and connections are counted, and what a retry is decided on.
TryInv ==
  /\ cfg.front = "socks" => tryCnt = 0 /\ conn <= 1 /\ (pc = "retry" => conn = 0)
  /\ tryCnt <= conn
  /\ pc \notin {"retry", "end"} => conn > 0
  /\ pc = "retry" => tryCnt <= 3
  /\ pc = "connected" => got = 0
  /\ pc # "panic"
  /\ state = rsRecvBody => pc \notin {"retry", "connected"}

\* The buffer holds what was handed to serverWriter for as long as the request
\* can be retried.
BufferInv ==
  /\ cfg.front = "socks" => raw = NoRaw
  /\ cfg.front = "http" /\ raw = NoRaw => pc = "end" \/ partial \/ state = rsRecvBody
  /\ cfg.front = "http" /\ (pc \in {"retry", "connected"} \/ cpc = "start") =>
       raw # NoRaw /\ ~partial
  /\ raw # NoRaw => 1 .. Handed \subseteq Range(raw)
  /\ raw # NoRaw /\ cfg.early = 0 => raw = FirstUnits(Handed)
  /\ buffered => pos = 0
  /\ cfg.early <= sent
  /\ cpc \in {"loop", "read", "write"} => ~buffered
  /\ cpc = "write" => pos > 0
  /\ Fresh => pos = 0 /\ raw \in {<<>>, NoRaw}

\* What the server connection in use has got, place by place.
DeliveredInv ==
  cpc # "none" /\ ~Resends =>
    /\ cpc = "start" => delivered = <<>>
    /\ cpc \in {"buffered", "loop", "read", "write"} => delivered = FirstUnits(Handed)
    /\ \E n \in Nat : delivered = FirstUnits(n)

\* Who the client has heard, and how often it was told of the tunnel.
HeardInv ==
  /\ heard \subseteq {conn}
  /\ heard # {} => state = rsRecvBody
  /\ cfg.parent # "http" /\ ~CountRestarted =>
       told <= (IF Fresh /\ cpc = "none" THEN 0 ELSE 1)

\* Who has closed which connection, and where a deadline can be set.
CloseInv ==
  /\ cpc = "done" \/ (pc \in {"retry", "end"} /\ got > 0) => conn \notin open
  /\ deadline => cpc \in {"loop", "read", "ssl", "write", "closing"}
  /\ \A t \in 1 .. MaxConn :
       t > conn \/ (t = conn /\ pc = "connected") => wd[t] = "off"
  /\ ~cliOpen => \/ pc \in {"wait", "end"}
                 \/ \E t \in 1 .. conn : wd[t] \in {"server", "fired"}

TunnelInv == TypeOK /\ TryInv /\ BufferInv /\ DeliveredInv /\ HeardInv /\ CloseInv

-----------------------------------------------------------------------------
(* Sequences of units                                                      *)

\* The first n units are n, and one more read makes them n + 1.
LEMMA FirstUnitsFacts ==
  ASSUME NEW n \in Nat
  PROVE  /\ FirstUnits(n) \in Seq(1 .. n) /\ Len(FirstUnits(n)) = n
         /\ FirstUnits(0) = <<>>
         /\ Append(FirstUnits(n), n + 1) = FirstUnits(n + 1)
         /\ FirstUnits(n) \o <<n + 1>> = FirstUnits(n + 1)
         /\ <<>> \o FirstUnits(n) = FirstUnits(n)
<1>1. FirstUnits(n) \in Seq(1 .. n) /\ Len(FirstUnits(n)) = n
  BY DEF FirstUnits
<1>2. FirstUnits(0) = <<>>
  BY DEF FirstUnits
<1>3. FirstUnits(n) \in Seq(Nat) /\ FirstUnits(n + 1) \in Seq(Nat)
  BY DEF FirstUnits
<1>4. Append(FirstUnits(n), n + 1) = FirstUnits(n + 1)
  BY <1>1, <1>3 DEF FirstUnits
<1>5. FirstUnits(n) \o <<n + 1>> = FirstUnits(n + 1)
  BY <1>1, <1>3 DEF FirstUnits
<1>6. <<>> \o FirstUnits(n) = FirstUnits(n)
  BY <1>3
<1> QED BY <1>1, <1>2, <1>4, <1>5, <1>6

\* A sequence of units is never taken for a buffer that has been released.
LEMMA UnitsNotNoRaw ==
  ASSUME NEW n \in Nat, NEW q \in Seq(1 .. n)
  PROVE  q # NoRaw
<1> SUFFICES ASSUME q = NoRaw PROVE FALSE
  OBVIOUS
<1>1. Len(q) = 1 /\ q[1] = 0
  BY DEF NoRaw
<1>2. q[1] \in 1 .. n
  BY <1>1
<1> QED BY <1>1, <1>2

\* What is in the buffer stays in it when more is added.
LEMMA RangeConcat ==
  ASSUME NEW S, NEW q \in Seq(S), NEW r \in Seq(S)
  PROVE  Range(q \o r) = Range(q) \cup Range(r)
<1> DEFINE c == q \o r
<1>1. /\ Len(q) \in Nat /\ Len(r) \in Nat
      /\ DOMAIN c = 1 .. Len(q) + Len(r) /\ DOMAIN q = 1 .. Len(q) /\ DOMAIN r = 1 .. Len(r)
      /\ \A i \in 1 .. Len(q) : c[i] = q[i]
      /\ \A i \in 1 .. Len(r) : c[Len(q) + i] = r[i]
  OBVIOUS
<1>2. Range(q) \subseteq Range(c)
  BY <1>1 DEF Range
<1>3. ASSUME NEW i \in DOMAIN r PROVE r[i] \in Range(c)
  <2>1. Len(q) + i \in DOMAIN c /\ c[Len(q) + i] = r[i]
    BY <1>1
  <2> QED BY <2>1 DEF Range
<1>4. ASSUME NEW i \in DOMAIN c PROVE c[i] \in Range(q) \cup Range(r)
  <2>1. CASE i \in DOMAIN q
    BY <1>1, <2>1 DEF Range
  <2>2. CASE i \notin DOMAIN q
    <3>1. i - Len(q) \in DOMAIN r /\ c[i] = r[i - Len(q)]
      BY <1>1, <2>2
    <3> QED BY <3>1 DEF Range
  <2> QED BY <2>1, <2>2
<1> HIDE DEF c
<1>5. Range(r) \subseteq Range(c)
  BY <1>3 DEF Range
<1>6. Range(c) \subseteq Range(q) \cup Range(r)
  BY <1>4 DEF Range
<1> QED BY <1>2, <1>5, <1>6 DEF c

\* All of the first n units are in FirstUnits(n).
LEMMA RangeFirstUnits ==
  ASSUME NEW n \in Nat
  PROVE  Range(FirstUnits(n)) = 1 .. n
BY DEF Range, FirstUnits

-----------------------------------------------------------------------------
(* Types                                                                   *)

\* What is assumed of the setting in use.
LEMMA SettingFacts ==
  ASSUME cfg \in Settings
  PROVE  /\ MaxConn \in Nat
         /\ cfg.front \in {"http", "socks"} /\ cfg.parent \in {"http", "raw", "none"}
         /\ cfg.units \in Nat /\ cfg.early \in 0 .. cfg.units /\ cfg.replies \in Nat
         /\ cfg.bufUnits \in Nat /\ cfg.maxExpire \in Nat
BY TunnelAssumption

\* The setting is chosen once.
LEMMA SettingStays == [Next]_vars => cfg' = cfg
BY DEF Next, vars, Main, ClientToServer, Watchdog, Environment, Ended, Connect, ConnectFails,
       StartTunnel, StartFails, StartGivesUp, ReadServer, WriteClient, SetServerState,
       ReadBlocked, ReadEnds, WaitRetry, WaitEnd, ResendRaw, SendBuffered, LoopTop, ReadClient,
       ReadClientEnds, CheckSSL, ReadClientTimeout, WriteServer, CloseServer, WatchdogDecide,
       WatchdogClose, ClientSend, ClientClose, ServerEnd, TimePasses, BlockExpires

\* A new client: nothing sent, nothing connected.
LEMMA TunnelInit == Init => TunnelInv
<1> SUFFICES ASSUME Init PROVE TunnelInv
  OBVIOUS
<1> USE DEF Init
<1>1. cfg \in Settings /\ cpc = "none" /\ pc = "retry" /\ conn = 0 /\ open = {} /\ got = 0
  OBVIOUS
<1>2. TypeControl
  BY DEF TypeControl, MainSteps, CopySteps
<1>3. TypeFlags
  BY DEF TypeFlags
<1>4. TypeCounts
  BY SettingFacts DEF TypeCounts
<1>5. TypeUnits
  BY DEF TypeUnits
<1>6. TryInv
  BY <1>1, SettingFacts DEF TryInv, rsCreated, rsRecvBody
<1>7. BufferInv
  <2>1. FirstUnits(0) = <<>> /\ <<>> # NoRaw
    BY FirstUnitsFacts DEF NoRaw
  <2> QED BY <1>1, <2>1, SettingFacts DEF BufferInv, Handed, Fresh
<1>8. DeliveredInv /\ HeardInv
  BY <1>1 DEF DeliveredInv, HeardInv
<1>9. CloseInv
  BY <1>1 DEF CloseInv
<1> QED BY <1>2, <1>3, <1>4, <1>5, <1>6, <1>7, <1>8, <1>9 DEF TunnelInv, TypeOK

\* The places of the two goroutines.
LEMMA ControlStep ==
  ASSUME TunnelInv, [Next]_vars
  PROVE  TypeControl'
<1> USE DEF TunnelInv, TypeOK, TypeControl, MainSteps, CopySteps, rsCreated, rsRecvBody,
        request, client, server, passed, watch, site
<1>1. CASE Connect
  <2>1. sv' \in [kind : {"direct", "parent"}, connected : BOOLEAN]
    BY <1>1 DEF Connect
  <2> QED BY <1>1, <2>1 DEF Connect
<1>2. CASE ConnectFails \/ StartTunnel \/ StartGivesUp
  BY <1>2 DEF ConnectFails, StartTunnel, StartGivesUp, End
<1>3. CASE StartFails
  BY <1>3 DEF StartFails, ShouldRetry, End
<1>4. CASE WaitRetry
  BY <1>4 DEF WaitRetry, ShouldRetry, End
<1>5. CASE ReadServer \/ WriteClient \/ ReadBlocked \/ ReadEnds \/ WaitEnd
  BY <1>5 DEF ReadServer, WriteClient, ReadBlocked, ReadEnds, WaitEnd, End
<1>6. CASE SetServerState
  <2>1. sv' = NoServer \/ sv' \in [kind : {"direct", "parent"}, connected : BOOLEAN]
    <3>1. CASE sv = NoServer
      BY <1>6, <3>1 DEF SetServerState, NoServer
    <3>2. CASE sv \in [kind : {"direct", "parent"}, connected : BOOLEAN]
      BY <1>6, <3>2 DEF SetServerState
    <3> QED BY <3>1, <3>2
  <2> QED BY <1>6, <2>1 DEF SetServerState
<1>7. CASE ClientToServer
  BY <1>7 DEF ClientToServer, ResendRaw, SendBuffered, LoopTop, ReadClient, ReadClientEnds,
              CheckSSL, ReadClientTimeout, WriteServer, CloseServer
<1>8. CASE Watchdog \/ Environment \/ UNCHANGED vars
  BY <1>8 DEF Watchdog, Environment, WatchdogDecide, WatchdogClose, ClientSend, ClientClose,
              ServerEnd, TimePasses, BlockExpires, vars
<1> QED
  BY <1>1, <1>2, <1>3, <1>4, <1>5, <1>6, <1>7, <1>8 DEF Next, Main, Ended

\* Flags stay flags.
LEMMA FlagsStep ==
  ASSUME TunnelInv, [Next]_vars
  PROVE  TypeFlags'
<1> USE DEF TunnelInv, TypeOK, TypeFlags, request, client, server, passed, watch, site
<1>1. CASE Connect
  <2>1. blocked' \in BOOLEAN
    BY <1>1 DEF Connect
  <2> QED BY <1>1, <2>1 DEF Connect
<1>2. CASE ConnectFails \/ StartTunnel \/ StartGivesUp
  BY <1>2 DEF ConnectFails, StartTunnel, StartGivesUp, End
<1>3. ASSUME ShouldRetry PROVE blocked' \in BOOLEAN /\ cliOpen' \in BOOLEAN
  BY <1>3 DEF ShouldRetry, End
<1>4. CASE StartFails \/ WaitRetry
  BY <1>3, <1>4 DEF StartFails, WaitRetry
<1>5. CASE ReadServer \/ WriteClient \/ SetServerState \/ ReadBlocked \/ ReadEnds \/ WaitEnd
  BY <1>5 DEF ReadServer, WriteClient, SetServerState, ReadBlocked, ReadEnds, CloseBoth,
              WaitEnd, End
<1>6. ASSUME NEW units, Keep(units) PROVE partial' \in BOOLEAN
  BY <1>6 DEF Keep
<1>7. CASE SendBuffered \/ WriteServer
  BY <1>6, <1>7 DEF SendBuffered, WriteServer
<1>8. CASE LoopTop
  <2>1. maybeFake \in BOOLEAN
    BY DEF maybeFake
  <2> QED BY <1>8, <2>1 DEF LoopTop, SetDeadline
<1>9. CASE CheckSSL
  <2>1. (blocked \/ ~sv.connected) \in BOOLEAN
    OBVIOUS
  <2> QED BY <1>9, <2>1 DEF CheckSSL
<1>10. CASE ResendRaw \/ ReadClient \/ ReadClientEnds \/ ReadClientTimeout \/ CloseServer
  BY <1>10 DEF ResendRaw, ReadClient, ReadClientEnds, ReadClientTimeout, CloseServer
<1>11. CASE Watchdog
  BY <1>11 DEF Watchdog, WatchdogDecide, WatchdogClose
<1>12. CASE Environment
  BY <1>12 DEF Environment, ClientSend, ClientClose, ServerEnd, TimePasses, BlockExpires
<1>13. CASE UNCHANGED vars
  BY <1>13 DEF vars
<1> QED
  BY <1>1, <1>2, <1>4, <1>5, <1>7, <1>8, <1>9, <1>10, <1>11, <1>12, <1>13
  DEF Next, Main, ClientToServer, Ended

\* Counters stay within their bounds.
LEMMA CountsStep ==
  ASSUME TunnelInv, [Next]_vars
  PROVE  TypeCounts'
<1>1. cfg \in Settings /\ cfg' = cfg /\ TypeCounts
  BY SettingStays DEF TunnelInv, TypeOK, TypeControl
<1> USE <1>1, SettingFacts DEF TypeCounts, request, client, server, passed, watch, site
<1>2. CASE Connect
  <2>1. tryCnt' \in 0 .. 4
    BY <1>2 DEF Connect, TunnelInv, TryInv
  <2>2. conn' \in 0 .. MaxConn /\ open' \subseteq 1 .. conn' /\ heard' \subseteq 1 .. conn'
    BY <1>2 DEF Connect
  <2> QED BY <1>2, <2>1, <2>2 DEF Connect
<1>3. ASSUME stop PROVE wd' \in [1 .. MaxConn -> {"off", "on", "client", "server", "fired"}]
  BY <1>3 DEF stop
<1>4. ASSUME ShouldRetry PROVE tryCnt' \in 0 .. 4
  BY <1>4 DEF ShouldRetry
<1>5. CASE StartTunnel
  <2>1. told' \in Nat
    BY <1>5 DEF StartTunnel
  <2>2. wd' \in [1 .. MaxConn -> {"off", "on", "client", "server", "fired"}]
    BY <1>5 DEF StartTunnel
  <2> QED BY <1>5, <2>1, <2>2 DEF StartTunnel
<1>6. CASE StartFails
  BY <1>4, <1>6 DEF StartFails
<1>7. CASE WaitRetry
  BY <1>3, <1>4, <1>7 DEF WaitRetry
<1>8. CASE WaitEnd
  BY <1>3, <1>8 DEF WaitEnd
<1>9. CASE ReadServer
  BY <1>9 DEF ReadServer
<1>10. CASE WriteClient
  <2>1. conn > 0
    BY <1>10 DEF WriteClient, TunnelInv, TryInv
  <2>2. told' \in Nat /\ heard' \subseteq 1 .. conn /\ conn' = conn
    BY <1>10, <2>1 DEF WriteClient
  <2> QED BY <1>10, <2>2 DEF WriteClient
<1>11. CASE ReadEnds \/ CloseServer
  BY <1>11 DEF ReadEnds, CloseBoth, CloseServer
<1>12. CASE SendBuffered
  <2>1. pos' = pos \/ pos' = cfg.early
    BY <1>12 DEF SendBuffered
  <2>2. cfg.early \in 0 .. sent
    BY DEF TunnelInv, BufferInv
  <2>3. pos' \in 0 .. sent
    BY <2>1, <2>2
  <2> QED BY <1>12, <2>3 DEF SendBuffered
<1>13. CASE ReadClient
  BY <1>13 DEF ReadClient
<1>14. CASE Watchdog
  BY <1>14 DEF Watchdog, WatchdogDecide, WatchdogClose
<1>15. CASE ClientSend
  BY <1>15 DEF ClientSend
<1>16. CASE BlockExpires
  BY <1>16 DEF BlockExpires
<1>17. CASE ConnectFails \/ StartGivesUp \/ SetServerState \/ ReadBlocked
  BY <1>17 DEF ConnectFails, StartGivesUp, SetServerState, ReadBlocked
<1>18. CASE ResendRaw \/ LoopTop \/ ReadClientEnds \/ CheckSSL \/ ReadClientTimeout \/ WriteServer
  BY <1>18 DEF ResendRaw, LoopTop, ReadClientEnds, CheckSSL, ReadClientTimeout, WriteServer
<1>19. CASE ClientClose \/ ServerEnd \/ TimePasses \/ UNCHANGED vars
  BY <1>19 DEF ClientClose, ServerEnd, TimePasses, vars
<1> QED
  BY <1>2, <1>5, <1>6, <1>7, <1>8, <1>9, <1>10, <1>11, <1>12, <1>13, <1>14, <1>15, <1>16,
     <1>17, <1>18, <1>19
  DEF Next, Main, ClientToServer, Environment, Ended

\* Keep leaves the buffer a buffer of units, or releases it.
LEMMA KeepUnits ==
  ASSUME TypeUnits, NEW units \in Seq(Units), Keep(units)
  PROVE  \/ raw' = NoRaw
         \/ raw' = raw \o units /\ raw # NoRaw /\ raw' \in Seq(Units)
<1>1. CASE raw = NoRaw \/ Len(raw) >= cfg.bufUnits
  BY <1>1 DEF Keep
<1>2. CASE raw # NoRaw /\ ~(Len(raw) >= cfg.bufUnits)
  <2>1. raw' = (IF responseNotSent THEN raw \o units ELSE NoRaw)
    BY <1>2 DEF Keep
  <2>2. raw \o units \in Seq(Units)
    BY <1>2 DEF TypeUnits
  <2> QED BY <1>2, <2>1, <2>2
<1> QED BY <1>1, <1>2

\* What came with the request are the first units.
LEMMA EarlyFacts ==
  ASSUME cfg \in Settings
  PROVE  Early = FirstUnits(cfg.early) /\ Early \in Seq(Units)
<1>1. Early = FirstUnits(cfg.early)
  BY DEF Early, FirstUnits
<1>2. cfg.early \in 0 .. cfg.units /\ cfg.units \in Nat
  BY SettingFacts
<1> QED BY <1>1, <1>2 DEF Early, Units

\* The buffer and the server hold units.
LEMMA UnitsStep ==
  ASSUME TunnelInv, [Next]_vars
  PROVE  TypeUnits'
<1>1. cfg \in Settings /\ Units' = Units /\ TypeUnits
  BY SettingStays DEF TunnelInv, TypeOK, TypeControl, Units
<1> USE <1>1 DEF TypeUnits, request, client, server, passed, watch, site
<1>2. CASE Connect
  BY <1>2 DEF Connect
<1>3. ASSUME End PROVE raw' = NoRaw
  BY <1>3 DEF End
<1>4. ASSUME ShouldRetry PROVE raw' = NoRaw \/ raw' = raw
  BY <1>3, <1>4 DEF ShouldRetry
<1>5. CASE ConnectFails \/ StartGivesUp \/ WaitEnd
  BY <1>3, <1>5 DEF ConnectFails, StartGivesUp, WaitEnd
<1>6. CASE StartFails \/ WaitRetry
  BY <1>4, <1>6 DEF StartFails, WaitRetry
<1>7. CASE StartTunnel
  <2>1. cfg.front = "http" => raw \in Seq(Units)
    BY <1>7 DEF StartTunnel, TunnelInv, BufferInv
  <2>2. delivered' = <<>> \/ (delivered' = raw /\ cfg.front = "http")
    BY <1>7 DEF StartTunnel
  <2> QED BY <1>7, <2>1, <2>2 DEF StartTunnel
<1>8. CASE ResendRaw
  <2>1. isRetry => raw \in Seq(Units)
    BY <1>8, SettingFacts
       DEF ResendRaw, isRetry, TunnelInv, TryInv, BufferInv, TypeOK, TypeCounts
  <2>2. isRetry => delivered \o raw \in Seq(Units)
    BY <2>1
  <2>3. delivered' = delivered \/ (isRetry /\ delivered' = delivered \o raw)
    BY <1>8 DEF ResendRaw
  <2> QED BY <1>8, <2>2, <2>3 DEF ResendRaw
<1>9. CASE SendBuffered
  <2>1. Early \in Seq(Units) /\ delivered \o Early \in Seq(Units)
    BY EarlyFacts
  <2>2. delivered' = delivered \/ delivered' = delivered \o Early
    BY <1>9 DEF SendBuffered
  <2>3. raw' = raw \/ Keep(Early)
    BY <1>9 DEF SendBuffered
  <2>4. raw' = NoRaw \/ raw' \in Seq(Units)
    BY <2>1, <2>3, KeepUnits
  <2> QED BY <2>1, <2>2, <2>4
<1>10. CASE WriteServer
  <2>1. pos \in Units
    BY <1>10, SettingFacts DEF WriteServer, TunnelInv, BufferInv, TypeOK, TypeCounts, Units
  <2>2. <<pos>> \in Seq(Units) /\ Append(delivered, pos) \in Seq(Units)
    BY <2>1
  <2> QED BY <1>10, <2>2, KeepUnits DEF WriteServer
<1>11. CASE ReadServer \/ WriteClient \/ SetServerState \/ ReadBlocked \/ ReadEnds
  BY <1>11 DEF ReadServer, WriteClient, SetServerState, ReadBlocked, ReadEnds
<1>12. CASE LoopTop \/ ReadClient \/ ReadClientEnds \/ CheckSSL \/ ReadClientTimeout \/ CloseServer
  BY <1>12 DEF LoopTop, ReadClient, ReadClientEnds, CheckSSL, ReadClientTimeout, CloseServer
<1>13. CASE Watchdog \/ Environment \/ UNCHANGED vars
  BY <1>13 DEF Watchdog, Environment, WatchdogDecide, WatchdogClose, ClientSend, ClientClose,
               ServerEnd, TimePasses, BlockExpires, vars
<1> QED
  BY <1>2, <1>5, <1>6, <1>7, <1>8, <1>9, <1>10, <1>11, <1>12, <1>13
  DEF Next, Main, ClientToServer, Ended

-----------------------------------------------------------------------------
(* Tries                                                                   *)

\* What ShouldRetry decides: another try only for a CONNECT that has not been
\* answered and is complete in the buffer, which it is unless it is partial.
LEMMA RetryDecision ==
  ASSUME TunnelInv, ShouldRetry, pc # "end"
  PROVE  \/ pc' = "end" /\ raw' = NoRaw /\ cliOpen' = FALSE /\ tryCnt' = tryCnt
         \/ /\ pc' = "retry" /\ raw' = raw /\ cliOpen' = cliOpen
            /\ cfg.front = "http" /\ state = rsCreated /\ ~partial /\ raw # NoRaw
            /\ tryCnt' = 0 \/ (tryCnt' = tryCnt /\ tryCnt <= 3)
<1>1. CASE Verdict = "no"
  BY <1>1 DEF ShouldRetry, End
<1>2. CASE Verdict # "no"
  <2>1. cfg.front = "http" /\ state = rsCreated /\ ~partial
    BY <1>2 DEF Verdict, responseNotSent
  <2>2. raw # NoRaw
    BY <2>1 DEF TunnelInv, BufferInv, rsCreated, rsRecvBody
  <2>3. Verdict \in {"again", "block"} /\ (Verdict = "again" => ~(tryCnt > 3))
    BY <1>2, <2>1, <2>2 DEF Verdict, responseNotSent, tooManyRetry
  <2>4. tryCnt \in Nat
    BY DEF TunnelInv, TypeOK, TypeCounts
  <2> QED BY <1>2, <2>1, <2>2, <2>3, <2>4 DEF ShouldRetry
<1> QED BY <1>1, <1>2

\* The counting of tries survives every step.
LEMMA TryStep ==
  ASSUME TunnelInv, [Next]_vars
  PROVE  TryInv'
<1>1. /\ cfg \in Settings /\ cfg' = cfg /\ TryInv /\ conn \in Nat /\ tryCnt \in Nat
      /\ state \in {rsCreated, rsRecvBody}
  BY SettingStays, SettingFacts DEF TunnelInv, TypeOK, TypeControl, TypeCounts
<1> USE <1>1 DEF TryInv, rsCreated, rsRecvBody, request, client, server, passed, watch, site
<1>2. CASE Connect
  BY <1>2, SettingFacts DEF Connect
<1>3. CASE ConnectFails \/ StartTunnel \/ StartGivesUp \/ ReadServer \/ WriteClient \/ SetServerState
  BY <1>3 DEF ConnectFails, StartTunnel, StartGivesUp, ReadServer, WriteClient, SetServerState, End
<1>4. CASE ReadBlocked \/ ReadEnds \/ WaitEnd
  BY <1>4 DEF ReadBlocked, ReadEnds, WaitEnd, End
<1>5. ASSUME ShouldRetry, pc # "end", UNCHANGED <<state, conn, got>>, conn > 0
      PROVE  TryInv'
  <2>1. CASE pc' = "end"
    BY <1>5, <2>1, RetryDecision
  <2>2. CASE pc' # "end"
    <3>1. /\ pc' = "retry" /\ cfg.front = "http" /\ state = rsCreated
          /\ tryCnt' = 0 \/ (tryCnt' = tryCnt /\ tryCnt <= 3)
      BY <1>5, <2>2, RetryDecision
    <3> QED BY <1>5, <3>1
  <2> QED BY <2>1, <2>2
<1>6. CASE StartFails \/ WaitRetry
  BY <1>5, <1>6 DEF StartFails, WaitRetry
<1>7. CASE ClientToServer
  BY <1>7 DEF ClientToServer, ResendRaw, SendBuffered, LoopTop, ReadClient, ReadClientEnds,
              CheckSSL, ReadClientTimeout, WriteServer, CloseServer
<1>8. CASE Watchdog \/ Environment \/ UNCHANGED vars
  BY <1>8 DEF Watchdog, Environment, WatchdogDecide, WatchdogClose, ClientSend, ClientClose,
              ServerEnd, TimePasses, BlockExpires, vars
<1> QED
  BY <1>2, <1>3, <1>4, <1>6, <1>7, <1>8 DEF Next, Main, Ended

-----------------------------------------------------------------------------
(* The buffer                                                              *)

\* The ways serverWriter.Write treats the buffer.
LEMMA KeepCases ==
  ASSUME TunnelInv, NEW units \in Seq(Units), Keep(units)
  PROVE  \/ raw = NoRaw /\ raw' = NoRaw /\ partial' = partial
         \/ raw # NoRaw /\ raw' = NoRaw /\ partial'
         \/ raw # NoRaw /\ raw' = NoRaw /\ state = rsRecvBody /\ partial' = partial
         \/ /\ raw # NoRaw /\ raw' = raw \o units /\ raw' # NoRaw
            /\ state = rsCreated /\ partial' = partial
<1>1. state \in {rsCreated, rsRecvBody} /\ cfg.units \in Nat
  BY SettingFacts DEF TunnelInv, TypeOK, TypeControl
<1>2. raw # NoRaw => raw \o units \in Seq(Units)
  BY DEF TunnelInv, TypeOK, TypeUnits
<1>3. raw # NoRaw => raw \o units # NoRaw
  BY <1>1, <1>2, UnitsNotNoRaw DEF Units
<1> QED BY <1>1, <1>3 DEF Keep, responseNotSent

\* A step that leaves the buffer alone and goes to no place where more is
\* asked of it.
LEMMA BufferQuiet ==
  ASSUME BufferInv, UNCHANGED <<cfg, raw, partial, buffered, pos>>,
         cfg.early <= sent', Handed' = Handed, Fresh' => Fresh,
         state = rsRecvBody => state' = rsRecvBody, pc = "end" => pc' = "end",
         (pc' \in {"retry", "connected"} \/ cpc' = "start") =>
           \/ pc \in {"retry", "connected"} \/ cpc = "start"
           \/ raw # NoRaw /\ ~partial,
         cpc' \in {"loop", "read", "write"} => cpc \in {"loop", "read", "write"},
         cpc' = "write" => cpc = "write"
  PROVE  BufferInv'
<1>1. /\ (cfg.front = "socks" => raw = NoRaw)'
      /\ (cfg.front = "http" /\ raw = NoRaw => pc = "end" \/ partial \/ state = rsRecvBody)'
  BY DEF BufferInv
<1>2. (cfg.front = "http" /\ (pc \in {"retry", "connected"} \/ cpc = "start") =>
        raw # NoRaw /\ ~partial)'
  BY DEF BufferInv
<1>3. /\ (raw # NoRaw => 1 .. Handed \subseteq Range(raw))'
      /\ (raw # NoRaw /\ cfg.early = 0 => raw = FirstUnits(Handed))'
  BY DEF BufferInv, FirstUnits, Range
<1>4. /\ (buffered => pos = 0)' /\ (cfg.early <= sent)'
      /\ (cpc \in {"loop", "read", "write"} => ~buffered)'
      /\ (cpc = "write" => pos > 0)'
      /\ (Fresh => pos = 0 /\ raw \in {<<>>, NoRaw})'
  BY DEF BufferInv
<1> QED BY <1>1, <1>2, <1>3, <1>4 DEF BufferInv

\* The end of the request releases the buffer.
LEMMA BufferEnds ==
  ASSUME BufferInv, pc' = "end", raw' = NoRaw, cpc' = "none",
         UNCHANGED <<cfg, buffered, pos, sent>>
  PROVE  BufferInv'
BY DEF BufferInv, Fresh

\* The main goroutine keeps the buffer for a retry.
LEMMA BufferMain ==
  ASSUME TunnelInv, Main
  PROVE  BufferInv'
<1>1. /\ BufferInv /\ cfg.early <= sent /\ (pc = "retry" => state = rsCreated)
      /\ cpc = "none" <=> pc \in {"retry", "connected", "end", "panic"}
      /\ conn \in Nat
  BY SettingFacts
     DEF TunnelInv, BufferInv, TypeOK, TypeControl, TypeCounts, TryInv, rsCreated, rsRecvBody
<1> USE DEF request, client, server, passed, watch, site
<1>2. CASE Connect
  <2>1. UNCHANGED <<cfg, raw, partial, buffered, pos, sent, cpc>> /\ pc = "retry"
        /\ pc' = "connected" /\ conn' = conn + 1 /\ cpc = "none"
    BY <1>1, <1>2 DEF Connect
  <2>2. Handed' = Handed /\ (Fresh' => Fresh)
    BY <1>1, <2>1 DEF Handed, Fresh
  <2> QED BY <1>1, <2>1, <2>2, BufferQuiet DEF rsCreated, rsRecvBody
<1>3. CASE ConnectFails \/ StartGivesUp \/ WaitEnd
  BY <1>1, <1>3, BufferEnds DEF ConnectFails, StartGivesUp, WaitEnd, End
<1>4. CASE StartTunnel
  <2>1. /\ UNCHANGED <<cfg, raw, partial, buffered, pos, sent, state, conn>>
        /\ pc = "connected" /\ pc' = "s2c" /\ cpc = "none" /\ cpc' = "start"
    BY <1>1, <1>4 DEF StartTunnel
  <2>2. Handed' = Handed /\ (Fresh' => Fresh)
    BY <2>1 DEF Handed, Fresh
  <2> QED BY <1>1, <2>1, <2>2, BufferQuiet
<1>5. CASE StartFails \/ WaitRetry
  <2>1. /\ UNCHANGED <<cfg, partial, buffered, pos, sent, state, conn>>
        /\ ShouldRetry /\ pc # "end" /\ cpc' = "none" /\ cpc # "write" /\ conn > 0
    BY <1>1, <1>5 DEF StartFails, WaitRetry, TunnelInv, TryInv
  <2>2. CASE pc' = "end"
    <3>1. raw' = NoRaw
      BY <2>1, <2>2, RetryDecision
    <3> QED BY <1>1, <2>1, <2>2, <3>1, BufferEnds
  <2>3. CASE pc' # "end"
    <3>1. pc' = "retry" /\ raw' = raw /\ raw # NoRaw /\ ~partial
      BY <2>1, <2>3, RetryDecision
    <3>2. Handed' = Handed /\ ~Fresh'
      BY <1>1, <2>1, <3>1 DEF Handed, Fresh
    <3> QED BY <1>1, <2>1, <3>1, <3>2, BufferQuiet
  <2> QED BY <2>2, <2>3
<1>6. CASE ReadServer \/ WriteClient \/ SetServerState \/ ReadBlocked \/ ReadEnds
  <2>1. /\ UNCHANGED <<cfg, raw, partial, buffered, pos, sent, conn, cpc>>
        /\ state' = state \/ state' = rsRecvBody
        /\ pc \notin {"retry", "connected", "end"} /\ pc' \notin {"retry", "connected", "end"}
    BY <1>6 DEF ReadServer, WriteClient, SetServerState, ReadBlocked, ReadEnds
  <2>2. Handed' = Handed /\ (Fresh' => Fresh)
    BY <2>1 DEF Handed, Fresh
  <2> QED BY <1>1, <2>1, <2>2, BufferQuiet
<1> QED BY <1>2, <1>3, <1>4, <1>5, <1>6 DEF Main

\* copyClient2Server keeps what it hands to serverWriter, or gives the retry up.
LEMMA BufferCopy ==
  ASSUME TunnelInv, ClientToServer
  PROVE  BufferInv'
<1>1. /\ BufferInv /\ cfg \in Settings /\ cfg.early <= sent /\ sent \in Nat /\ pos \in 0 .. sent
      /\ cpc = "none" <=> pc \in {"retry", "connected", "end", "panic"}
      /\ state \in {rsCreated, rsRecvBody} /\ TypeUnits /\ cfg.early \in Nat
  BY SettingFacts DEF TunnelInv, BufferInv, TypeOK, TypeControl, TypeCounts
<1> USE DEF request, client, server, passed, watch, site
<1>2. CASE ResendRaw \/ LoopTop \/ ReadClientEnds \/ CheckSSL \/ ReadClientTimeout \/ CloseServer
  <2>1. /\ UNCHANGED <<cfg, raw, partial, buffered, pos, sent, state, conn, pc>>
        /\ cpc \notin {"write", "none"} /\ cpc' \notin {"write", "none", "start"}
        /\ cpc' \in {"loop", "read"} => cpc \in {"loop", "read"}
        /\ cpc' = "buffered" => cpc = "start"
    BY <1>2 DEF ResendRaw, LoopTop, ReadClientEnds, CheckSSL, ReadClientTimeout, CloseServer
  <2>2. Handed' = Handed /\ (Fresh' => Fresh)
    BY <1>1, <2>1 DEF Handed, Fresh
  <2> QED BY <1>1, <2>1, <2>2, BufferQuiet
<1>3. CASE ReadClient
  <2>1. /\ UNCHANGED <<cfg, raw, partial, buffered, sent, state, conn, pc>>
        /\ cpc = "read" /\ cpc' = "write" /\ pos' = pos + 1
    BY <1>3 DEF ReadClient
  <2>2. Handed' = Handed /\ ~Fresh' /\ pc \notin {"retry", "connected", "end"}
    BY <1>1, <2>1 DEF Handed, Fresh
  <2>3. (raw # NoRaw => 1 .. Handed \subseteq Range(raw))'
        /\ (raw # NoRaw /\ cfg.early = 0 => raw = FirstUnits(Handed))'
    BY <1>1, <2>1, <2>2 DEF BufferInv, FirstUnits, Range
  <2>4. ~buffered /\ pos + 1 > 0
    BY <1>1, <2>1 DEF BufferInv
  <2> QED BY <1>1, <2>1, <2>2, <2>3, <2>4 DEF BufferInv
<1>4. CASE WriteServer
  <2>1. /\ UNCHANGED <<cfg, buffered, sent, state, conn, pc, pos>>
        /\ cpc = "write" /\ cpc' \in {"loop", "closing"} /\ Keep(<<pos>>)
    BY <1>4 DEF WriteServer
  <2>2. /\ Handed = pos - 1 /\ Handed' = pos /\ ~Fresh' /\ pos > 0 /\ ~buffered
        /\ pc \notin {"retry", "connected", "end"}
    BY <1>1, <2>1 DEF Handed, Fresh, BufferInv
  <2>5. pos \in Units
    BY <1>1, <2>2, SettingFacts DEF Units, TunnelInv, TypeOK, TypeCounts
  <2>6. <<pos>> \in Seq(Units) /\ Range(<<pos>>) = {pos}
    BY <2>5 DEF Range
  <2>3. CASE raw' = NoRaw
    <3>1. partial' \/ state = rsRecvBody \/ (raw = NoRaw /\ partial' = partial)
      BY <2>1, <2>3, <2>6, KeepCases
    <3> QED BY <1>1, <2>1, <2>2, <2>3, <3>1 DEF BufferInv
  <2>4. CASE raw' # NoRaw
    <3>1. raw' = raw \o <<pos>> /\ raw # NoRaw /\ raw \in Seq(Units) /\ partial' = partial
      BY <1>1, <2>1, <2>4, <2>6, KeepCases DEF TypeUnits
    <3>2. Range(raw \o <<pos>>) = Range(raw) \cup Range(<<pos>>)
      BY <2>6, <3>1, RangeConcat
    <3>3. Range(raw') = Range(raw) \cup {pos}
      BY <2>6, <3>1, <3>2
    <3>4. 1 .. pos \subseteq Range(raw')
      <4>1. 1 .. pos - 1 \subseteq Range(raw)
        BY <1>1, <2>2, <3>1 DEF BufferInv
      <4> QED BY <1>1, <2>2, <3>3, <4>1
    <3>5. cfg.early = 0 => raw' = FirstUnits(pos)
      <4>1. cfg.early = 0 => raw = FirstUnits(pos - 1)
        BY <1>1, <2>2, <3>1 DEF BufferInv
      <4>2. pos - 1 \in Nat /\ (pos - 1) + 1 = pos
        BY <1>1, <2>2
      <4>3. FirstUnits(pos - 1) \o <<pos>> = FirstUnits(pos)
        BY <4>2, FirstUnitsFacts
      <4> QED BY <3>1, <4>1, <4>3
    <3>6. (raw # NoRaw => 1 .. Handed \subseteq Range(raw))'
          /\ (raw # NoRaw /\ cfg.early = 0 => raw = FirstUnits(Handed))'
      BY <2>1, <2>2, <3>4, <3>5 DEF FirstUnits, Range
    <3> QED BY <1>1, <2>1, <2>2, <2>4, <3>1, <3>6 DEF BufferInv
  <2> QED BY <2>3, <2>4
<1>5. CASE SendBuffered
  <2>1. /\ UNCHANGED <<cfg, sent, state, conn, pc>> /\ cpc = "buffered"
        /\ cpc' \in {"loop", "closing"} /\ pc \notin {"retry", "connected", "end"}
    BY <1>1, <1>5 DEF SendBuffered
  <2>2. Handed = pos /\ Handed' = pos' /\ ~Fresh'
    BY <2>1 DEF Handed, Fresh
  <2>3. CASE ~buffered \/ cfg.early = 0
    <3>3. ~(buffered /\ cfg.early > 0)
      BY <1>1, <2>3
    <3>1. UNCHANGED <<pos, raw, partial>> /\ buffered' = FALSE
      BY <1>5, <3>3 DEF SendBuffered
    <3>2. (raw # NoRaw => 1 .. Handed \subseteq Range(raw))'
          /\ (raw # NoRaw /\ cfg.early = 0 => raw = FirstUnits(Handed))'
      BY <1>1, <2>1, <2>2, <3>1 DEF BufferInv, FirstUnits, Range
    <3> QED BY <1>1, <2>1, <2>2, <3>1, <3>2 DEF BufferInv
  <2>4. CASE buffered /\ cfg.early > 0
    <3>4. ~(~buffered \/ cfg.early = 0) /\ pos = 0
      BY <1>1, <2>4 DEF BufferInv
    <3>1. /\ Keep(Early)
          /\ \/ pos' = cfg.early /\ buffered' = FALSE
             \/ pos' = pos /\ buffered' = buffered /\ cpc' = "closing"
      BY <1>5, <3>4 DEF SendBuffered
    <3>2. CASE raw' = NoRaw
      <4>1. partial' \/ state = rsRecvBody \/ (raw = NoRaw /\ partial' = partial)
        BY <1>1, <3>1, <3>2, EarlyFacts, KeepCases
      <4>2. (buffered => pos = 0)'
        BY <3>1, <3>4
      <4> QED BY <1>1, <2>1, <2>2, <2>4, <3>1, <3>2, <4>1, <4>2 DEF BufferInv
    <3>3. CASE raw' # NoRaw
      <4>1. raw' = raw \o Early /\ raw # NoRaw /\ raw \in Seq(Units) /\ partial' = partial
        BY <1>1, <3>1, <3>3, EarlyFacts, KeepCases DEF TypeUnits
      <4>2. Early \in Seq(Units) /\ Range(Early) = 1 .. cfg.early
        BY <1>1, EarlyFacts, RangeFirstUnits
      <4>6. Range(raw \o Early) = Range(raw) \cup Range(Early)
        BY <4>1, <4>2, RangeConcat
      <4>3. 1 .. cfg.early \subseteq Range(raw')
        BY <4>1, <4>2, <4>6
      <4>4. 1 .. pos' \subseteq Range(raw') /\ cfg.early # 0
        <5>1. CASE pos' = cfg.early
          BY <2>4, <4>3, <5>1, <1>1
        <5>2. CASE pos' = 0
          BY <2>4, <5>2, <1>1
        <5> QED BY <3>1, <3>4, <5>1, <5>2
      <4>5. (raw # NoRaw => 1 .. Handed \subseteq Range(raw))'
            /\ (raw # NoRaw /\ cfg.early = 0 => raw = FirstUnits(Handed))'
        BY <2>1, <2>2, <4>4 DEF Range
      <4> QED BY <1>1, <2>1, <2>2, <2>4, <3>1, <3>3, <3>4, <4>1, <4>5 DEF BufferInv
    <3> QED BY <3>2, <3>3
  <2> QED BY <1>1, <2>3, <2>4
<1> QED BY <1>2, <1>3, <1>4, <1>5 DEF ClientToServer

\* The buffer, whoever takes a step.
LEMMA BufferStep ==
  ASSUME TunnelInv, [Next]_vars
  PROVE  BufferInv'
<1>1. CASE Watchdog \/ Environment \/ UNCHANGED vars
  <2>1. BufferInv /\ cfg.early <= sent /\ sent \in Nat /\ cfg.early \in Nat
    BY SettingFacts DEF TunnelInv, BufferInv, TypeOK, TypeControl, TypeCounts
  <2>2. UNCHANGED <<cfg, raw, partial, buffered, pos, state, conn, pc, cpc>>
        /\ (sent' = sent \/ sent' = sent + 1)
    BY <1>1 DEF Watchdog, Environment, WatchdogDecide, WatchdogClose, ClientSend, ClientClose,
                ServerEnd, TimePasses, BlockExpires, vars, request, client, server
  <2>3. Handed' = Handed /\ (Fresh' => Fresh)
    BY <2>2 DEF Handed, Fresh
  <2> QED BY <2>1, <2>2, <2>3, BufferQuiet
<1> QED BY <1>1, BufferMain, BufferCopy DEF Next, Ended

-----------------------------------------------------------------------------
(* What the servers get                                                    *)

\* Without a resend of any kind a try that is not a retry is the first one.
LEMMA FirstTry ==
  ASSUME TunnelInv, ~Resends, ~isRetry, pc \notin {"retry", "end"}
  PROVE  conn = 1
<1>1. /\ conn \in Nat /\ tryCnt \in Nat /\ conn > 0 /\ cfg.front \in {"http", "socks"}
      /\ cfg.front = "socks" => conn <= 1
  BY SettingFacts DEF TunnelInv, TryInv, TypeOK, TypeControl, TypeCounts
<1>2. ~(cfg.front = "http" /\ conn # tryCnt) /\ ~(tryCnt > 1)
  BY DEF Resends, CountRestarted, isRetry
<1> QED BY <1>1, <1>2

\* A step that neither writes to the server nor goes to a place that asks for
\* more.
LEMMA DeliveredQuiet ==
  ASSUME DeliveredInv, cpc # "none", delivered' = delivered, Resends' = Resends,
         Handed' = Handed, cpc' = "start" => cpc = "start",
         cpc' \in {"buffered", "loop", "read", "write"} =>
           cpc \in {"buffered", "loop", "read", "write"}
  PROVE  DeliveredInv'
BY DEF DeliveredInv, FirstUnits

\* The main goroutine starts a connection with nothing, or with the buffer,
\* which is empty in a first try.
LEMMA DeliveredMain ==
  ASSUME TunnelInv, Main
  PROVE  DeliveredInv'
<1>1. /\ DeliveredInv
      /\ cpc = "none" <=> pc \in {"retry", "connected", "end", "panic"}
  BY DEF TunnelInv, TypeOK, TypeControl
<1> USE DEF request, client, server, passed, watch, site
<1>2. CASE Connect \/ ConnectFails \/ StartFails \/ StartGivesUp \/ WaitRetry \/ WaitEnd
  <2>1. cpc' = "none"
    BY <1>1, <1>2 DEF Connect, ConnectFails, StartFails, StartGivesUp, WaitRetry, WaitEnd
  <2> QED BY <2>1 DEF DeliveredInv
<1>3. CASE StartTunnel
  <2>1. /\ UNCHANGED <<cfg, tryCnt, raw, sv, conn>> /\ pc = "connected" /\ cpc' = "start"
        /\ delivered' = IF HTTPParent /\ cfg.front = "http" THEN raw ELSE <<>>
    BY <1>3 DEF StartTunnel
  <2>2. Resends' = Resends
    BY <2>1 DEF Resends, isRetry, HTTPParent, CountRestarted
  <2>3. ASSUME ~Resends PROVE delivered' = <<>>
    <3>1. CASE HTTPParent /\ cfg.front = "http"
      <4>1. ~isRetry
        BY <2>3, <3>1 DEF Resends
      <4>2. Fresh
        BY <2>1, <2>3, <4>1, FirstTry DEF Fresh
      <4> QED BY <2>1, <3>1, <4>2 DEF TunnelInv, BufferInv
    <3>2. CASE ~(HTTPParent /\ cfg.front = "http")
      BY <2>1, <3>2
    <3> QED BY <3>1, <3>2
  <2>4. ~Resends => \E n \in Nat : delivered' = FirstUnits(n)
    <3>1. 0 \in Nat /\ FirstUnits(0) = <<>>
      BY FirstUnitsFacts
    <3> QED BY <2>3, <3>1
  <2> QED BY <2>1, <2>2, <2>3, <2>4 DEF DeliveredInv, FirstUnits
<1>4. CASE ReadServer \/ WriteClient \/ SetServerState \/ ReadBlocked \/ ReadEnds
  <2>1. UNCHANGED <<cfg, tryCnt, conn, cpc, delivered, pos>> /\ cpc # "none"
        /\ (sv' = sv \/ sv' = [sv EXCEPT !.connected = FALSE])
    BY <1>1, <1>4 DEF ReadServer, WriteClient, SetServerState, ReadBlocked, ReadEnds
  <2>2. sv'.kind = sv.kind
    BY <2>1 DEF TunnelInv, TypeOK, TypeControl, NoServer
  <2>3. Resends' = Resends /\ Handed' = Handed
    BY <2>1, <2>2 DEF Resends, isRetry, HTTPParent, CountRestarted, Handed
  <2> QED BY <1>1, <2>1, <2>3, DeliveredQuiet
<1> QED BY <1>2, <1>3, <1>4 DEF Main

\* copyClient2Server sends the buffer in a retry, then what comes next.
LEMMA DeliveredCopy ==
  ASSUME TunnelInv, ClientToServer
  PROVE  DeliveredInv'
<1>1. /\ DeliveredInv /\ cfg \in Settings /\ sent \in Nat /\ pos \in 0 .. sent /\ pos \in Nat
      /\ cpc = "none" <=> pc \in {"retry", "connected", "end", "panic"}
      /\ cfg.early \in Nat /\ tryCnt \in Nat
  BY SettingFacts DEF TunnelInv, TypeOK, TypeControl, TypeCounts
<1>2. UNCHANGED <<cfg, tryCnt, conn, sv, sent, pc>> /\ cpc # "none"
  BY DEF ClientToServer, ResendRaw, SendBuffered, LoopTop, ReadClient, ReadClientEnds,
         CheckSSL, ReadClientTimeout, WriteServer, CloseServer, request, client, server
<1>3. Resends' = Resends
  BY <1>2 DEF Resends, isRetry, HTTPParent, CountRestarted
<1> USE DEF request, client, server, passed, watch, site
<1>4. CASE LoopTop \/ ReadClientEnds \/ CheckSSL \/ ReadClientTimeout \/ CloseServer
  <2>1. /\ UNCHANGED <<pos, delivered>> /\ cpc # "write" /\ cpc' \notin {"write", "start"}
        /\ cpc' \in {"buffered", "loop", "read"} => cpc \in {"loop", "read"}
    BY <1>4 DEF LoopTop, ReadClientEnds, CheckSSL, ReadClientTimeout, CloseServer
  <2>2. Handed' = Handed
    BY <2>1 DEF Handed
  <2> QED BY <1>1, <1>2, <1>3, <2>1, <2>2, DeliveredQuiet
<1>5. CASE ReadClient
  <2>1. delivered' = delivered /\ pos' = pos + 1 /\ cpc = "read" /\ cpc' = "write"
    BY <1>5 DEF ReadClient
  <2>2. Handed' = Handed
    BY <1>1, <2>1 DEF Handed
  <2> QED BY <1>1, <1>2, <1>3, <2>1, <2>2, DeliveredQuiet
<1>6. CASE ResendRaw
  <2>1. cpc = "start" /\ cpc' \in {"buffered", "closing"} /\ UNCHANGED <<pos, raw>>
    BY <1>6 DEF ResendRaw
  <2>2. Handed = pos /\ Handed' = pos
    BY <2>1 DEF Handed
  <2>3. SUFFICES ASSUME ~Resends
                 PROVE  /\ cpc' = "buffered" => delivered' = FirstUnits(pos)
                        /\ \E n \in Nat : delivered' = FirstUnits(n)
    BY <1>3, <2>1, <2>2 DEF DeliveredInv, FirstUnits
  <2>4. delivered = <<>> /\ 0 \in Nat /\ FirstUnits(0) = <<>>
    BY <1>1, <1>2, <2>1, <2>3, FirstUnitsFacts DEF DeliveredInv
  <2>5. CASE ~isRetry
    <3>1. Fresh
      BY <1>1, <2>1, <2>3, <2>5, FirstTry DEF Fresh
    <3>2. pos = 0 /\ delivered' = delivered
      BY <1>6, <2>5, <3>1 DEF TunnelInv, BufferInv, ResendRaw
    <3> QED BY <2>4, <3>2
  <2>6. CASE isRetry
    <3>1. cfg.early = 0
      BY <1>1, <2>3, <2>6 DEF Resends
    <3>2. cfg.front = "http"
      BY <1>1, <2>6, SettingFacts DEF isRetry, TunnelInv, TryInv
    <3>3. raw = FirstUnits(pos)
      BY <2>1, <2>2, <3>1, <3>2 DEF TunnelInv, BufferInv
    <3>4. delivered \o raw = FirstUnits(pos)
      BY <1>1, <2>4, <3>3, FirstUnitsFacts
    <3>5. \/ cpc' = "buffered" /\ delivered' = delivered \o raw
          \/ cpc' = "closing" /\ delivered' = delivered
      BY <1>6, <2>6 DEF ResendRaw
    <3> QED BY <1>1, <2>4, <3>4, <3>5
  <2> QED BY <2>5, <2>6
<1>7. CASE SendBuffered
  <2>1. cpc = "buffered" /\ cpc' \in {"loop", "closing"}
    BY <1>7 DEF SendBuffered
  <2>2. Handed = pos /\ Handed' = pos'
    BY <2>1 DEF Handed
  <2>3. SUFFICES ASSUME ~Resends
                 PROVE  /\ cpc' = "loop" => delivered' = FirstUnits(pos')
                        /\ \E n \in Nat : delivered' = FirstUnits(n)
    BY <1>3, <2>1, <2>2 DEF DeliveredInv, FirstUnits
  <2>4. delivered = FirstUnits(pos)
    BY <1>1, <1>2, <2>1, <2>2, <2>3 DEF DeliveredInv
  <2>5. CASE UNCHANGED <<pos, delivered>>
    BY <1>1, <2>4, <2>5
  <2>6. CASE ~UNCHANGED <<pos, delivered>>
    <3>1. delivered' = delivered \o Early /\ pos' = cfg.early /\ cfg.early > 0
      BY <1>7, <2>6 DEF SendBuffered
    <3>2. ~isRetry
      BY <2>3, <3>1 DEF Resends
    <3>3. Fresh
      BY <1>1, <2>1, <2>3, <3>2, FirstTry DEF Fresh
    <3>4. pos = 0
      BY <3>3 DEF TunnelInv, BufferInv
    <3>5. delivered' = FirstUnits(cfg.early)
      BY <1>1, <2>4, <3>1, <3>4, EarlyFacts, FirstUnitsFacts
    <3> QED BY <1>1, <3>1, <3>5
  <2> QED BY <2>5, <2>6
<1>8. CASE WriteServer
  <2>1. cpc = "write" /\ cpc' \in {"loop", "closing"} /\ pos' = pos
    BY <1>8 DEF WriteServer
  <2>2. Handed = pos - 1 /\ Handed' = pos
    BY <2>1 DEF Handed
  <2>3. SUFFICES ASSUME ~Resends
                 PROVE  /\ cpc' = "loop" => delivered' = FirstUnits(pos)
                        /\ \E n \in Nat : delivered' = FirstUnits(n)
    BY <1>3, <2>1, <2>2 DEF DeliveredInv, FirstUnits
  <2>4. delivered = FirstUnits(pos - 1)
    BY <1>1, <1>2, <2>1, <2>2, <2>3 DEF DeliveredInv
  <2>5. pos - 1 \in Nat /\ (pos - 1) + 1 = pos
    BY <1>1, <2>1 DEF TunnelInv, BufferInv
  <2>6. Append(delivered, pos) = FirstUnits(pos)
    BY <2>4, <2>5, FirstUnitsFacts
  <2>7. \/ cpc' = "loop" /\ delivered' = Append(delivered, pos)
        \/ cpc' = "closing" /\ delivered' = delivered
    BY <1>8 DEF WriteServer
  <2> QED BY <1>1, <2>4, <2>5, <2>6, <2>7
<1> QED BY <1>4, <1>5, <1>6, <1>7, <1>8 DEF ClientToServer

\* What the server has got, whoever takes a step.
LEMMA DeliveredStep ==
  ASSUME TunnelInv, [Next]_vars
  PROVE  DeliveredInv'
<1>1. CASE Watchdog \/ Environment \/ UNCHANGED vars
  <2>1. UNCHANGED <<cfg, tryCnt, conn, sv, cpc, pos, delivered>>
    BY <1>1 DEF Watchdog, Environment, WatchdogDecide, WatchdogClose, ClientSend, ClientClose,
                ServerEnd, TimePasses, BlockExpires, vars, request, client, server, passed
  <2>2. Resends' = Resends /\ Handed' = Handed
    BY <2>1 DEF Resends, isRetry, HTTPParent, CountRestarted, Handed
  <2> QED BY <2>1, <2>2 DEF TunnelInv, DeliveredInv, FirstUnits
<1> QED BY <1>1, DeliveredMain, DeliveredCopy DEF Next, Ended

-----------------------------------------------------------------------------
(* What the client hears, and who closes what                              *)

\* The client is told by a first try or by the parent, and hears a server only
\* once no retry is possible.
LEMMA HeardStep ==
  ASSUME TunnelInv, [Next]_vars
  PROVE  HeardInv'
<1>1. /\ HeardInv /\ TryInv /\ cfg' = cfg /\ conn \in Nat /\ tryCnt \in Nat /\ told \in Nat
      /\ cfg.front \in {"http", "socks"} /\ state \in {rsCreated, rsRecvBody}
      /\ cpc = "none" <=> pc \in {"retry", "connected", "end", "panic"}
  BY SettingStays, SettingFacts DEF TunnelInv, TypeOK, TypeControl, TypeCounts
<1> USE DEF rsCreated, rsRecvBody, request, client, server, passed, watch, site
<1>2. CASE Connect
  <2>1. /\ UNCHANGED <<heard, told, cpc>> /\ conn' = conn + 1 /\ pc = "retry"
        /\ pc' = "connected" /\ cpc = "none"
        /\ tryCnt' = IF cfg.front = "http" THEN tryCnt + 1 ELSE 0
    BY <1>1, <1>2 DEF Connect
  <2>2. heard' = {}
    BY <1>1, <2>1 DEF HeardInv, TryInv
  <2>3. (~CountRestarted' => ~CountRestarted) /\ (Fresh' => Fresh)
    BY <1>1, <2>1 DEF CountRestarted, Fresh
  <2> QED BY <1>1, <2>1, <2>2, <2>3 DEF HeardInv
<1>3. CASE StartTunnel
  <2>1. /\ UNCHANGED <<heard, conn, tryCnt, state, sv>> /\ pc = "connected" /\ cpc' = "start"
        /\ told' = told + (IF Confirms THEN 1 ELSE 0)
    BY <1>3 DEF StartTunnel
  <2>2. CountRestarted' = CountRestarted
    BY <1>1, <2>1 DEF CountRestarted
  <2>3. ASSUME cfg.parent # "http", ~CountRestarted PROVE told' <= 1
    <3>1. CASE Confirms
      <4>1. conn = 1
        BY <1>1, <2>1, <2>3, <3>1 DEF CountRestarted, Confirms, isRetry, TryInv
      <4>2. told <= 0
        BY <1>1, <2>1, <2>3, <4>1 DEF HeardInv, Fresh
      <4> QED BY <1>1, <2>1, <3>1, <4>2
    <3>2. CASE ~Confirms
      BY <1>1, <2>1, <2>3, <3>2 DEF HeardInv
    <3> QED BY <3>1, <3>2
  <2> QED BY <1>1, <2>1, <2>2, <2>3 DEF HeardInv
<1>4. CASE WriteClient
  <2>1. /\ UNCHANGED <<conn, tryCnt, cpc>> /\ state' = rsRecvBody /\ cpc # "none"
        /\ heard' \subseteq heard \cup {conn}
        /\ cfg.parent # "http" => told' = told
    BY <1>1, <1>4 DEF WriteClient, HTTPParent
  <2>2. CountRestarted' = CountRestarted
    BY <1>1, <2>1 DEF CountRestarted
  <2> QED BY <1>1, <2>1, <2>2 DEF HeardInv
<1>5. CASE StartFails \/ WaitRetry
  <2>1. UNCHANGED <<heard, told, conn, state>> /\ ShouldRetry /\ pc # "end" /\ conn > 0
        /\ pc # "retry" /\ cpc' = "none"
    BY <1>1, <1>5 DEF StartFails, WaitRetry, TryInv
  <2>2. tryCnt' = tryCnt \/ (tryCnt' = 0 /\ cfg.front = "http")
    BY <2>1, RetryDecision
  <2>3. pc' \in {"end", "retry"}
    BY <2>1, RetryDecision
  <2>4. (~CountRestarted' => ~CountRestarted) /\ ~Fresh'
    BY <1>1, <2>1, <2>2, <2>3 DEF CountRestarted, Fresh
  <2>5. cfg.parent # "http" /\ ~CountRestarted => told <= 1
    BY <1>1 DEF HeardInv
  <2> QED BY <1>1, <2>1, <2>4, <2>5 DEF HeardInv
<1>6. CASE ConnectFails \/ StartGivesUp \/ ReadServer \/ SetServerState \/ ReadBlocked \/ ReadEnds
           \/ WaitEnd
  <2>1. UNCHANGED <<heard, told, conn, tryCnt, state>> /\ pc' \notin {"retry", "connected"}
    BY <1>6 DEF ConnectFails, StartGivesUp, ReadServer, SetServerState, ReadBlocked, ReadEnds,
                WaitEnd, End
  <2>2. CountRestarted' = CountRestarted /\ ~(Fresh /\ cpc = "none")'
    BY <1>1, <2>1 DEF CountRestarted, Fresh
  <2>3. cfg.parent # "http" /\ ~CountRestarted => told <= 1
    BY <1>1 DEF HeardInv
  <2> QED BY <1>1, <2>1, <2>2, <2>3 DEF HeardInv
<1>7. CASE ClientToServer
  <2>1. UNCHANGED <<heard, told, conn, tryCnt, state, pc>> /\ cpc # "none" /\ cpc' # "none"
    BY <1>7 DEF ClientToServer, ResendRaw, SendBuffered, LoopTop, ReadClient, ReadClientEnds,
                CheckSSL, ReadClientTimeout, WriteServer, CloseServer
  <2>2. CountRestarted' = CountRestarted
    BY <1>1, <2>1 DEF CountRestarted
  <2> QED BY <1>1, <2>1, <2>2 DEF HeardInv
<1>8. CASE Watchdog \/ Environment \/ UNCHANGED vars
  <2>1. UNCHANGED <<heard, told, conn, tryCnt, state, pc, cpc>>
    BY <1>8 DEF Watchdog, Environment, WatchdogDecide, WatchdogClose, ClientSend, ClientClose,
                ServerEnd, TimePasses, BlockExpires, vars
  <2>2. CountRestarted' = CountRestarted /\ Fresh' = Fresh
    BY <1>1, <2>1 DEF CountRestarted, Fresh
  <2> QED BY <1>1, <2>1, <2>2 DEF HeardInv
<1> QED BY <1>2, <1>3, <1>4, <1>5, <1>6, <1>7, <1>8 DEF Next, Main, Ended

\* A step that closes nothing but what is to be closed, and starts no watchdog.
LEMMA CloseQuiet ==
  ASSUME CloseInv, UNCHANGED <<conn, wd>>, conn' \in open' => conn \in open,
         cpc' = "done" \/ (pc' \in {"retry", "end"} /\ got' > 0) =>
           \/ cpc = "done" \/ (pc \in {"retry", "end"} /\ got > 0)
           \/ conn \notin open',
         deadline' => cpc' \in {"loop", "read", "ssl", "write", "closing"},
         pc' = "connected" => pc = "connected",
         ~cliOpen' => \/ pc' \in {"wait", "end"}
                      \/ ~cliOpen /\ pc \notin {"wait", "end"}
  PROVE  CloseInv'
BY DEF CloseInv

\* Connections, deadlines and watchdogs, whoever takes a step.
LEMMA CloseStep ==
  ASSUME TunnelInv, [Next]_vars
  PROVE  CloseInv'
<1>1. /\ CloseInv /\ TryInv /\ conn \in 0 .. MaxConn /\ MaxConn \in Nat /\ got \in Nat
      /\ open \subseteq 1 .. conn
      /\ cpc = "none" <=> pc \in {"retry", "connected", "end", "panic"}
      /\ wd \in [1 .. MaxConn -> {"off", "on", "client", "server", "fired"}]
  BY SettingFacts DEF TunnelInv, TypeOK, TypeControl, TypeCounts
<1> USE DEF request, client, server, passed, watch, site
<1>2. CASE Connect
  <2>1. /\ UNCHANGED <<cpc, deadline, wd, cliOpen>> /\ conn' = conn + 1 /\ pc = "retry"
        /\ pc' = "connected" /\ cpc = "none" /\ got' = 0
    BY <1>1, <1>2 DEF Connect
  <2>2. ~cliOpen => \E t \in 1 .. conn' : wd'[t] \in {"server", "fired"}
    BY <1>1, <2>1 DEF CloseInv
  <2>3. \A t \in 1 .. MaxConn :
          t > conn' \/ (t = conn' /\ pc' = "connected") => wd'[t] = "off"
    BY <1>1, <2>1 DEF CloseInv
  <2>4. ~deadline
    BY <1>1, <2>1 DEF CloseInv
  <2> QED BY <2>1, <2>2, <2>3, <2>4 DEF CloseInv
<1>3. CASE StartTunnel
  <2>1. /\ UNCHANGED <<conn, open, got, deadline, cliOpen>> /\ pc = "connected" /\ cpc = "none"
        /\ pc' = "s2c" /\ cpc' = "start" /\ conn > 0
        /\ wd' = IF cfg.watchdog THEN [wd EXCEPT ![conn] = "on"] ELSE wd
    BY <1>1, <1>3 DEF StartTunnel, TryInv
  <2>2. wd[conn] = "off" /\ conn \in 1 .. MaxConn
    BY <1>1, <2>1 DEF CloseInv
  <2>3. \A t \in 1 .. MaxConn : t # conn => wd'[t] = wd[t]
    BY <1>1, <2>1
  <2>4. ~cliOpen => \E t \in 1 .. conn' : wd'[t] \in {"server", "fired"}
    <3>1. SUFFICES ASSUME ~cliOpen PROVE \E t \in 1 .. conn' : wd'[t] \in {"server", "fired"}
      OBVIOUS
    <3>2. PICK t \in 1 .. conn : wd[t] \in {"server", "fired"}
      BY <1>1, <2>1, <3>1 DEF CloseInv
    <3> QED BY <1>1, <2>1, <2>2, <2>3, <3>2
  <2>5. \A t \in 1 .. MaxConn : t > conn => wd'[t] = "off"
    BY <1>1, <2>3 DEF CloseInv
  <2>6. ~deadline
    BY <1>1, <2>1 DEF CloseInv
  <2> QED BY <2>1, <2>4, <2>5, <2>6 DEF CloseInv
<1>4. ASSUME stop, conn' = conn
      PROVE  /\ \A t \in 1 .. MaxConn : wd[t] = "off" => wd'[t] = "off"
             /\ \A t \in 1 .. MaxConn : wd[t] \in {"server", "fired"} => wd'[t] = wd[t]
  BY <1>1, <1>4 DEF stop
<1>5. CASE WaitRetry
  <2>1. /\ UNCHANGED <<conn, open, got, deadline>> /\ ShouldRetry /\ pc = "waitRetry"
        /\ cpc = "done" /\ cpc' = "none" /\ stop
    BY <1>5 DEF WaitRetry
  <2>2. pc' = "end" \/ (pc' = "retry" /\ cliOpen' = cliOpen)
    BY <2>1, RetryDecision
  <2>3. ~deadline /\ conn \notin open
    BY <1>1, <2>1 DEF CloseInv
  <2>4. \A t \in 1 .. MaxConn : t > conn => wd'[t] = "off"
    BY <1>1, <1>4, <2>1 DEF CloseInv
  <2>5. pc' = "retry" /\ ~cliOpen' => \E t \in 1 .. conn' : wd'[t] \in {"server", "fired"}
    BY <1>1, <1>4, <2>1, <2>2 DEF CloseInv
  <2> QED BY <2>1, <2>2, <2>3, <2>4, <2>5 DEF CloseInv
<1>6. CASE WaitEnd
  <2>1. /\ UNCHANGED <<conn, open, got, deadline>> /\ pc' = "end"
        /\ cpc = "done" /\ cpc' = "none" /\ stop
    BY <1>6 DEF WaitEnd, End
  <2>2. ~deadline /\ conn \notin open
    BY <1>1, <2>1 DEF CloseInv
  <2>3. \A t \in 1 .. MaxConn : t > conn => wd'[t] = "off"
    BY <1>1, <1>4, <2>1 DEF CloseInv
  <2> QED BY <2>1, <2>2, <2>3 DEF CloseInv
<1>7. CASE StartFails
  <2>1. /\ UNCHANGED <<conn, open, got, deadline, wd, cpc>> /\ ShouldRetry /\ pc = "connected"
        /\ got = 0 /\ cpc = "none"
    BY <1>1, <1>7 DEF StartFails, TryInv
  <2>2. pc' = "end" \/ (pc' = "retry" /\ cliOpen' = cliOpen)
    BY <2>1, RetryDecision
  <2>3. ~deadline
    BY <1>1, <2>1 DEF CloseInv
  <2> QED BY <1>1, <2>1, <2>2, <2>3, CloseQuiet
<1>8. CASE ConnectFails \/ StartGivesUp
  <2>1. /\ UNCHANGED <<conn, open, got, deadline, wd, cpc>> /\ pc' = "end" /\ cpc = "none"
        /\ pc = "retry" \/ (pc = "connected" /\ got = 0)
    BY <1>1, <1>8 DEF ConnectFails, StartGivesUp, End, TryInv
  <2>2. ~deadline
    BY <1>1, <2>1 DEF CloseInv
  <2> QED BY <1>1, <2>1, <2>2, CloseQuiet
<1>9. CASE ReadServer \/ WriteClient \/ SetServerState \/ ReadBlocked \/ ReadEnds
  <2>1. /\ UNCHANGED <<conn, deadline, wd, cpc>> /\ open' \subseteq open
        /\ pc \notin {"retry", "end", "wait"} /\ pc' \notin {"retry", "end", "connected"}
        /\ pc' = "wait" \/ cliOpen' = cliOpen
    BY <1>9 DEF ReadServer, WriteClient, SetServerState, ReadBlocked, ReadEnds, CloseBoth
  <2>2. deadline => cpc \in {"loop", "read", "ssl", "write", "closing"}
    BY <1>1 DEF CloseInv
  <2> QED BY <1>1, <2>1, <2>2, CloseQuiet
<1>10. CASE ClientToServer
  <2>1. /\ UNCHANGED <<conn, wd, pc, cliOpen, got>> /\ open' \subseteq open
        /\ cpc # "none"
    BY <1>10 DEF ClientToServer, ResendRaw, SendBuffered, LoopTop, ReadClient, ReadClientEnds,
                 CheckSSL, ReadClientTimeout, WriteServer, CloseServer
  <2>2. CASE ResendRaw \/ SendBuffered
    <3>1. deadline' = deadline /\ cpc \in {"start", "buffered"} /\ cpc' # "done"
      BY <2>2 DEF ResendRaw, SendBuffered
    <3>2. ~deadline
      BY <1>1, <3>1 DEF CloseInv
    <3>3. pc \notin {"retry", "end", "connected"}
      BY <1>1, <2>1
    <3> QED BY <1>1, <2>1, <3>1, <3>2, <3>3, CloseQuiet
  <2>3. CASE CloseServer
    <3>1. ~deadline' /\ conn \notin open'
      BY <2>3 DEF CloseServer
    <3>2. pc \notin {"retry", "end", "connected"}
      BY <1>1, <2>1
    <3> QED BY <1>1, <2>1, <3>1, <3>2, CloseQuiet
  <2>4. CASE LoopTop \/ ReadClient \/ ReadClientEnds \/ CheckSSL \/ ReadClientTimeout \/ WriteServer
    <3>1. cpc' \in {"loop", "read", "ssl", "write", "closing"}
      BY <2>4 DEF LoopTop, ReadClient, ReadClientEnds, CheckSSL, ReadClientTimeout, WriteServer
    <3>2. pc \notin {"retry", "end", "connected"}
      BY <1>1, <2>1
    <3> QED BY <1>1, <2>1, <3>1, <3>2, CloseQuiet
  <2> QED BY <1>10, <2>2, <2>3, <2>4 DEF ClientToServer
<1>11. ASSUME NEW t \in 1 .. MaxConn, WatchdogDecide(t) \/ WatchdogClose(t) PROVE CloseInv'
  <2>1. /\ UNCHANGED <<conn, pc, cpc, got, deadline>> /\ open' \subseteq open
        /\ wd[t] # "off" /\ \A u \in 1 .. MaxConn : u # t => wd'[u] = wd[u]
        /\ cliOpen' = cliOpen \/ wd'[t] = "server"
        /\ wd[t] \in {"server", "fired"} => wd'[t] \in {"server", "fired"}
    BY <1>1, <1>11 DEF WatchdogDecide, WatchdogClose
  <2>2. t \in 1 .. conn /\ ~(t = conn /\ pc = "connected")
    BY <1>1, <2>1 DEF CloseInv
  <2>3. \A u \in 1 .. MaxConn :
          u > conn' \/ (u = conn' /\ pc' = "connected") => wd'[u] = "off"
    BY <1>1, <2>1, <2>2 DEF CloseInv
  <2>4. ~cliOpen' => \/ pc' \in {"wait", "end"}
                     \/ \E u \in 1 .. conn' : wd'[u] \in {"server", "fired"}
    BY <1>1, <2>1, <2>2 DEF CloseInv
  <2> QED BY <1>1, <2>1, <2>3, <2>4 DEF CloseInv
<1>12. CASE Environment \/ UNCHANGED vars
  <2>1. UNCHANGED <<conn, wd, pc, cpc, got, open, deadline, cliOpen>>
    BY <1>12 DEF Environment, ClientSend, ClientClose, ServerEnd, TimePasses, BlockExpires, vars
  <2> QED BY <1>1, <2>1 DEF CloseInv
<1> QED
  BY <1>2, <1>3, <1>5, <1>6, <1>7, <1>8, <1>9, <1>10, <1>11, <1>12
  DEF Next, Main, Watchdog, Ended

-----------------------------------------------------------------------------
(* The theorems                                                            *)

\* The invariant survives every step.
LEMMA TunnelStep == TunnelInv /\ [Next]_vars => TunnelInv'
BY ControlStep, FlagsStep, CountsStep, UnitsStep, TryStep, BufferStep, DeliveredStep, HeardStep,
   CloseStep DEF TunnelInv, TypeOK

\* The invariant holds of every reachable state.
THEOREM TunnelInvHolds == Spec => []TunnelInv
<1> QED BY TunnelInit, TunnelStep, PTL DEF Spec

\* TunnelClosed for any setting: when copyClient2Server is done the server
\* connection is closed, whichever of the goroutines and watchdogs came first.
THEOREM TunnelCloses == Spec => []TunnelClosed
<1>1. TunnelInv => TunnelClosed
  BY DEF TunnelInv, CloseInv, TunnelClosed
<1> QED BY <1>1, TunnelInvHolds, PTL

\* InOrder for any number of units, any buffer and any number of retries: the
\* server has a prefix of what the client sent, and nothing that was read is
\* lost.
THEOREM DeliversInOrder == Spec => []InOrder
<1>1. ASSUME TunnelInv, cpc # "none", ~Resends
      PROVE  /\ delivered = [i \in 1 .. Len(delivered) |-> i]
             /\ cpc \in {"loop", "read"} => Len(delivered) = pos
  <2>1. PICK n \in Nat : delivered = FirstUnits(n)
    BY <1>1 DEF TunnelInv, DeliveredInv
  <2>2. Len(delivered) = n
    BY <2>1, FirstUnitsFacts
  <2>3. cpc \in {"loop", "read"} => delivered = FirstUnits(pos)
    BY <1>1 DEF TunnelInv, DeliveredInv, Handed
  <2>4. pos \in Nat
    BY <1>1, SettingFacts DEF TunnelInv, TypeOK, TypeControl, TypeCounts
  <2>5. cpc \in {"loop", "read"} => Len(delivered) = pos
    BY <2>3, <2>4, FirstUnitsFacts
  <2> QED BY <2>1, <2>2, <2>5 DEF FirstUnits
<1>2. TunnelInv => InOrder
  BY <1>1 DEF InOrder
<1> QED BY <1>2, TunnelInvHolds, PTL

\* RetryReady for any setting: a retry finds no deadline, an open client unless
\* a watchdog closed it, and a buffer with all that was read; shouldRetry never
\* panics.
THEOREM RetryIsReady == Spec => []RetryReady
<1>1. ASSUME TunnelInv PROVE RetryReady
  <2>1. pc # "panic"
    BY <1>1 DEF TunnelInv, TryInv
  <2>2. ASSUME pc = "retry", tryCnt > 0
        PROVE  /\ ~deadline
               /\ cliOpen \/ \E t \in 1 .. conn : wd[t] \in {"server", "fired"}
               /\ raw # NoRaw /\ 1 .. pos \subseteq Range(raw)
               /\ cfg.early = 0 => Len(raw) = pos
    <3>1. cpc = "none" /\ cfg.front \in {"http", "socks"} /\ pos \in Nat /\ Handed = pos
      BY <1>1, <2>2, SettingFacts DEF TunnelInv, TypeOK, TypeControl, TypeCounts, Handed
    <3>2. cfg.front = "http"
      BY <1>1, <2>2, <3>1 DEF TunnelInv, TryInv
    <3>3. ~deadline /\ (cliOpen \/ \E t \in 1 .. conn : wd[t] \in {"server", "fired"})
      BY <1>1, <2>2, <3>1 DEF TunnelInv, CloseInv
    <3>4. raw # NoRaw /\ 1 .. pos \subseteq Range(raw)
          /\ (cfg.early = 0 => raw = FirstUnits(pos))
      BY <1>1, <2>2, <3>1, <3>2 DEF TunnelInv, BufferInv
    <3>5. cfg.early = 0 => Len(raw) = pos
      BY <3>1, <3>4, FirstUnitsFacts
    <3> QED BY <3>3, <3>4, <3>5
  <2> QED BY <2>1, <2>2 DEF RetryReady
<1> QED BY <1>1, TunnelInvHolds, PTL

\* HearsOneServer for any setting: the client never hears two servers, and is
\* told at most once that the tunnel is there.
THEOREM ClientHearsOne == Spec => []HearsOneServer
<1>1. ASSUME TunnelInv PROVE HearsOneServer
  <2>1. heard = {} \/ heard = {conn}
    BY <1>1 DEF TunnelInv, HeardInv
  <2>2. Cardinality(heard) <= 1
    BY <2>1, FS_EmptySet, FS_Singleton
  <2>3. cfg.parent # "http" /\ ~CountRestarted => told <= 1
    <3>1. told \in Nat
      BY <1>1 DEF TunnelInv, TypeOK, TypeCounts
    <3> QED BY <1>1, <3>1 DEF TunnelInv, HeardInv
  <2> QED BY <2>2, <2>3 DEF HearsOneServer
<1> QED BY <1>1, TunnelInvHolds, PTL
=============================================================================
