--------------------------- MODULE ConnPoolProofs ---------------------------
(***************************************************************************)
(* Proofs about the connection pool, for any sets of hosts, connections,   *)
(* channels, clients and accept loops and any capacities.                  *)
(***************************************************************************)
EXTENDS ConnPoolRefines, TLAPS

-----------------------------------------------------------------------------
(* Type correctness *)

HoldingPC == {"using", "create", "start", "send"}

\* Who holds a connection.
HandOK ==
    /\ \A c \in Clients : (hand[c] # NoConn) <=> (pc[c] \in HoldingPC)
    /\ \A ch \in Chans : (hand[ch] # NoConn) <=> (pc[ch] = "putback")

\* The channel of a client, the kind of connection that goes with it and the
\* host it was made for.
ChanOK ==
    /\ \A c \in Clients :
         /\ pc[c] \in {"getSite", "start"} => chan[c] \in SiteChans
         /\ pc[c] = "getMux" => chan[c] = MuxChan
         /\ pc[c] = "create" => ~IsMux(hand[c])
         /\ pc[c] \in {"start", "send"} /\ IsMux(hand[c]) => chan[c] = MuxChan
         /\ pc[c] \in {"start", "send"} /\ ~IsMux(hand[c]) =>
              chan[c] \in SiteChans /\ chanHost[chan[c]] = HostPort[hand[c]]
    /\ \A h \in Hosts : idleConn[h] # NoChan => chanHost[idleConn[h]] = h

\* The scans in progress.
ScanOK ==
    /\ \A k \in Closers :
         /\ pc[k] = "scan" => chan[k] \in Chans
         /\ pc[k] = "remove" => chan[k] \in SiteChans
    /\ pc[MuxChan] # "remove"
    /\ \A p \in Scanners : pc[p] \in {"scan", "putback"} => left[p] >= 1

\* A channel whose cleanup is about to start has none yet, and one client starts it.
StartOK ==
    \A c \in Clients : pc[c] = "start" =>
        /\ pc[chan[c]] = "off"
        /\ \A x \in Clients : x # c /\ pc[x] = "start" => chan[x] # chan[c]

\* A channel that is being cleaned up, or that CloseAll knows, has a host.
HostOK ==
    /\ \A ch \in SiteChans : pc[ch] # "off" => chanHost[ch] \in Hosts
    /\ \A k \in Closers : \A ch \in SiteChans :
         ch \in todo[k] \/ ch = chan[k] => chanHost[ch] \in Hosts

TypeInv == TypeOK /\ HandOK /\ ChanOK /\ ScanOK /\ HostOK /\ StartOK

\* What a receive and a send do to the contents of a channel.
LEMMA QueueRecv ==
    ASSUME NEW S, NEW q \in Seq(S), q # <<>>
    PROVE  /\ Head(q) \in S /\ Head(q) = q[1]
           /\ Tail(q) \in Seq(S)
           /\ Len(q) \in Nat \ {0}
           /\ Len(Tail(q)) = Len(q) - 1
           /\ \A i \in 1 .. Len(Tail(q)) : Tail(q)[i] = q[i + 1]
  OBVIOUS

\* What a send does to the contents of a channel.
LEMMA QueueSend ==
    ASSUME NEW S, NEW q \in Seq(S), NEW sv \in S
    PROVE  /\ Append(q, sv) \in Seq(S)
           /\ Len(q) \in Nat
           /\ Len(Append(q, sv)) = Len(q) + 1
           /\ \A i \in 1 .. Len(q) : Append(q, sv)[i] = q[i]
           /\ Append(q, sv)[Len(q) + 1] = sv
  OBVIOUS

\* Init establishes TypeInv.
LEMMA TypeInit == Init => TypeInv
  BY ConstAssumption, SMTT(60) DEF Init, TypeInv, TypeOK, HandOK, ChanOK, ScanOK, HostOK, StartOK,
     HoldingPC, Chans, Procs, ClientPC, CloserPC, CleanerPC, Scanners, ScanChan, IsMux

\* Goroutine p goes from one of the places `from' to one of the places `to', and
\* no other goroutine moves.
Moves(p, from, to) ==
    /\ pc' \in [Procs -> ClientPC \cup CloserPC \cup CleanerPC]
    /\ \A q \in Procs : q # p => pc'[q] = pc[q]
    /\ pc[p] \in from
    /\ pc'[p] \in to

\* A function is updated at one point.
SetsAt(f, g, p) == \A q \in DOMAIN f : q # p => g[q] = f[q]

\* Clients, closers and cleanup goroutines are different processes.
LEMMA ProcKinds ==
    /\ \A c \in Clients : c \in Procs /\ c \notin Chans /\ c \notin Closers
    /\ \A k \in Closers : k \in Procs /\ k \notin Chans /\ k \notin Clients
    /\ \A ch \in Chans : ch \in Procs /\ ch \notin Closers /\ ch \notin Clients
    /\ \A p \in Scanners : p \in Procs
    /\ Scanners \cup Clients = Procs
    /\ SiteChans \subseteq Chans /\ MuxChan \in Chans /\ MuxChan \notin SiteChans
    /\ \A ch \in Chans : ch # MuxChan => ch \in SiteChans
  BY ConstAssumption DEF Procs, Scanners, Chans

\* A step after which nobody is newly about to start a cleanup, and that starts
\* none, keeps StartOK.
LEMMA StartKept ==
    ASSUME TypeInv,
           \A x \in Clients : pc'[x] = "start" => pc[x] = "start" /\ chan'[x] = chan[x],
           \A ch \in SiteChans : pc[ch] = "off" => pc'[ch] = "off"
    PROVE  StartOK'
<1> SUFFICES ASSUME NEW c \in Clients, pc'[c] = "start"
             PROVE  /\ pc'[chan'[c]] = "off"
                    /\ \A x \in Clients : x # c /\ pc'[x] = "start" => chan'[x] # chan'[c]
  BY DEF StartOK
<1>1. pc[c] = "start" /\ chan'[c] = chan[c] /\ chan[c] \in SiteChans BY DEF TypeInv, ChanOK
<1>2. pc[chan[c]] = "off" BY <1>1 DEF TypeInv, StartOK
<1>3. ASSUME NEW x \in Clients, x # c, pc'[x] = "start" PROVE chan'[x] # chan'[c]
  BY <1>1, <1>3 DEF TypeInv, StartOK
<1> QED BY <1>1, <1>2, <1>3

\* A step of client c that leaves the map alone keeps ChanOK if c itself has the
\* channel that its place asks for.
LEMMA ChanKept ==
    ASSUME TypeInv, NEW c \in Clients,
           UNCHANGED <<idleConn, chanHost>>,
           \A x \in Clients : x # c => pc'[x] = pc[x] /\ chan'[x] = chan[x] /\ hand'[x] = hand[x],
           pc'[c] \in {"getSite", "start"} => chan'[c] \in SiteChans,
           pc'[c] = "getMux" => chan'[c] = MuxChan,
           pc'[c] = "create" => ~IsMux(hand'[c]),
           pc'[c] \in {"start", "send"} /\ IsMux(hand'[c]) => chan'[c] = MuxChan,
           pc'[c] \in {"start", "send"} /\ ~IsMux(hand'[c]) =>
               chan'[c] \in SiteChans /\ chanHost[chan'[c]] = HostPort[hand'[c]]
    PROVE  ChanOK'
<1>1. ASSUME NEW x \in Clients
      PROVE  /\ pc'[x] \in {"getSite", "start"} => chan'[x] \in SiteChans
             /\ pc'[x] = "getMux" => chan'[x] = MuxChan
             /\ pc'[x] = "create" => ~IsMux(hand'[x])
             /\ pc'[x] \in {"start", "send"} /\ IsMux(hand'[x]) => chan'[x] = MuxChan
             /\ pc'[x] \in {"start", "send"} /\ ~IsMux(hand'[x]) =>
                  chan'[x] \in SiteChans /\ chanHost'[chan'[x]] = HostPort[hand'[x]]
  <2>1. CASE x = c BY <2>1
  <2>2. CASE x # c BY <2>2 DEF TypeInv, ChanOK
  <2> QED BY <2>1, <2>2
<1>2. \A h \in Hosts : idleConn'[h] # NoChan => chanHost'[idleConn'[h]] = h
  BY DEF TypeInv, ChanOK
<1> QED BY <1>1, <1>2 DEF ChanOK, IsMux

\* Every step keeps TypeInv: one lemma per action.
LEMMA TypeGetLookup ==
    ASSUME TypeInv, NEW c \in Clients, NEW h \in Hosts, NEW d \in BOOLEAN, GetLookup(c, h, d)
    PROVE  TypeInv'
<1>0. c \in Procs /\ c \notin Chans /\ c \notin Closers BY ProcKinds
<1>1. AfterSite(d) \in {"dial", "getMux"} BY DEF AfterSite
<1>2. UNCHANGED <<idleConn, chanHost, queue, open, fresh, hand, left, todo>>
  BY DEF GetLookup, poolVars, connVars, scanVars
<1>3. Moves(c, {"idle"}, {"getSite", "dial", "getMux"})
  <2>1. pc[c] = "idle" /\ \E l \in {"getSite", "dial", "getMux"} : pc' = [pc EXCEPT ![c] = l]
    BY <1>1 DEF GetLookup
  <2> QED BY <1>0, <2>1 DEF Moves, TypeInv, TypeOK, ClientPC
<1>4. /\ chan' \in [Clients \cup Closers -> Chans \cup {NoChan}]
      /\ \A p \in Clients \cup Closers : p # c => chan'[p] = chan[p]
      /\ pc'[c] = "getSite" => chan'[c] \in SiteChans
      /\ pc'[c] = "getMux" => chan'[c] = MuxChan
  BY <1>0, <1>1 DEF GetLookup, Chans, TypeInv, TypeOK
<1>5. want' \in [Clients -> Hosts \cup {NoHost}] /\ asDirect' \subseteq Clients BY DEF GetLookup, TypeInv, TypeOK
<1>11. TypeOK' BY <1>0, <1>1, <1>2, <1>3, <1>4, <1>5 DEF TypeInv, TypeOK, Moves, ClientPC, Procs
<1>12. HandOK' BY ProcKinds, <1>0, <1>1, <1>2, <1>3, <1>4, <1>5 DEF TypeInv, TypeOK, HandOK, HoldingPC, Moves
<1>13. ChanOK' BY ProcKinds, <1>0, <1>1, <1>2, <1>3, <1>4, <1>5 DEF TypeInv, TypeOK, ChanOK, Moves, IsMux
<1>14. ScanOK' BY ProcKinds, <1>0, <1>1, <1>2, <1>3, <1>4, <1>5 DEF TypeInv, TypeOK, ScanOK, Scanners, Moves
<1>15. HostOK' BY ProcKinds, <1>0, <1>1, <1>2, <1>3, <1>4, <1>5 DEF TypeInv, TypeOK, HostOK, Moves
<1>16. /\ \A x \in Clients : pc'[x] = "start" => pc[x] = "start" /\ chan'[x] = chan[x]
       /\ \A ch \in SiteChans : pc[ch] = "off" => pc'[ch] = "off"
  BY ProcKinds, <1>0, <1>1, <1>2, <1>3, <1>4, <1>5 DEF TypeInv, TypeOK, Moves
<1>17. StartOK' BY <1>16, StartKept
<1> QED BY <1>11, <1>12, <1>13, <1>14, <1>15, <1>17 DEF TypeInv

\* getConnFromChan's receive keeps TypeInv.
LEMMA TypeGetRecv ==
    ASSUME TypeInv, NEW c \in Clients, GetRecv(c)
    PROVE  TypeInv'
<1>0. c \in Procs /\ c \notin Chans /\ c \notin Closers BY ProcKinds
<1>1. chan[c] \in Chans /\ queue[chan[c]] \in Seq(Conns) /\ queue[chan[c]] # <<>>
  BY ProcKinds DEF GetRecv, TypeInv, TypeOK, ChanOK
<1>2. UNCHANGED <<idleConn, chanHost, want, asDirect, left, todo>> BY DEF GetRecv, reqVars, scanVars
<1>3. queue' \in [Chans -> Seq(Conns)] BY <1>1, QueueRecv DEF GetRecv, Recv, TypeInv, TypeOK
<1>4. open' \subseteq Conns /\ fresh' \subseteq Conns BY DEF GetRecv, Close, TypeInv, TypeOK, connVars
<1>5. Head(queue[chan[c]]) \in Conns /\ Head(queue[chan[c]]) # NoConn BY <1>1, QueueRecv, ConstAssumption
<1>6. \/ UNCHANGED <<pc, chan, hand>>
      \/ /\ pc' = [pc EXCEPT ![c] = "using"]
         /\ chan' = [chan EXCEPT ![c] = NoChan]
         /\ hand' = [hand EXCEPT ![c] = Head(queue[chan[c]])]
  BY DEF GetRecv
<1>7. pc[c] \in {"getSite", "getMux"} BY DEF GetRecv
<1>8. \/ UNCHANGED <<pc, chan, hand>>
      \/ /\ Moves(c, {"getSite", "getMux"}, {"using"})
         /\ chan' \in [Clients \cup Closers -> Chans \cup {NoChan}]
         /\ \A p \in Clients \cup Closers : p # c => chan'[p] = chan[p]
         /\ hand' \in [Clients \cup Chans -> Conns \cup {NoConn}]
         /\ \A p \in Clients \cup Chans : p # c => hand'[p] = hand[p]
         /\ hand'[c] # NoConn
  <2>1. CASE UNCHANGED <<pc, chan, hand>> BY <2>1
  <2>2. CASE /\ pc' = [pc EXCEPT ![c] = "using"]
             /\ chan' = [chan EXCEPT ![c] = NoChan]
             /\ hand' = [hand EXCEPT ![c] = Head(queue[chan[c]])]
    <3>1. Moves(c, {"getSite", "getMux"}, {"using"})
      BY <1>0, <1>7, <2>2 DEF Moves, TypeInv, TypeOK, ClientPC
    <3>2. chan' \in [Clients \cup Closers -> Chans \cup {NoChan}] /\ \A p \in Clients \cup Closers : p # c => chan'[p] = chan[p]
      BY <2>2 DEF TypeInv, TypeOK
    <3>3. hand' \in [Clients \cup Chans -> Conns \cup {NoConn}] /\ (\A p \in Clients \cup Chans : p # c => hand'[p] = hand[p]) /\ hand'[c] # NoConn
      BY <1>5, <2>2 DEF TypeInv, TypeOK
    <3> QED BY <3>1, <3>2, <3>3
  <2> QED BY <1>6, <2>1, <2>2
<1>11. TypeOK' BY <1>0, <1>1, <1>2, <1>3, <1>4, <1>5, <1>6, <1>7, <1>8 DEF TypeInv, TypeOK, Moves, ClientPC, Procs
<1>12. HandOK'
  <2>1. CASE UNCHANGED <<pc, chan, hand>> BY <2>1 DEF TypeInv, HandOK
  <2>2. CASE ~UNCHANGED <<pc, chan, hand>>
    <3>1. /\ pc[c] \in {"getSite", "getMux"} /\ pc'[c] = "using" /\ hand'[c] # NoConn
          /\ \A p \in Procs : p # c => pc'[p] = pc[p]
          /\ \A p \in Clients \cup Chans : p # c => hand'[p] = hand[p]
      BY <1>8, <2>2 DEF Moves
    <3> QED BY <1>0, <3>1, ProcKinds DEF TypeInv, TypeOK, HandOK, HoldingPC
  <2> QED BY <2>1, <2>2
<1>13. ChanOK' BY ProcKinds, <1>0, <1>1, <1>2, <1>3, <1>4, <1>5, <1>6, <1>7, <1>8 DEF TypeInv, TypeOK, ChanOK, Moves, IsMux
<1>14. ScanOK' BY ProcKinds, <1>0, <1>1, <1>2, <1>3, <1>4, <1>5, <1>6, <1>7, <1>8 DEF TypeInv, TypeOK, ScanOK, Scanners, Moves
<1>15. HostOK' BY ProcKinds, <1>0, <1>1, <1>2, <1>3, <1>4, <1>5, <1>6, <1>7, <1>8 DEF TypeInv, TypeOK, HostOK, Moves
<1>16. /\ \A x \in Clients : pc'[x] = "start" => pc[x] = "start" /\ chan'[x] = chan[x]
       /\ \A ch \in SiteChans : pc[ch] = "off" => pc'[ch] = "off"
  BY ProcKinds, <1>0, <1>1, <1>2, <1>3, <1>4, <1>5, <1>6, <1>7, <1>8 DEF TypeInv, TypeOK, Moves
<1>17. StartOK' BY <1>16, StartKept
<1> QED BY <1>11, <1>12, <1>13, <1>14, <1>15, <1>17 DEF TypeInv

\* getConnFromChan's default branch keeps TypeInv.
LEMMA TypeGetEmpty ==
    ASSUME TypeInv, NEW c \in Clients, GetEmpty(c)
    PROVE  TypeInv'
<1>0. c \in Procs /\ c \notin Chans /\ c \notin Closers BY ProcKinds
<1>1. \A d \in BOOLEAN : AfterSite(d) \in {"dial", "getMux"} BY DEF AfterSite
<1>2. UNCHANGED <<idleConn, chanHost, queue, open, fresh, hand, want, asDirect, left, todo>>
  BY DEF GetEmpty, poolVars, connVars, reqVars, scanVars
<1>3. Moves(c, {"getSite", "getMux"}, {"dial", "getMux"})
  BY <1>0 DEF GetEmpty, AfterSite, Moves, TypeInv, TypeOK, ClientPC
<1>4. /\ chan' \in [Clients \cup Closers -> Chans \cup {NoChan}]
      /\ \A p \in Clients \cup Closers : p # c => chan'[p] = chan[p]
      /\ pc'[c] = "getMux" => chan'[c] = MuxChan
  BY <1>0, <1>1 DEF GetEmpty, Chans, TypeInv, TypeOK
<1>11. TypeOK' BY <1>0, <1>1, <1>2, <1>3, <1>4 DEF TypeInv, TypeOK, Moves, ClientPC, Procs
<1>12. HandOK' BY ProcKinds, <1>0, <1>1, <1>2, <1>3, <1>4 DEF TypeInv, TypeOK, HandOK, HoldingPC, Moves
<1>13. ChanOK'
  <2>1. /\ \A x \in Clients : x # c => pc'[x] = pc[x] /\ chan'[x] = chan[x] /\ hand'[x] = hand[x]
        /\ pc'[c] \in {"dial", "getMux"}
    BY ProcKinds, <1>2, <1>3, <1>4 DEF Moves
  <2> QED BY <1>2, <1>4, <2>1, ChanKept
<1>14. ScanOK' BY ProcKinds, <1>0, <1>1, <1>2, <1>3, <1>4 DEF TypeInv, TypeOK, ScanOK, Scanners, Moves
<1>15. HostOK' BY ProcKinds, <1>0, <1>1, <1>2, <1>3, <1>4 DEF TypeInv, TypeOK, HostOK, Moves
<1>16. /\ \A x \in Clients : pc'[x] = "start" => pc[x] = "start" /\ chan'[x] = chan[x]
       /\ \A ch \in SiteChans : pc[ch] = "off" => pc'[ch] = "off"
  BY ProcKinds, <1>0, <1>1, <1>2, <1>3, <1>4 DEF TypeInv, TypeOK, Moves
<1>17. StartOK' BY <1>16, StartKept
<1> QED BY <1>11, <1>12, <1>13, <1>14, <1>15, <1>17 DEF TypeInv

\* A new connection keeps TypeInv.
LEMMA TypeDial ==
    ASSUME TypeInv, NEW c \in Clients, NEW sv \in Conns, Dial(c, sv)
    PROVE  TypeInv'
<1>0. c \in Procs /\ c \notin Chans /\ c \notin Closers BY ProcKinds
<1>1. UNCHANGED <<idleConn, chanHost, queue, fresh, chan, want, asDirect, left, todo>>
  BY DEF Dial, poolVars, reqVars, scanVars
<1>2. Moves(c, {"dial"}, {"using"}) BY <1>0 DEF Dial, Moves, TypeInv, TypeOK, ClientPC
<1>3. hand' = [hand EXCEPT ![c] = sv] /\ open' = open \cup {sv} /\ sv # NoConn BY ConstAssumption DEF Dial
<1>11. TypeOK' BY <1>0, <1>1, <1>2, <1>3 DEF TypeInv, TypeOK, Moves, ClientPC, Procs
<1>12. HandOK' BY ProcKinds, <1>0, <1>1, <1>2, <1>3 DEF TypeInv, TypeOK, HandOK, HoldingPC, Moves
<1>13. ChanOK' BY ProcKinds, <1>0, <1>1, <1>2, <1>3 DEF TypeInv, TypeOK, ChanOK, Moves, IsMux
<1>14. ScanOK' BY ProcKinds, <1>0, <1>1, <1>2, <1>3 DEF TypeInv, TypeOK, ScanOK, Scanners, Moves
<1>15. HostOK' BY ProcKinds, <1>0, <1>1, <1>2, <1>3 DEF TypeInv, TypeOK, HostOK, Moves
<1>16. /\ \A x \in Clients : pc'[x] = "start" => pc[x] = "start" /\ chan'[x] = chan[x]
       /\ \A ch \in SiteChans : pc[ch] = "off" => pc'[ch] = "off"
  BY ProcKinds, <1>0, <1>1, <1>2, <1>3 DEF TypeInv, TypeOK, Moves
<1>17. StartOK' BY <1>16, StartKept
<1> QED BY <1>11, <1>12, <1>13, <1>14, <1>15, <1>17 DEF TypeInv

\* A failed dial keeps TypeInv.
LEMMA TypeDialFails ==
    ASSUME TypeInv, NEW c \in Clients, DialFails(c)
    PROVE  TypeInv'
<1>0. c \in Procs /\ c \notin Chans /\ c \notin Closers BY ProcKinds
<1>1. UNCHANGED <<idleConn, chanHost, queue, open, fresh, chan, hand, left, todo>>
  BY DEF DialFails, poolVars, connVars, scanVars
<1>2. Moves(c, {"dial"}, {"idle"}) BY <1>0 DEF DialFails, Moves, TypeInv, TypeOK, ClientPC
<1>3. want' \in [Clients -> Hosts \cup {NoHost}] /\ asDirect' \subseteq Clients
  BY DEF DialFails, RequestOver, TypeInv, TypeOK
<1>11. TypeOK' BY <1>0, <1>1, <1>2, <1>3 DEF TypeInv, TypeOK, Moves, ClientPC, Procs
<1>12. HandOK' BY ProcKinds, <1>0, <1>1, <1>2, <1>3 DEF TypeInv, TypeOK, HandOK, HoldingPC, Moves
<1>13. ChanOK' BY ProcKinds, <1>0, <1>1, <1>2, <1>3 DEF TypeInv, TypeOK, ChanOK, Moves, IsMux
<1>14. ScanOK' BY ProcKinds, <1>0, <1>1, <1>2, <1>3 DEF TypeInv, TypeOK, ScanOK, Scanners, Moves
<1>15. HostOK' BY ProcKinds, <1>0, <1>1, <1>2, <1>3 DEF TypeInv, TypeOK, HostOK, Moves
<1>16. /\ \A x \in Clients : pc'[x] = "start" => pc[x] = "start" /\ chan'[x] = chan[x]
       /\ \A ch \in SiteChans : pc[ch] = "off" => pc'[ch] = "off"
  BY ProcKinds, <1>0, <1>1, <1>2, <1>3 DEF TypeInv, TypeOK, Moves
<1>17. StartOK' BY <1>16, StartKept
<1> QED BY <1>11, <1>12, <1>13, <1>14, <1>15, <1>17 DEF TypeInv

\* Closing the connection of a failed request keeps TypeInv.
LEMMA TypeDiscard ==
    ASSUME TypeInv, NEW c \in Clients, Discard(c)
    PROVE  TypeInv'
<1>0. c \in Procs /\ c \notin Chans /\ c \notin Closers BY ProcKinds
<1>1. UNCHANGED <<idleConn, chanHost, queue, chan, left, todo>> BY DEF Discard, poolVars, scanVars
<1>2. Moves(c, {"using"}, {"idle"}) BY <1>0 DEF Discard, Moves, TypeInv, TypeOK, ClientPC
<1>3. want' \in [Clients -> Hosts \cup {NoHost}] /\ asDirect' \subseteq Clients
  BY DEF Discard, RequestOver, TypeInv, TypeOK
<1>4. open' \subseteq Conns /\ fresh' \subseteq Conns BY DEF Discard, Close, TypeInv, TypeOK
<1>5. hand' = [hand EXCEPT ![c] = NoConn] BY DEF Discard
<1>11. TypeOK' BY <1>0, <1>1, <1>2, <1>3, <1>4, <1>5 DEF TypeInv, TypeOK, Moves, ClientPC, Procs
<1>12. HandOK' BY ProcKinds, <1>0, <1>1, <1>2, <1>3, <1>4, <1>5 DEF TypeInv, TypeOK, HandOK, HoldingPC, Moves
<1>13. ChanOK' BY ProcKinds, <1>0, <1>1, <1>2, <1>3, <1>4, <1>5 DEF TypeInv, TypeOK, ChanOK, Moves, IsMux
<1>14. ScanOK' BY ProcKinds, <1>0, <1>1, <1>2, <1>3, <1>4, <1>5 DEF TypeInv, TypeOK, ScanOK, Scanners, Moves
<1>15. HostOK' BY ProcKinds, <1>0, <1>1, <1>2, <1>3, <1>4, <1>5 DEF TypeInv, TypeOK, HostOK, Moves
<1>16. /\ \A x \in Clients : pc'[x] = "start" => pc[x] = "start" /\ chan'[x] = chan[x]
       /\ \A ch \in SiteChans : pc[ch] = "off" => pc'[ch] = "off"
  BY ProcKinds, <1>0, <1>1, <1>2, <1>3, <1>4, <1>5 DEF TypeInv, TypeOK, Moves
<1>17. StartOK' BY <1>16, StartKept
<1> QED BY <1>11, <1>12, <1>13, <1>14, <1>15, <1>17 DEF TypeInv

\* Put's look at the map keeps TypeInv.
LEMMA TypePutLookup ==
    ASSUME TypeInv, NEW c \in Clients, NEW keepAlive \in BOOLEAN, PutLookup(c, keepAlive)
    PROVE  TypeInv'
<1>0. c \in Procs /\ c \notin Chans /\ c \notin Closers BY ProcKinds
<1>1. UNCHANGED <<idleConn, chanHost, queue, open, hand, left, todo>> BY DEF PutLookup, poolVars, scanVars
<1>2. hand[c] \in Conns BY DEF PutLookup, TypeInv, TypeOK, HandOK, HoldingPC
<1>3. Moves(c, {"using"}, {"create", "send"}) BY <1>0 DEF PutLookup, Moves, TypeInv, TypeOK, ClientPC
<1>4. want' \in [Clients -> Hosts \cup {NoHost}] /\ asDirect' \subseteq Clients
  BY DEF PutLookup, RequestOver, TypeInv, TypeOK
<1>5. fresh' \subseteq Conns BY <1>2 DEF PutLookup, TypeInv, TypeOK
<1>6. /\ chan' \in [Clients \cup Closers -> Chans \cup {NoChan}]
      /\ \A p \in Clients \cup Closers : p # c => chan'[p] = chan[p]
      /\ pc'[c] = "create" => ~IsMux(hand[c])
      /\ pc'[c] = "send" /\ IsMux(hand[c]) => chan'[c] = MuxChan
      /\ pc'[c] = "send" /\ ~IsMux(hand[c]) => chan'[c] \in SiteChans /\ chanHost[chan'[c]] = HostPort[hand[c]]
  BY <1>2, ProcKinds, ConstAssumption DEF PutLookup, TypeInv, TypeOK, ChanOK
<1>11. TypeOK' BY <1>0, <1>1, <1>2, <1>3, <1>4, <1>5, <1>6 DEF TypeInv, TypeOK, Moves, ClientPC, Procs
<1>12. HandOK' BY ProcKinds, <1>0, <1>1, <1>2, <1>3, <1>4, <1>5, <1>6 DEF TypeInv, TypeOK, HandOK, HoldingPC, Moves
<1>13. ChanOK'
  <2>1. /\ \A x \in Clients : x # c => pc'[x] = pc[x] /\ chan'[x] = chan[x] /\ hand'[x] = hand[x]
        /\ pc'[c] \in {"create", "send"} /\ hand'[c] = hand[c]
    BY ProcKinds, <1>1, <1>3, <1>6 DEF Moves
  <2> QED BY <1>1, <1>6, <2>1, ChanKept
<1>14. ScanOK' BY ProcKinds, <1>0, <1>1, <1>2, <1>3, <1>4, <1>5, <1>6 DEF TypeInv, TypeOK, ScanOK, Scanners, Moves
<1>15. HostOK' BY ProcKinds, <1>0, <1>1, <1>2, <1>3, <1>4, <1>5, <1>6 DEF TypeInv, TypeOK, HostOK, Moves
<1>16. /\ \A x \in Clients : pc'[x] = "start" => pc[x] = "start" /\ chan'[x] = chan[x]
       /\ \A ch \in SiteChans : pc[ch] = "off" => pc'[ch] = "off"
  BY ProcKinds, <1>0, <1>1, <1>2, <1>3, <1>4, <1>5, <1>6 DEF TypeInv, TypeOK, Moves
<1>17. StartOK' BY <1>16, StartKept
<1> QED BY <1>11, <1>12, <1>13, <1>14, <1>15, <1>17 DEF TypeInv

\* Put's making of a channel keeps TypeInv: the new channel is in no other use.
LEMMA TypePutCreate ==
    ASSUME TypeInv, NEW c \in Clients, PutCreate(c)
    PROVE  TypeInv'
<1>0. c \in Procs /\ c \notin Chans /\ c \notin Closers BY ProcKinds
<1> DEFINE h == HostPort[hand[c]]
<1>1. hand[c] \in Conns /\ ~IsMux(hand[c]) /\ pc[c] = "create"
  BY DEF PutCreate, TypeInv, TypeOK, HandOK, ChanOK, HoldingPC
<1>2. UNCHANGED <<open, fresh, hand, want, asDirect, left, todo>>
  BY DEF PutCreate, connVars, reqVars, scanVars
<1>3. h \in Hosts BY <1>1, ConstAssumption
<1>4. CASE /\ idleConn[h] # NoChan
           /\ chan' = [chan EXCEPT ![c] = idleConn[h]]
           /\ pc' = [pc EXCEPT ![c] = "send"]
           /\ UNCHANGED poolVars
  <2>1. Moves(c, {"create"}, {"send"}) BY <1>0, <1>1, <1>4 DEF Moves, TypeInv, TypeOK, ClientPC
  <2>2. /\ UNCHANGED <<idleConn, chanHost, queue>>
        /\ chan' \in [Clients \cup Closers -> Chans \cup {NoChan}]
        /\ \A p \in Clients \cup Closers : p # c => chan'[p] = chan[p]
        /\ chan'[c] \in SiteChans /\ chanHost[chan'[c]] = h
    BY <1>3, <1>4 DEF TypeInv, TypeOK, ChanOK, poolVars, Chans
  <2> HIDE DEF h
  <2>3. TypeOK' BY <1>0, <1>2, <2>1, <2>2 DEF TypeInv, TypeOK, Moves, ClientPC, Procs
  <2>4. HandOK' BY <1>0, <1>2, <2>1, ProcKinds DEF TypeInv, TypeOK, HandOK, HoldingPC, Moves
  <2>5. ChanOK'
    <3>1. /\ \A x \in Clients : x # c => pc'[x] = pc[x] /\ chan'[x] = chan[x] /\ hand'[x] = hand[x]
          /\ pc'[c] = "send" /\ hand'[c] = hand[c]
      BY ProcKinds, <1>2, <2>1, <2>2 DEF Moves
    <3> QED BY <1>1, <2>2, <3>1, ChanKept DEF h
  <2>6. ScanOK' BY <1>0, <1>2, <2>1, <2>2, ProcKinds DEF TypeInv, TypeOK, ScanOK, Scanners, Moves
  <2>7. HostOK' BY <1>0, <1>2, <2>1, <2>2, ProcKinds DEF TypeInv, TypeOK, HostOK, Moves
  <2>8. StartOK'
    <3>1. /\ \A x \in Clients : pc'[x] = "start" => pc[x] = "start" /\ chan'[x] = chan[x]
          /\ \A ch \in SiteChans : pc[ch] = "off" => pc'[ch] = "off"
      BY <1>0, <2>1, <2>2, ProcKinds DEF TypeInv, TypeOK, Moves
    <3> QED BY <3>1, StartKept
  <2> QED BY <2>3, <2>4, <2>5, <2>6, <2>7, <2>8 DEF TypeInv
<1>5. CASE /\ idleConn[h] = NoChan
           /\ \E ch \in SiteChans :
               /\ Garbage(ch)
               /\ idleConn' = [idleConn EXCEPT ![h] = ch]
               /\ chanHost' = [chanHost EXCEPT ![ch] = h]
               /\ queue' = [queue EXCEPT ![ch] = <<>>]
               /\ chan' = [chan EXCEPT ![c] = ch]
           /\ pc' = [pc EXCEPT ![c] = "start"]
  <2>0. PICK ch \in SiteChans :
               /\ Garbage(ch)
               /\ idleConn' = [idleConn EXCEPT ![h] = ch]
               /\ chanHost' = [chanHost EXCEPT ![ch] = h]
               /\ queue' = [queue EXCEPT ![ch] = <<>>]
               /\ chan' = [chan EXCEPT ![c] = ch]
    BY <1>5
  <2>a. ch \in Chans /\ ch \in Procs /\ ch # c /\ ch # NoChan /\ c \notin Chans
    BY <1>0, ProcKinds, ConstAssumption
  <2>1. Moves(c, {"create"}, {"start"}) BY <1>0, <1>1, <1>5 DEF Moves, TypeInv, TypeOK, ClientPC
  <2>2. /\ idleConn' \in [Hosts -> SiteChans \cup {NoChan}]
        /\ \A g \in Hosts : g # h => idleConn'[g] = idleConn[g] /\ idleConn[g] # ch
        /\ idleConn'[h] = ch
    BY <1>3, <2>0 DEF TypeInv, TypeOK, Garbage
  <2>3. /\ chanHost' \in [SiteChans -> Hosts \cup {NoHost}]
        /\ \A x \in SiteChans : x # ch => chanHost'[x] = chanHost[x]
        /\ chanHost'[ch] = h
    BY <1>3, <2>0 DEF TypeInv, TypeOK
  <2>4. queue' \in [Chans -> Seq(Conns)]
    <3>1. <<>> \in Seq(Conns) OBVIOUS
    <3> QED BY <2>0, <2>a, <3>1 DEF TypeInv, TypeOK
  <2>5. /\ chan' \in [Clients \cup Closers -> Chans \cup {NoChan}]
        /\ \A p \in Clients \cup Closers : p # c => chan'[p] = chan[p] /\ chan[p] # ch
        /\ chan'[c] = ch
    BY <2>0, <2>a DEF TypeInv, TypeOK, Garbage
  <2>6. pc[ch] = "off" /\ \A k \in Closers : ch \notin todo[k] BY <2>0 DEF Garbage
  <2> HIDE DEF h
  <2>7. TypeOK' BY <1>0, <1>2, <2>1, <2>2, <2>3, <2>4, <2>5 DEF TypeInv, TypeOK, Moves, ClientPC, Procs
  <2>8. HandOK' BY <1>0, <1>2, <2>1, ProcKinds DEF TypeInv, TypeOK, HandOK, HoldingPC, Moves
  <2>9. ChanOK'
    <3>1. ASSUME NEW g \in Hosts, idleConn'[g] # NoChan
          PROVE  chanHost'[idleConn'[g]] = g
      <4>1. CASE g = h BY <2>2, <2>3, <4>1
      <4>2. CASE g # h
        <5>1. idleConn'[g] = idleConn[g] /\ idleConn[g] # ch BY <2>2, <4>2
        <5>2. idleConn[g] \in SiteChans BY <3>1, <5>1 DEF TypeInv, TypeOK
        <5>3. chanHost[idleConn[g]] = g BY <3>1, <5>1 DEF TypeInv, ChanOK
        <5> QED BY <2>3, <5>1, <5>2, <5>3
      <4> QED BY <4>1, <4>2
    <3>2. ASSUME NEW x \in Clients, x # c
          PROVE  /\ pc'[x] \in {"getSite", "start"} => chan'[x] \in SiteChans
                 /\ pc'[x] = "getMux" => chan'[x] = MuxChan
                 /\ pc'[x] = "create" => ~IsMux(hand'[x])
                 /\ pc'[x] \in {"start", "send"} /\ IsMux(hand'[x]) => chan'[x] = MuxChan
                 /\ pc'[x] \in {"start", "send"} /\ ~IsMux(hand'[x]) =>
                        chan'[x] \in SiteChans /\ chanHost'[chan'[x]] = HostPort[hand'[x]]
      BY <1>2, <2>1, <2>3, <2>5, <3>2, ProcKinds DEF TypeInv, TypeOK, ChanOK, Moves
    <3>3. /\ pc'[c] = "start" /\ chan'[c] \in SiteChans /\ ~IsMux(hand'[c])
          /\ chanHost'[chan'[c]] = HostPort[hand'[c]]
      BY <1>1, <1>2, <2>1, <2>3, <2>5 DEF Moves, IsMux, h
    <3> QED BY <3>1, <3>2, <3>3 DEF ChanOK, IsMux
  <2>10. ScanOK' BY <1>0, <1>2, <2>1, <2>5, ProcKinds DEF TypeInv, TypeOK, ScanOK, Scanners, Moves
  <2>11. HostOK'
    <3>1. \A x \in SiteChans : chanHost[x] \in Hosts => chanHost'[x] \in Hosts BY <1>3, <2>3
    <3>2. \A x \in SiteChans : pc'[x] = pc[x] BY <2>1, ProcKinds DEF Moves
    <3>3. \A k \in Closers : chan'[k] = chan[k] /\ todo'[k] = todo[k] BY <1>2, <2>5, ProcKinds
    <3> QED BY <3>1, <3>2, <3>3 DEF TypeInv, HostOK
  <2>12. StartOK'
    <3>1. pc'[ch] = "off" /\ pc'[c] = "start" BY <2>1, <2>6, <2>a DEF Moves
    <3>2. ASSUME NEW x \in Clients, x # c, pc'[x] = "start"
          PROVE  /\ chan'[x] # ch /\ pc'[chan'[x]] = "off"
                 /\ \A y \in Clients : y # x /\ pc'[y] = "start" => chan'[y] # chan'[x]
      <4>1. pc[x] = "start" /\ chan'[x] = chan[x] /\ chan[x] # ch /\ chan[x] \in Procs /\ chan[x] # c
        BY <1>0, <2>1, <2>5, <3>2, ProcKinds DEF Moves, TypeInv, ChanOK
      <4>2. pc'[chan[x]] = "off" BY <2>1, <4>1 DEF Moves, TypeInv, StartOK
      <4>3. ASSUME NEW y \in Clients, y # x, pc'[y] = "start" PROVE chan'[y] # chan'[x]
        <5>1. CASE y = c BY <2>5, <4>1, <5>1
        <5>2. CASE y # c
          <6>1. pc[y] = "start" /\ chan'[y] = chan[y] BY <2>1, <2>5, <4>3, <5>2, ProcKinds DEF Moves
          <6> QED BY <4>1, <4>3, <6>1 DEF TypeInv, StartOK
        <5> QED BY <5>1, <5>2
      <4> QED BY <4>1, <4>2, <4>3
    <3>3. \A x \in Clients : x # c /\ pc'[x] = "start" => chan'[x] # chan'[c]
      BY <2>5, <3>2
    <3> QED BY <2>5, <3>1, <3>2, <3>3 DEF StartOK
  <2> QED BY <2>7, <2>8, <2>9, <2>10, <2>11, <2>12 DEF TypeInv
<1> QED BY <1>4, <1>5 DEF PutCreate

\* The start of a channel's cleanup keeps TypeInv.
LEMMA TypePutStart ==
    ASSUME TypeInv, NEW c \in Clients, PutStart(c)
    PROVE  TypeInv'
<1>0. c \in Procs /\ c \notin Chans /\ c \notin Closers BY ProcKinds
<1>1. pc[c] = "start" /\ chan[c] \in SiteChans /\ chan[c] \in Chans /\ chan[c] \in Procs
  BY ProcKinds DEF PutStart, TypeInv, ChanOK
<1>2. UNCHANGED <<idleConn, chanHost, queue, open, fresh, chan, hand, want, asDirect, left, todo>>
  BY DEF PutStart, poolVars, connVars, reqVars, scanVars
<1>3. /\ pc' \in [Procs -> ClientPC \cup CloserPC \cup CleanerPC]
      /\ pc'[c] = "send" /\ pc'[chan[c]] = "sleep"
      /\ \A p \in Procs : p # c /\ p # chan[c] => pc'[p] = pc[p]
  BY <1>0, <1>1 DEF PutStart, TypeInv, TypeOK, ClientPC, CleanerPC
<1>4. pc[chan[c]] = "off" BY <1>1 DEF TypeInv, StartOK
<1>5. TypeOK'
  <2>1. \A x \in Clients : pc'[x] \in ClientPC
    <3>1. \A x \in Clients : x # c => pc'[x] = pc[x] BY <1>1, <1>3, ProcKinds
    <3> QED BY <1>3, <3>1 DEF TypeInv, TypeOK, ClientPC
  <2>2. \A k \in Closers : pc'[k] \in CloserPC
    <3>1. \A k \in Closers : pc'[k] = pc[k] BY <1>0, <1>1, <1>3, ProcKinds
    <3> QED BY <3>1 DEF TypeInv, TypeOK
  <2>3. \A ch \in Chans : pc'[ch] \in CleanerPC
    BY <1>0, <1>1, <1>3, ProcKinds DEF TypeInv, TypeOK, CleanerPC
  <2> QED BY <1>2, <1>3, <2>1, <2>2, <2>3 DEF TypeInv, TypeOK
<1>6. HandOK' BY <1>0, <1>1, <1>2, <1>3, <1>4, ProcKinds DEF TypeInv, TypeOK, HandOK, HoldingPC
<1>7. ChanOK' BY <1>0, <1>1, <1>2, <1>3, ProcKinds DEF TypeInv, TypeOK, ChanOK, IsMux
<1>8. ScanOK' BY <1>0, <1>1, <1>2, <1>3, ProcKinds DEF TypeInv, TypeOK, ScanOK, Scanners
<1>9. HostOK'
  <2>1. ~IsMux(hand[c]) BY <1>1, ProcKinds DEF TypeInv, ChanOK
  <2>2. chanHost[chan[c]] \in Hosts
    BY <1>1, <2>1, ConstAssumption DEF TypeInv, TypeOK, HandOK, HoldingPC, ChanOK
  <2> QED BY <1>0, <1>1, <1>2, <1>3, <2>2, ProcKinds DEF TypeInv, TypeOK, HostOK
<1>10. StartOK'
  <2>1. SUFFICES ASSUME NEW x \in Clients, pc'[x] = "start"
                 PROVE  /\ pc'[chan'[x]] = "off"
                        /\ \A y \in Clients : y # x /\ pc'[y] = "start" => chan'[y] # chan'[x]
    BY DEF StartOK
  <2>2. x # c /\ pc[x] = "start" /\ chan'[x] = chan[x] /\ chan[x] \in SiteChans
    BY <1>1, <1>2, <1>3, <2>1, ProcKinds DEF TypeInv, ChanOK
  <2>3. chan[x] # chan[c] /\ pc[chan[x]] = "off" BY <1>1, <2>2 DEF TypeInv, StartOK
  <2>4. pc'[chan[x]] = "off" BY <1>0, <1>3, <2>2, <2>3, ProcKinds
  <2>5. ASSUME NEW y \in Clients, y # x, pc'[y] = "start" PROVE chan[y] # chan[x]
    <3>1. pc[y] = "start" BY <1>1, <1>3, <2>5, ProcKinds
    <3> QED BY <2>2, <2>5, <3>1 DEF TypeInv, StartOK
  <2> QED BY <1>2, <2>2, <2>4, <2>5
<1> QED BY <1>5, <1>6, <1>7, <1>8, <1>9, <1>10 DEF TypeInv

\* putConnToChan keeps TypeInv.
LEMMA TypePutSend ==
    ASSUME TypeInv, NEW c \in Clients, PutSend(c)
    PROVE  TypeInv'
<1>0. c \in Procs /\ c \notin Chans /\ c \notin Closers BY ProcKinds
<1>1. chan[c] \in Chans /\ hand[c] \in Conns /\ pc[c] = "send"
  BY ProcKinds DEF PutSend, TypeInv, TypeOK, ChanOK, HandOK, HoldingPC
<1>2. UNCHANGED <<idleConn, chanHost, want, asDirect, left, todo>> BY DEF PutSend, reqVars, scanVars
<1>3. queue' \in [Chans -> Seq(Conns)]
  <2>1. queue[chan[c]] \in Seq(Conns) BY <1>1 DEF TypeInv, TypeOK
  <2>2. Append(queue[chan[c]], hand[c]) \in Seq(Conns) BY <1>1, <2>1, QueueSend
  <2> QED BY <2>2 DEF PutSend, SendTo, TypeInv, TypeOK
<1>4. open' \subseteq Conns /\ fresh' \subseteq Conns BY DEF PutSend, Close, TypeInv, TypeOK, connVars
<1>5. Moves(c, {"send"}, {"idle"}) BY <1>0 DEF PutSend, Moves, TypeInv, TypeOK, ClientPC
<1>6. hand' = [hand EXCEPT ![c] = NoConn] /\ chan' = [chan EXCEPT ![c] = NoChan] BY DEF PutSend
<1>11. TypeOK' BY <1>0, <1>2, <1>3, <1>4, <1>5, <1>6 DEF TypeInv, TypeOK, Moves, ClientPC, Procs
<1>12. HandOK' BY ProcKinds, <1>0, <1>5, <1>6 DEF TypeInv, TypeOK, HandOK, HoldingPC, Moves
<1>13. ChanOK' BY ProcKinds, <1>0, <1>2, <1>5, <1>6 DEF TypeInv, TypeOK, ChanOK, Moves, IsMux
<1>14. ScanOK' BY ProcKinds, <1>0, <1>2, <1>5, <1>6 DEF TypeInv, TypeOK, ScanOK, Scanners, Moves
<1>15. HostOK' BY ProcKinds, <1>0, <1>2, <1>5, <1>6 DEF TypeInv, TypeOK, HostOK, Moves
<1>16. /\ \A x \in Clients : pc'[x] = "start" => pc[x] = "start" /\ chan'[x] = chan[x]
       /\ \A ch \in SiteChans : pc[ch] = "off" => pc'[ch] = "off"
  BY ProcKinds, <1>0, <1>5, <1>6 DEF TypeInv, TypeOK, Moves
<1>17. StartOK' BY <1>16, StartKept
<1> QED BY <1>11, <1>12, <1>13, <1>14, <1>15, <1>17 DEF TypeInv

\* The channel that a goroutine scans, and what one iteration does to pc and left.
LEMMA ScanFacts ==
    ASSUME TypeInv, NEW p \in Scanners
    PROVE  /\ p \in Procs /\ p \notin Clients
           /\ pc[p] \in {"scan", "putback"} => ScanChan(p) \in Chans /\ queue[ScanChan(p)] \in Seq(Conns)
           /\ pc[p] = "remove" => ScanChan(p) \in SiteChans /\ chanHost[ScanChan(p)] \in Hosts
           /\ p \in Closers => AfterScan(p, TRUE) = "next" /\ AfterScan(p, FALSE) = "next"
           /\ p \in Chans => AfterScan(p, TRUE) = "final" /\ AfterScan(p, FALSE) = "sleep"
           /\ pc[p] = "putback" => p \in Chans
  BY ProcKinds, ConstAssumption
  DEF TypeInv, TypeOK, ScanOK, HostOK, Scanners, ScanChan, AfterScan, CloserPC

\* A step of a cleanup or of CloseAll moves no client.
ScanMoves(p) ==
    /\ pc' \in [Procs -> ClientPC \cup CloserPC \cup CleanerPC]
    /\ \A q \in Procs : q # p => pc'[q] = pc[q]
    /\ p \in Closers => pc'[p] \in CloserPC
    /\ p \in Chans => pc'[p] \in CleanerPC
    /\ pc[p] # "off"

\* Where a scan is after one iteration of closeServerConn, and what is left.
LEMMA IteratedFacts ==
    ASSUME TypeInv, NEW p \in Scanners, pc[p] \in {"scan", "putback"}, Iterated(p)
    PROVE  /\ ScanMoves(p)
           /\ left' \in [Closers \cup Chans -> Nat]
           /\ \A q \in Scanners : q # p => left'[q] = left[q]
           /\ pc'[p] \in {"scan", "next", "sleep"}
           /\ pc'[p] = "scan" => left'[p] >= 1
<1>1. left[p] \in Nat /\ left[p] >= 1 /\ p \in Closers \cup Chans BY DEF TypeInv, TypeOK, ScanOK, Scanners
<1>0. p \in Procs /\ pc' = [pc EXCEPT ![p] = IF left[p] = 1 THEN AfterScan(p, FALSE) ELSE "scan"]
  BY ScanFacts DEF Iterated
<1>a. pc'[p] = IF left[p] = 1 THEN AfterScan(p, FALSE) ELSE "scan" BY <1>0 DEF TypeInv, TypeOK
<1>b. /\ p \in Closers => AfterScan(p, FALSE) = "next"
      /\ p \in Chans => AfterScan(p, FALSE) = "sleep" BY ScanFacts
<1>2. pc'[p] \in {"scan", "next", "sleep"} /\ (p \in Closers => pc'[p] \in {"scan", "next"})
      /\ (p \in Chans => pc'[p] \in {"scan", "sleep"})
  BY <1>1, <1>a, <1>b
<1>3. /\ pc' \in [Procs -> ClientPC \cup CloserPC \cup CleanerPC]
      /\ \A q \in Procs : q # p => pc'[q] = pc[q]
  BY <1>0, <1>1, <1>b DEF TypeInv, TypeOK, CloserPC, CleanerPC
<1>4. left' \in [Closers \cup Chans -> Nat] /\ \A q \in Scanners : q # p => left'[q] = left[q]
  BY <1>1 DEF Iterated, TypeInv, TypeOK, Scanners
<1>5. pc'[p] = "scan" => left'[p] >= 1
  <2>1. left[p] = 1 => pc'[p] # "scan" BY <1>1, <1>a, <1>b
  <2>2. left'[p] = left[p] - 1 BY <1>1 DEF Iterated, TypeInv, TypeOK
  <2> QED BY <1>1, <2>1, <2>2
<1>6. pc[p] # "off" OBVIOUS
<1> QED BY <1>2, <1>3, <1>4, <1>5, <1>6 DEF ScanMoves, CloserPC, CleanerPC

\* A step of a scan keeps the types of the program counters.
LEMMA ScanTypeOK ==
    ASSUME TypeInv, NEW p \in Scanners, ScanMoves(p)
    PROVE  /\ pc' \in [Procs -> ClientPC \cup CloserPC \cup CleanerPC]
           /\ \A c \in Clients : pc'[c] \in ClientPC
           /\ \A k \in Closers : pc'[k] \in CloserPC
           /\ \A ch \in Chans : pc'[ch] \in CleanerPC
<1>1. p \in Procs /\ p \notin Clients BY ScanFacts
<1>2. \A c \in Clients : pc'[c] \in ClientPC BY <1>1, ProcKinds DEF ScanMoves, TypeInv, TypeOK
<1>3. \A k \in Closers : pc'[k] \in CloserPC BY <1>1, ProcKinds DEF ScanMoves, TypeInv, TypeOK
<1>4. \A ch \in Chans : pc'[ch] \in CleanerPC BY <1>1, ProcKinds DEF ScanMoves, TypeInv, TypeOK
<1> QED BY <1>2, <1>3, <1>4 DEF ScanMoves

\* The parts of TypeInv that only look at clients and at the map of hosts.
LEMMA ScanKeepsClients ==
    ASSUME TypeInv, NEW p \in Scanners, ScanMoves(p), UNCHANGED chanHost,
           \A x \in Clients : hand'[x] = hand[x] /\ chan'[x] = chan[x],
           \A h \in Hosts : idleConn'[h] # NoChan => idleConn'[h] = idleConn[h]
    PROVE  ChanOK' /\ StartOK'
<1>0. p \in Procs /\ p \notin Clients BY ScanFacts
<1>1. ChanOK' BY <1>0, ProcKinds DEF TypeInv, TypeOK, ChanOK, ScanMoves, IsMux
<1>2. /\ \A x \in Clients : pc'[x] = "start" => pc[x] = "start" /\ chan'[x] = chan[x]
      /\ \A ch \in SiteChans : pc[ch] = "off" => pc'[ch] = "off"
  BY <1>0, ProcKinds DEF ScanMoves
<1> QED BY <1>1, <1>2, StartKept

\* A step of a scan keeps HostOK.
LEMMA ScanKeepsHosts ==
    ASSUME TypeInv, NEW p \in Scanners, ScanMoves(p), UNCHANGED <<chanHost, chan, todo>>
    PROVE  HostOK'
<1>0. p \in Procs /\ p \notin Clients BY ScanFacts
<1> QED BY <1>0, ProcKinds DEF TypeInv, TypeOK, HostOK, ScanMoves

\* A step of a scan keeps HandOK if the scanning goroutine does.
LEMMA ScanKeepsHands ==
    ASSUME TypeInv, NEW p \in Scanners, ScanMoves(p),
           \A x \in Clients \cup Chans : x # p => hand'[x] = hand[x],
           p \in Chans => ((hand'[p] # NoConn) <=> (pc'[p] = "putback"))
    PROVE  HandOK'
<1>1. p \in Procs /\ p \notin Clients BY ScanFacts
<1>2. \A c \in Clients : pc'[c] = pc[c] /\ hand'[c] = hand[c] BY <1>1, ProcKinds DEF ScanMoves
<1>3. \A ch \in Chans : ch # p => pc'[ch] = pc[ch] /\ hand'[ch] = hand[ch] BY ProcKinds DEF ScanMoves
<1> QED BY <1>2, <1>3 DEF TypeInv, HandOK

\* A step of a scan keeps ScanOK if the scanning goroutine does.
LEMMA ScanKeepsScans ==
    ASSUME TypeInv, NEW p \in Scanners, ScanMoves(p), UNCHANGED chan,
           \A q \in Scanners : q # p => left'[q] = left[q],
           pc'[p] \in {"scan", "putback"} => ScanChan(p) \in Chans /\ left'[p] >= 1,
           pc'[p] = "remove" => ScanChan(p) \in SiteChans
    PROVE  ScanOK'
<1>0. p \in Procs /\ p \notin Clients BY ScanFacts
<1>1. ASSUME NEW k \in Closers
      PROVE  /\ pc'[k] = "scan" => chan'[k] \in Chans
             /\ pc'[k] = "remove" => chan'[k] \in SiteChans
  <2>1. k \in Procs /\ k \notin Chans BY ProcKinds
  <2>2. CASE k = p BY <2>1, <2>2 DEF ScanChan
  <2>3. CASE k # p BY <2>1, <2>3 DEF ScanMoves, TypeInv, ScanOK
  <2> QED BY <2>2, <2>3
<1>2. pc'[MuxChan] # "remove"
  <2>1. MuxChan \in Procs /\ MuxChan \in Chans /\ MuxChan \notin SiteChans BY ProcKinds
  <2>2. CASE p = MuxChan BY <2>1, <2>2 DEF ScanChan
  <2>3. CASE p # MuxChan BY <2>1, <2>3 DEF ScanMoves, TypeInv, ScanOK
  <2> QED BY <2>2, <2>3
<1>3. ASSUME NEW q \in Scanners, pc'[q] \in {"scan", "putback"} PROVE left'[q] >= 1
  BY <1>0, <1>3, ProcKinds DEF ScanMoves, TypeInv, ScanOK
<1> QED BY <1>1, <1>2, <1>3 DEF ScanOK

\* closeServerConn closing a connection keeps TypeInv.
LEMMA TypeScanClose ==
    ASSUME TypeInv, NEW p \in Scanners, ScanClose(p)
    PROVE  TypeInv'
<1>1. pc[p] = "scan" /\ Iterated(p) /\ UNCHANGED <<idleConn, chanHost, chan, hand, want, asDirect, todo>>
  BY DEF ScanClose, reqVars
<1>2. /\ ScanMoves(p) /\ left' \in [Closers \cup Chans -> Nat] /\ pc'[p] # "putback"
      /\ \A q \in Scanners : q # p => left'[q] = left[q]
      /\ pc'[p] \in {"scan", "next", "sleep"} /\ (pc'[p] = "scan" => left'[p] >= 1)
  BY <1>1, IteratedFacts
<1>3. ScanChan(p) \in Chans /\ queue[ScanChan(p)] \in Seq(Conns) /\ queue[ScanChan(p)] # <<>>
  BY <1>1, ScanFacts DEF ScanClose
<1>4. queue' \in [Chans -> Seq(Conns)] BY <1>3, QueueRecv DEF ScanClose, Recv, TypeInv, TypeOK
<1>5. open' \subseteq Conns /\ fresh' \subseteq Conns BY DEF ScanClose, Close, TypeInv, TypeOK
<1>6. TypeOK' BY <1>1, <1>2, <1>4, <1>5, ScanTypeOK DEF TypeInv, TypeOK
<1>7. HandOK'
  <2>1. p \in Chans => hand'[p] = NoConn BY <1>1 DEF TypeInv, HandOK
  <2> QED BY <1>1, <1>2, <2>1, ScanKeepsHands
<1>8. ScanOK' BY <1>1, <1>2, ScanFacts, ScanKeepsScans
<1>9. ChanOK' /\ HostOK' /\ StartOK' BY <1>1, <1>2, ScanKeepsClients, ScanKeepsHosts
<1> QED BY <1>6, <1>7, <1>8, <1>9 DEF TypeInv

\* closeServerConn taking a live connection out keeps TypeInv.
LEMMA TypeScanKeep ==
    ASSUME TypeInv, NEW p \in Scanners, ScanKeep(p)
    PROVE  TypeInv'
<1>1. /\ pc[p] = "scan" /\ p \in Chans /\ p \in Procs /\ p \notin Clients
      /\ UNCHANGED <<idleConn, chanHost, open, fresh, chan, want, asDirect, left, todo>>
  <2>1. p \notin Closers BY DEF ScanKeep, Forced
  <2>2. p \in Chans /\ p \in Procs /\ p \notin Clients BY <2>1, ScanFacts DEF Scanners
  <2> QED BY <2>2 DEF ScanKeep, connVars, reqVars, scanVars
<1>2. p \in Chans /\ ScanMoves(p) /\ pc'[p] = "putback"
  BY <1>1, ProcKinds DEF ScanKeep, ScanMoves, TypeInv, TypeOK, CleanerPC
<1>3. ScanChan(p) \in Chans /\ queue[ScanChan(p)] \in Seq(Conns) /\ queue[ScanChan(p)] # <<>>
  BY <1>1, ScanFacts DEF ScanKeep
<1>4. queue' \in [Chans -> Seq(Conns)] BY <1>3, QueueRecv DEF ScanKeep, Recv, TypeInv, TypeOK
<1>5. /\ hand' \in [Clients \cup Chans -> Conns \cup {NoConn}]
      /\ \A x \in Clients \cup Chans : x # p => hand'[x] = hand[x]
      /\ hand'[p] # NoConn
  <2>1. Head(queue[ScanChan(p)]) \in Conns BY <1>3, QueueRecv
  <2> QED BY <1>1, <2>1, ConstAssumption DEF ScanKeep, TypeInv, TypeOK
<1>6. TypeOK' BY <1>1, <1>2, <1>4, <1>5, ScanTypeOK DEF TypeInv, TypeOK
<1>7. HandOK' BY <1>2, <1>5, ScanKeepsHands
<1>8. left[p] >= 1 BY <1>1 DEF TypeInv, ScanOK
<1>9. ScanOK' BY <1>1, <1>2, <1>3, <1>8, ScanKeepsScans
<1>10. \A x \in Clients : hand'[x] = hand[x] BY <1>1, <1>5
<1>11. ChanOK' /\ HostOK' /\ StartOK' BY <1>1, <1>2, <1>10, ScanKeepsClients, ScanKeepsHosts
<1> QED BY <1>6, <1>7, <1>9, <1>11 DEF TypeInv

\* closeServerConn putting a connection back keeps TypeInv.
LEMMA TypeScanPutBack ==
    ASSUME TypeInv, NEW p \in Scanners, ScanPutBack(p)
    PROVE  TypeInv'
<1>1. /\ pc[p] = "putback" /\ Iterated(p) /\ p \in Chans /\ p \notin Clients
      /\ UNCHANGED <<idleConn, chanHost, open, fresh, chan, want, asDirect, todo>>
  BY ScanFacts DEF ScanPutBack, reqVars, connVars
<1>2. /\ ScanMoves(p) /\ left' \in [Closers \cup Chans -> Nat] /\ pc'[p] # "putback"
      /\ \A q \in Scanners : q # p => left'[q] = left[q]
      /\ pc'[p] \in {"scan", "next", "sleep"} /\ (pc'[p] = "scan" => left'[p] >= 1)
  BY <1>1, IteratedFacts
<1>3. ScanChan(p) \in Chans /\ queue[ScanChan(p)] \in Seq(Conns) /\ hand[p] \in Conns
  <2>1. hand[p] \in Conns BY <1>1 DEF TypeInv, TypeOK, HandOK
  <2> QED BY <1>1, <2>1, ScanFacts
<1>4. queue' \in [Chans -> Seq(Conns)]
  <2>1. Append(queue[ScanChan(p)], hand[p]) \in Seq(Conns) BY <1>3, QueueSend
  <2> QED BY <1>3, <2>1 DEF ScanPutBack, SendTo, TypeInv, TypeOK
<1>5. /\ hand' \in [Clients \cup Chans -> Conns \cup {NoConn}]
      /\ \A x \in Clients \cup Chans : x # p => hand'[x] = hand[x]
      /\ hand'[p] = NoConn
  BY <1>1 DEF ScanPutBack, TypeInv, TypeOK
<1>6. TypeOK' BY <1>1, <1>2, <1>4, <1>5, ScanTypeOK DEF TypeInv, TypeOK
<1>7. HandOK' BY <1>2, <1>5, ScanKeepsHands
<1>8. ScanOK' BY <1>1, <1>2, ScanFacts, ScanKeepsScans
<1>9. \A x \in Clients : hand'[x] = hand[x] BY <1>1, <1>5
<1>10. ChanOK' /\ HostOK' /\ StartOK' BY <1>1, <1>2, <1>9, ScanKeepsClients, ScanKeepsHosts
<1> QED BY <1>6, <1>7, <1>8, <1>10 DEF TypeInv

\* closeServerConn finding the channel empty keeps TypeInv.
LEMMA TypeScanEmpty ==
    ASSUME TypeInv, NEW p \in Scanners, ScanEmpty(p)
    PROVE  TypeInv'
<1>1. /\ pc[p] = "scan" /\ p \in Procs /\ p \in Closers \cup Chans
      /\ UNCHANGED <<idleConn, chanHost, queue, open, fresh, chan, hand, want, asDirect, todo>>
  BY ScanFacts DEF ScanEmpty, poolVars, connVars, reqVars, Scanners
<1>2. /\ pc'[p] \in {"next", "final", "remove"}
      /\ p \in Closers => pc'[p] \in {"next", "remove"}
      /\ p \in Chans => pc'[p] \in {"final", "remove"}
      /\ pc'[p] = "remove" => ScanChan(p) # MuxChan
  <2>1. pc'[p] = IF ScanChan(p) = MuxChan THEN AfterScan(p, TRUE) ELSE "remove"
    BY <1>1 DEF ScanEmpty, TypeInv, TypeOK
  <2>2. /\ p \in Closers => AfterScan(p, TRUE) = "next"
        /\ p \in Chans => AfterScan(p, TRUE) = "final" BY ScanFacts
  <2> QED BY <1>1, <2>1, <2>2
<1>3. ScanMoves(p)
  <2>1. \A q \in Procs : q # p => pc'[q] = pc[q] BY <1>1 DEF ScanEmpty, TypeInv, TypeOK
  <2>2. pc' = [pc EXCEPT ![p] = pc'[p]] BY <1>1 DEF ScanEmpty, TypeInv, TypeOK
  <2>3. pc' \in [Procs -> ClientPC \cup CloserPC \cup CleanerPC]
    BY <1>1, <1>2, <2>2 DEF TypeInv, TypeOK, CloserPC, CleanerPC
  <2> QED BY <1>1, <1>2, <2>1, <2>3 DEF ScanMoves, CloserPC, CleanerPC
<1>4. left' \in [Closers \cup Chans -> Nat] /\ \A q \in Scanners : q # p => left'[q] = left[q]
  BY <1>1 DEF ScanEmpty, TypeInv, TypeOK, Scanners
<1>5. TypeOK' BY <1>1, <1>3, <1>4, ScanTypeOK DEF TypeInv, TypeOK
<1>6. HandOK'
  <2>1. p \in Chans => hand'[p] = NoConn BY <1>1 DEF TypeInv, HandOK
  <2> QED BY <1>1, <1>2, <1>3, <2>1, ScanKeepsHands
<1>7. ScanOK'
  <2>1. pc'[p] = "remove" => ScanChan(p) \in SiteChans BY <1>1, <1>2, ScanFacts, ProcKinds
  <2> QED BY <1>1, <1>2, <1>3, <1>4, <2>1, ScanKeepsScans
<1>8. ChanOK' /\ HostOK' /\ StartOK' BY <1>1, <1>3, ScanKeepsClients, ScanKeepsHosts
<1> QED BY <1>5, <1>6, <1>7, <1>8 DEF TypeInv

\* closeServerConn taking the channel out of the map keeps TypeInv.
LEMMA TypeScanRemove ==
    ASSUME TypeInv, NEW p \in Scanners, ScanRemove(p)
    PROVE  TypeInv'
<1>1. /\ pc[p] = "remove" /\ p \in Procs /\ p \in Closers \cup Chans
      /\ UNCHANGED <<chanHost, queue, open, fresh, chan, hand, want, asDirect, left, todo>>
  BY ScanFacts DEF ScanRemove, connVars, reqVars, scanVars, Scanners
<1>2. /\ pc'[p] \in {"next", "final"}
      /\ p \in Closers => pc'[p] = "next"
      /\ p \in Chans => pc'[p] = "final"
  <2>1. pc'[p] = AfterScan(p, TRUE) BY <1>1 DEF ScanRemove, TypeInv, TypeOK
  <2> QED BY <1>1, <2>1, ScanFacts
<1>3. ScanMoves(p)
  <2>1. \A q \in Procs : q # p => pc'[q] = pc[q] BY <1>1 DEF ScanRemove, TypeInv, TypeOK
  <2>2. pc' = [pc EXCEPT ![p] = pc'[p]] BY <1>1 DEF ScanRemove, TypeInv, TypeOK
  <2>3. pc' \in [Procs -> ClientPC \cup CloserPC \cup CleanerPC]
    BY <1>1, <1>2, <2>2 DEF TypeInv, TypeOK, CloserPC, CleanerPC
  <2> QED BY <1>1, <1>2, <2>1, <2>3 DEF ScanMoves, CloserPC, CleanerPC
<1>4. chanHost[ScanChan(p)] \in Hosts BY <1>1, ScanFacts
<1>5. /\ idleConn' \in [Hosts -> SiteChans \cup {NoChan}]
      /\ \A h \in Hosts : idleConn'[h] # NoChan => idleConn'[h] = idleConn[h]
  BY <1>4 DEF ScanRemove, TypeInv, TypeOK
<1>6. TypeOK' BY <1>1, <1>3, <1>5, ScanTypeOK DEF TypeInv, TypeOK
<1>7. HandOK'
  <2>1. p \in Chans => hand'[p] = NoConn BY <1>1 DEF TypeInv, HandOK
  <2> QED BY <1>1, <1>2, <1>3, <2>1, ScanKeepsHands
<1>8. ScanOK' BY <1>1, <1>2, <1>3, ScanFacts, ScanKeepsScans
<1>9. ChanOK' /\ HostOK' /\ StartOK' BY <1>1, <1>3, <1>5, ScanKeepsClients, ScanKeepsHosts
<1> QED BY <1>6, <1>7, <1>8, <1>9 DEF TypeInv

\* The steps of closeStaleServerConn keep TypeInv.
LEMMA TypeCleaner ==
    ASSUME TypeInv, NEW ch \in Chans,
           CleanerWake(ch) \/ CleanerFinal(ch) \/ CleanerDrain(ch) \/ CleanerDone(ch)
    PROVE  TypeInv'
<1>0. ch \in Procs /\ ch \in Scanners /\ ch \notin Clients /\ ScanChan(ch) = ch
  BY ProcKinds DEF Scanners, ScanChan
<1>1. UNCHANGED <<idleConn, chanHost, chan, hand, want, asDirect, todo>>
  BY DEF CleanerWake, CleanerFinal, CleanerDrain, CleanerDone, poolVars, reqVars, scanVars
<1>2. queue' \in [Chans -> Seq(Conns)]
  <2>1. CASE CleanerDrain(ch)
    <3>1. queue[ch] \in Seq(Conns) /\ queue[ch] # <<>> BY <2>1 DEF CleanerDrain, TypeInv, TypeOK
    <3> QED BY <2>1, <3>1, QueueRecv DEF CleanerDrain, Recv, TypeInv, TypeOK
  <2>2. CASE ~CleanerDrain(ch)
    BY <2>2 DEF CleanerWake, CleanerFinal, CleanerDone, poolVars, TypeInv, TypeOK
  <2> QED BY <2>1, <2>2
<1>3. open' \subseteq Conns /\ fresh' \subseteq Conns
  BY DEF CleanerWake, CleanerFinal, CleanerDrain, CleanerDone, connVars, Close, TypeInv, TypeOK
<1>4. /\ left' \in [Closers \cup Chans -> Nat]
      /\ \A q \in Scanners : q # ch => left'[q] = left[q]
      /\ pc'[ch] = "scan" => left'[ch] >= 1
  <2>1. CASE CleanerWake(ch)
    <3>1. Lcnt(ch) \in Nat \ {0} BY QueueRecv DEF Lcnt, TypeInv, TypeOK
    <3>2. left' = [left EXCEPT ![ch] = Lcnt(ch)] BY <2>1 DEF CleanerWake
    <3> QED BY <3>1, <3>2 DEF TypeInv, TypeOK, Scanners
  <2>2. CASE CleanerFinal(ch) \/ CleanerDrain(ch) \/ CleanerDone(ch)
    <3>1. UNCHANGED left BY <2>2 DEF CleanerFinal, CleanerDrain, CleanerDone, scanVars
    <3>2. pc'[ch] # "scan" BY <1>0, <2>2 DEF CleanerFinal, CleanerDrain, CleanerDone, TypeInv, TypeOK
    <3> QED BY <3>1, <3>2 DEF TypeInv, TypeOK
  <2> QED BY <2>1, <2>2
<1>5. ScanMoves(ch) /\ pc[ch] # "putback" /\ pc'[ch] # "putback" /\ pc'[ch] # "remove"
  <2>1. /\ pc[ch] \in {"sleep", "final", "drain"}
        /\ pc'[ch] \in {"scan", "drain", "off"}
        /\ \A q \in Procs : q # ch => pc'[q] = pc[q]
        /\ pc' \in [Procs -> ClientPC \cup CloserPC \cup CleanerPC]
    BY <1>0 DEF CleanerWake, CleanerFinal, CleanerDrain, CleanerDone, TypeInv, TypeOK, CleanerPC
  <2> QED BY <1>0, <2>1, ProcKinds DEF ScanMoves, CleanerPC
<1>6. TypeOK' BY <1>0, <1>1, <1>2, <1>3, <1>4, <1>5, ScanTypeOK DEF TypeInv, TypeOK
<1>7. HandOK'
  <2>1. hand'[ch] = NoConn BY <1>1, <1>5 DEF TypeInv, HandOK
  <2> QED BY <1>0, <1>1, <1>5, <2>1, ScanKeepsHands
<1>8. ScanOK' BY <1>0, <1>1, <1>4, <1>5, ScanKeepsScans
<1>9. ChanOK' /\ HostOK' /\ StartOK' BY <1>0, <1>1, <1>5, ScanKeepsClients, ScanKeepsHosts
<1> QED BY <1>6, <1>7, <1>8, <1>9 DEF TypeInv

\* The steps of CloseAll keep TypeInv.
LEMMA TypeCloseAll ==
    ASSUME TypeInv, NEW k \in Closers,
           CloseAllStart(k) \/ (\E ch \in Chans : CloseAllNext(k, ch)) \/ CloseAllDone(k)
    PROVE  TypeInv'
<1>0. k \in Procs /\ k \in Scanners /\ k \notin Clients /\ k \notin Chans /\ ScanChan(k) = chan[k]
  BY ProcKinds DEF Scanners, ScanChan
<1>1. UNCHANGED <<idleConn, chanHost, queue, open, fresh, hand, want, asDirect>>
  BY DEF CloseAllStart, CloseAllNext, CloseAllDone, poolVars, connVars, reqVars
<1>2. ScanMoves(k)
  <2>1. /\ pc[k] \in {"idle", "next"}
        /\ pc'[k] \in {"idle", "next", "scan"}
        /\ \A q \in Procs : q # k => pc'[q] = pc[q]
        /\ pc' \in [Procs -> ClientPC \cup CloserPC \cup CleanerPC]
    BY <1>0 DEF CloseAllStart, CloseAllNext, CloseAllDone, TypeInv, TypeOK, CloserPC
  <2> QED BY <1>0, <2>1 DEF ScanMoves, CloserPC
<1>3. TypeOK' /\ ScanOK' /\ HostOK' /\ \A x \in Clients : chan'[x] = chan[x]
  <2>1. CASE CloseAllStart(k)
    <3> DEFINE mapped == {idleConn[h] : h \in {g \in Hosts : idleConn[g] # NoChan}}
    <3>1. /\ UNCHANGED <<chan, left>> /\ todo' = [todo EXCEPT ![k] = mapped \cup {MuxChan}]
          /\ pc'[k] = "next"
      BY <1>0, <2>1 DEF CloseAllStart, TypeInv, TypeOK
    <3>2. \A ch \in mapped : ch \in SiteChans /\ chanHost[ch] \in Hosts
      BY DEF TypeInv, TypeOK, ChanOK
    <3> HIDE DEF mapped
    <3>3. mapped \cup {MuxChan} \subseteq Chans BY <3>2, ProcKinds
    <3>4. TypeOK' BY <1>0, <1>1, <1>2, <3>1, <3>3, ScanTypeOK DEF TypeInv, TypeOK
    <3>5. ScanOK' BY <1>0, <1>2, <3>1, ScanKeepsScans
    <3>6. HostOK'
      <4>1. ASSUME NEW ch \in SiteChans, pc'[ch] # "off" PROVE chanHost'[ch] \in Hosts
        BY <1>0, <1>1, <1>2, <4>1, ProcKinds DEF ScanMoves, TypeInv, HostOK
      <4>2. ASSUME NEW j \in Closers, NEW ch \in SiteChans, ch \in todo'[j] \/ ch = chan'[j]
            PROVE  chanHost'[ch] \in Hosts
        <5>1. CASE j = k
          <6>1. ch \in mapped \/ ch = chan[k] BY <3>1, <4>2, <5>1, ProcKinds DEF TypeInv, TypeOK
          <6> QED BY <1>1, <3>2, <6>1 DEF TypeInv, HostOK
        <5>2. CASE j # k BY <1>1, <3>1, <4>2, <5>2 DEF TypeInv, TypeOK, HostOK
        <5> QED BY <5>1, <5>2
      <4> QED BY <4>1, <4>2 DEF HostOK
    <3> QED BY <3>1, <3>4, <3>5, <3>6
  <2>2. CASE \E ch \in Chans : CloseAllNext(k, ch)
    <3>1. PICK ch \in Chans : CloseAllNext(k, ch) BY <2>2
    <3>2. /\ todo' = [todo EXCEPT ![k] = @ \ {ch}] /\ chan' = [chan EXCEPT ![k] = ch]
          /\ left' = [left EXCEPT ![k] = Lcnt(ch)] /\ ch \in todo[k] /\ pc'[k] = "scan"
      BY <1>0, <3>1 DEF CloseAllNext, TypeInv, TypeOK
    <3>3. Lcnt(ch) \in Nat \ {0} BY QueueRecv DEF Lcnt, TypeInv, TypeOK
    <3>4. /\ left' \in [Closers \cup Chans -> Nat] /\ left'[k] >= 1
          /\ \A q \in Scanners : q # k => left'[q] = left[q]
      BY <3>2, <3>3 DEF TypeInv, TypeOK, Scanners
    <3>5. /\ chan' \in [Clients \cup Closers -> Chans \cup {NoChan}]
          /\ \A p \in Clients \cup Closers : p # k => chan'[p] = chan[p]
          /\ chan'[k] = ch
      BY <3>2 DEF TypeInv, TypeOK
    <3>6. todo' \in [Closers -> SUBSET Chans] /\ \A j \in Closers : todo'[j] \subseteq todo[j]
      BY <3>2 DEF TypeInv, TypeOK
    <3>7. TypeOK' BY <1>0, <1>1, <1>2, <3>4, <3>5, <3>6, ScanTypeOK DEF TypeInv, TypeOK
    <3>8. ScanOK'
      <4>1. ASSUME NEW j \in Closers
            PROVE  /\ pc'[j] = "scan" => chan'[j] \in Chans
                   /\ pc'[j] = "remove" => chan'[j] \in SiteChans
        BY <1>2, <3>2, <3>5, ProcKinds DEF ScanMoves, TypeInv, ScanOK
      <4>2. pc'[MuxChan] # "remove" BY <1>0, <1>2, ProcKinds DEF ScanMoves, TypeInv, ScanOK
      <4>3. ASSUME NEW q \in Scanners, pc'[q] \in {"scan", "putback"} PROVE left'[q] >= 1
        BY <1>2, <3>4, <4>3, ProcKinds DEF ScanMoves, TypeInv, ScanOK
      <4> QED BY <4>1, <4>2, <4>3 DEF ScanOK
    <3>9. HostOK'
      <4>1. ASSUME NEW x \in SiteChans, pc'[x] # "off" PROVE chanHost'[x] \in Hosts
        BY <1>0, <1>1, <1>2, <4>1, ProcKinds DEF ScanMoves, TypeInv, HostOK
      <4>2. ASSUME NEW j \in Closers, NEW x \in SiteChans, x \in todo'[j] \/ x = chan'[j]
            PROVE  chanHost'[x] \in Hosts
        <5>1. x \in todo[j] \/ x = chan[j] BY <3>2, <3>5, <3>6, <4>2
        <5> QED BY <1>1, <5>1 DEF TypeInv, HostOK
      <4> QED BY <4>1, <4>2 DEF HostOK
    <3> QED BY <1>0, <3>5, <3>7, <3>8, <3>9
  <2>3. CASE CloseAllDone(k)
    <3>1. UNCHANGED <<left, todo>> /\ chan' = [chan EXCEPT ![k] = NoChan] /\ pc'[k] = "idle"
      BY <1>0, <2>3 DEF CloseAllDone, scanVars, TypeInv, TypeOK
    <3>2. /\ chan' \in [Clients \cup Closers -> Chans \cup {NoChan}]
          /\ \A p \in Clients \cup Closers : p # k => chan'[p] = chan[p]
          /\ chan'[k] = NoChan
      BY <3>1 DEF TypeInv, TypeOK
    <3>3. TypeOK' BY <1>0, <1>1, <1>2, <3>1, <3>2, ScanTypeOK DEF TypeInv, TypeOK
    <3>4. ScanOK'
      <4>1. ASSUME NEW j \in Closers
            PROVE  /\ pc'[j] = "scan" => chan'[j] \in Chans
                   /\ pc'[j] = "remove" => chan'[j] \in SiteChans
        BY <1>2, <3>1, <3>2, ProcKinds DEF ScanMoves, TypeInv, ScanOK
      <4>2. pc'[MuxChan] # "remove" BY <1>0, <1>2, ProcKinds DEF ScanMoves, TypeInv, ScanOK
      <4>3. ASSUME NEW q \in Scanners, pc'[q] \in {"scan", "putback"} PROVE left'[q] >= 1
        BY <1>2, <3>1, <4>3, ProcKinds DEF ScanMoves, TypeInv, ScanOK
      <4> QED BY <4>1, <4>2, <4>3 DEF ScanOK
    <3>5. HostOK'
      <4>1. NoChan \notin SiteChans BY ConstAssumption, ProcKinds
      <4>2. ASSUME NEW x \in SiteChans, pc'[x] # "off" PROVE chanHost'[x] \in Hosts
        BY <1>0, <1>1, <1>2, <4>2, ProcKinds DEF ScanMoves, TypeInv, HostOK
      <4>3. ASSUME NEW j \in Closers, NEW x \in SiteChans, x \in todo'[j] \/ x = chan'[j]
            PROVE  chanHost'[x] \in Hosts
        <5>1. x \in todo[j] \/ x = chan[j] BY <3>1, <3>2, <4>1, <4>3
        <5> QED BY <1>1, <5>1 DEF TypeInv, HostOK
      <4> QED BY <4>2, <4>3 DEF HostOK
    <3> QED BY <1>0, <3>2, <3>3, <3>4, <3>5
  <2> QED BY <2>1, <2>2, <2>3
<1>4. HandOK' BY <1>0, <1>1, <1>2, ScanKeepsHands
<1>5. ChanOK' /\ StartOK' BY <1>0, <1>1, <1>2, <1>3, ScanKeepsClients
<1> QED BY <1>3, <1>4, <1>5 DEF TypeInv

\* Every step, and every stuttering step, keeps TypeInv.
LEMMA TypeNext == ASSUME TypeInv, [Next]_vars PROVE TypeInv'
<1>1. ASSUME NEW c \in Clients,
             \/ \E h \in Hosts, d \in BOOLEAN : GetLookup(c, h, d)
             \/ \E sv \in Conns : Dial(c, sv)
             \/ DialFails(c)
             \/ Discard(c)
             \/ \E keepAlive \in BOOLEAN : PutLookup(c, keepAlive)
             \/ ClientStep(c)
      PROVE  TypeInv'
  <2>1. CASE \E h \in Hosts, d \in BOOLEAN : GetLookup(c, h, d) BY <2>1, TypeGetLookup
  <2>2. CASE \E sv \in Conns : Dial(c, sv) BY <2>2, TypeDial
  <2>3. CASE DialFails(c) BY <2>3, TypeDialFails
  <2>4. CASE Discard(c) BY <2>4, TypeDiscard
  <2>5. CASE \E keepAlive \in BOOLEAN : PutLookup(c, keepAlive) BY <2>5, TypePutLookup
  <2>6. CASE GetRecv(c) BY <2>6, TypeGetRecv
  <2>7. CASE GetEmpty(c) BY <2>7, TypeGetEmpty
  <2>8. CASE PutCreate(c) BY <2>8, TypePutCreate
  <2>9. CASE PutStart(c) BY <2>9, TypePutStart
  <2>10. CASE PutSend(c) BY <2>10, TypePutSend
  <2> QED BY <1>1, <2>1, <2>2, <2>3, <2>4, <2>5, <2>6, <2>7, <2>8, <2>9, <2>10 DEF ClientStep
<1>2. ASSUME NEW p \in Scanners, ScanStep(p) PROVE TypeInv'
  BY <1>2, TypeScanClose, TypeScanKeep, TypeScanPutBack, TypeScanEmpty, TypeScanRemove DEF ScanStep
<1>3. ASSUME NEW ch \in Chans, CleanerStep(ch) PROVE TypeInv'
  <2>1. ch \in Scanners BY DEF Scanners
  <2> QED BY <1>2, <1>3, <2>1, TypeCleaner DEF CleanerStep
<1>4. ASSUME NEW k \in Closers, CloseAllStart(k) \/ CloserStep(k) PROVE TypeInv'
  <2>1. k \in Scanners BY DEF Scanners
  <2> QED BY <1>2, <1>4, <2>1, TypeCloseAll DEF CloserStep
<1>5. ASSUME NEW sv \in Conns, Expire(sv) PROVE TypeInv'
  <2>1. /\ UNCHANGED <<idleConn, chanHost, queue, open, pc, chan, hand, want, asDirect, left, todo>>
        /\ fresh' = fresh \ {sv}
    BY <1>5 DEF Expire, poolVars, reqVars, scanVars
  <2> QED BY <2>1 DEF TypeInv, TypeOK, HandOK, ChanOK, ScanOK, HostOK, StartOK, ScanChan, IsMux
<1>6. ASSUME UNCHANGED vars PROVE TypeInv'
  <2>1. UNCHANGED <<idleConn, chanHost, queue, open, fresh, pc, chan, hand, want, asDirect, left, todo>>
    BY <1>6 DEF vars, poolVars, connVars, reqVars, scanVars
  <2> QED BY <2>1 DEF TypeInv, TypeOK, HandOK, ChanOK, ScanOK, HostOK, StartOK, ScanChan, IsMux
<1> QED BY <1>1, <1>3, <1>4, <1>5, <1>6 DEF Next

\* The variables keep their types, and the local variables of every goroutine
\* agree with where it is.
THEOREM TypeCorrect == Spec => []TypeInv
<1>1. Init => TypeInv BY TypeInit
<1>2. TypeInv /\ [Next]_vars => TypeInv' BY TypeNext
<1> QED BY <1>1, <1>2, PTL DEF Spec

\* The type invariant that the runs check: maps, queues, program counters and
\* hands of conn_pool.go's goroutines hold what their code puts there.
THEOREM TypesHold == Spec => []TypeOK
<1>1. TypeInv => TypeOK BY DEF TypeInv
<1> QED BY <1>1, TypeCorrect, PTL

-----------------------------------------------------------------------------
(* One owner for every connection *)

OwnerInv == NoSharing /\ NoUseAfterClose

\* Where a connection that is in slot i of channel x after a receive from
\* channel ch was before.
Before(ch, x, i) == IF x = ch THEN i + 1 ELSE i

\* After a receive every slot holds what a slot held before, and the head is gone.
LEMMA RecvSlots ==
    ASSUME TypeInv, NEW ch \in Chans, queue[ch] # <<>>, Recv(ch)
    PROVE  /\ Head(queue[ch]) = queue[ch][1] /\ 1 \in Slots(ch) /\ Head(queue[ch]) \in Conns
           /\ \A x \in Chans : \A i \in Slots(x)' :
                /\ i \in Nat \ {0}
                /\ Before(ch, x, i) \in Slots(x)
                /\ queue'[x][i] = queue[x][Before(ch, x, i)]
<1>1. queue[ch] \in Seq(Conns) /\ queue' = [queue EXCEPT ![ch] = Tail(queue[ch])]
  BY DEF TypeInv, TypeOK, Recv
<1>2. Head(queue[ch]) = queue[ch][1] /\ 1 \in Slots(ch) /\ Head(queue[ch]) \in Conns
  BY <1>1, QueueRecv DEF Slots
<1>3. ASSUME NEW x \in Chans, NEW i \in 1 .. Len(queue'[x])
      PROVE  /\ i \in Nat \ {0}
             /\ Before(ch, x, i) \in Slots(x)
             /\ queue'[x][i] = queue[x][Before(ch, x, i)]
  <2>1. CASE x = ch
    <3>1. queue'[x] = Tail(queue[ch]) BY <1>1, <2>1 DEF TypeInv, TypeOK
    <3> DEFINE q == queue[ch]
    <3>a. /\ Len(q) \in Nat \ {0} /\ Len(Tail(q)) = Len(q) - 1
          /\ \A j \in 1 .. Len(Tail(q)) : Tail(q)[j] = q[j + 1]
      <4>1. q \in Seq(Conns) /\ q # <<>> BY <1>1
      <4> HIDE DEF q
      <4> QED BY <4>1, QueueRecv
    <3>2. /\ Len(queue'[x]) = Len(queue[ch]) - 1 /\ Len(queue[ch]) \in Nat
          /\ \A j \in 1 .. Len(queue'[x]) : queue'[x][j] = queue[ch][j + 1]
      BY <3>1, <3>a
    <3>3. queue'[x][i] = queue[ch][i + 1] BY <3>2
    <3> QED BY <2>1, <3>2, <3>3 DEF Before, Slots
  <2>2. CASE x # ch
    <3>1. queue'[x] = queue[x] BY <1>1, <2>2 DEF TypeInv, TypeOK
    <3> QED BY <2>2, <3>1 DEF Before, Slots
  <2> QED BY <2>1, <2>2
<1> QED BY <1>2, <1>3 DEF Slots

\* A received connection is closed.
LEMMA OwnRecvClose ==
    ASSUME TypeInv, OwnerInv, NEW ch \in Chans, queue[ch] # <<>>, Recv(ch),
           Close(Head(queue[ch])), UNCHANGED hand
    PROVE  OwnerInv'
<1> DEFINE sv == Head(queue[ch])
<1>1. sv = queue[ch][1] /\ 1 \in Slots(ch) BY RecvSlots
<1>2. \A x \in Chans : \A i \in Slots(x)' :
        /\ i \in Nat \ {0}
        /\ Before(ch, x, i) \in Slots(x)
        /\ queue'[x][i] = queue[x][Before(ch, x, i)]
  BY RecvSlots
<1>3. \A x \in Chans : \A i \in Slots(x)' : queue'[x][i] # sv
  <2>1. SUFFICES ASSUME NEW x \in Chans, NEW i \in Slots(x)', queue'[x][i] = sv PROVE FALSE
    OBVIOUS
  <2>2. x = ch /\ Before(ch, x, i) = 1 BY <1>1, <1>2, <2>1 DEF OwnerInv, NoSharing
  <2> QED BY <1>2, <2>2 DEF Before
<1>4. \A p \in Holders' : p \in Holders /\ hand'[p] = hand[p] /\ hand[p] # sv
  BY <1>1 DEF Holders, OwnerInv, NoSharing
<1>5. ASSUME NEW x \in Chans, NEW y \in Chans, NEW i \in Slots(x)', NEW j \in Slots(y)',
             queue'[x][i] = queue'[y][j]
      PROVE  x = y /\ i = j
  <2>1. x = y /\ Before(ch, x, i) = Before(ch, y, j) BY <1>2, <1>5 DEF OwnerInv, NoSharing
  <2> QED BY <1>2, <2>1 DEF Before
<1>6. \A p, q \in Holders' : hand'[p] = hand'[q] => p = q BY <1>4 DEF OwnerInv, NoSharing
<1>7. \A p \in Holders', x \in Chans : \A i \in Slots(x)' : hand'[p] # queue'[x][i]
  BY <1>2, <1>4 DEF OwnerInv, NoSharing
<1>8. NoUseAfterClose' BY <1>2, <1>3, <1>4 DEF OwnerInv, NoUseAfterClose, Close
<1> QED BY <1>5, <1>6, <1>7, <1>8 DEF OwnerInv, NoSharing

\* A received connection goes into the empty hands of p.
LEMMA OwnRecvTake ==
    ASSUME TypeInv, OwnerInv, NEW ch \in Chans, queue[ch] # <<>>, Recv(ch), UNCHANGED open,
           NEW p \in Clients \cup Chans, hand[p] = NoConn,
           hand' = [hand EXCEPT ![p] = Head(queue[ch])]
    PROVE  OwnerInv'
<1> DEFINE sv == Head(queue[ch])
<1>1. sv = queue[ch][1] /\ 1 \in Slots(ch) /\ sv \in Conns BY RecvSlots
<1>2. \A x \in Chans : \A i \in Slots(x)' :
        /\ i \in Nat \ {0}
        /\ Before(ch, x, i) \in Slots(x)
        /\ queue'[x][i] = queue[x][Before(ch, x, i)]
  BY RecvSlots
<1>3. \A x \in Chans : \A i \in Slots(x)' : queue'[x][i] # sv
  <2>1. SUFFICES ASSUME NEW x \in Chans, NEW i \in Slots(x)', queue'[x][i] = sv PROVE FALSE
    OBVIOUS
  <2>2. x = ch /\ Before(ch, x, i) = 1 BY <1>1, <1>2, <2>1 DEF OwnerInv, NoSharing
  <2> QED BY <1>2, <2>2 DEF Before
<1>4. \A q \in Holders' : IF q = p THEN hand'[q] = sv
                          ELSE q \in Holders /\ hand'[q] = hand[q] /\ hand[q] # sv
  BY <1>1 DEF Holders, OwnerInv, NoSharing, TypeInv, TypeOK
<1>5. ASSUME NEW x \in Chans, NEW y \in Chans, NEW i \in Slots(x)', NEW j \in Slots(y)',
             queue'[x][i] = queue'[y][j]
      PROVE  x = y /\ i = j
  <2>1. x = y /\ Before(ch, x, i) = Before(ch, y, j) BY <1>2, <1>5 DEF OwnerInv, NoSharing
  <2> QED BY <1>2, <2>1 DEF Before
<1> HIDE DEF sv
<1>6. \A q, r \in Holders' : hand'[q] = hand'[r] => q = r BY <1>4 DEF OwnerInv, NoSharing
<1>7. \A q \in Holders', x \in Chans : \A i \in Slots(x)' : hand'[q] # queue'[x][i]
  BY <1>2, <1>3, <1>4 DEF OwnerInv, NoSharing
<1>8. sv \in open BY <1>1 DEF OwnerInv, NoUseAfterClose
<1>9. NoUseAfterClose' BY <1>2, <1>4, <1>8 DEF OwnerInv, NoUseAfterClose
<1> QED BY <1>5, <1>6, <1>7, <1>9 DEF OwnerInv, NoSharing

\* The connection in the hands of p is sent to a channel.
LEMMA OwnSend ==
    ASSUME TypeInv, OwnerInv, NEW ch \in Chans, NEW p \in Clients \cup Chans, hand[p] # NoConn,
           SendTo(ch, hand[p]), UNCHANGED open, hand' = [hand EXCEPT ![p] = NoConn]
    PROVE  OwnerInv'
<1> DEFINE n == Len(queue[ch])
<1>1. /\ p \in Holders /\ hand[p] \in Conns /\ hand[p] \in open
      /\ queue[ch] \in Seq(Conns) /\ n \in Nat
      /\ \A x \in Chans : \A i \in Slots(x) : queue[x][i] # hand[p]
  BY DEF Holders, TypeInv, TypeOK, OwnerInv, NoSharing, NoUseAfterClose
<1>2. ASSUME NEW x \in Chans, NEW i \in Slots(x)'
      PROVE  \/ x = ch /\ i = n + 1 /\ queue'[x][i] = hand[p]
             \/ i \in Slots(x) /\ queue'[x][i] = queue[x][i]
  <2>1. CASE x = ch
    <3>1. queue'[ch] = Append(queue[ch], hand[p]) BY DEF SendTo, TypeInv, TypeOK
    <3>2. i \in 1 .. n + 1 /\ (i \in 1 .. n => queue'[ch][i] = queue[ch][i])
          /\ queue'[ch][n + 1] = hand[p]
      BY <1>1, <2>1, <3>1, QueueSend DEF Slots
    <3> QED BY <1>1, <2>1, <3>2 DEF Slots
  <2>2. CASE x # ch
    <3>1. queue'[x] = queue[x] BY <2>2 DEF SendTo, TypeInv, TypeOK
    <3> QED BY <3>1 DEF Slots
  <2> QED BY <2>1, <2>2
<1> HIDE DEF n
<1>3. \A q \in Holders' : q # p /\ q \in Holders /\ hand'[q] = hand[q] /\ hand[q] # hand[p]
  BY <1>1 DEF Holders, OwnerInv, NoSharing, TypeInv, TypeOK
<1>4. ASSUME NEW x \in Chans, NEW y \in Chans, NEW i \in Slots(x)', NEW j \in Slots(y)',
             queue'[x][i] = queue'[y][j]
      PROVE  x = y /\ i = j
  BY <1>1, <1>2, <1>4 DEF OwnerInv, NoSharing
<1>5. \A q, r \in Holders' : hand'[q] = hand'[r] => q = r BY <1>3 DEF OwnerInv, NoSharing
<1>6. \A q \in Holders', x \in Chans : \A i \in Slots(x)' : hand'[q] # queue'[x][i]
  BY <1>2, <1>3 DEF OwnerInv, NoSharing
<1>7. NoUseAfterClose' BY <1>1, <1>2, <1>3 DEF OwnerInv, NoUseAfterClose
<1> QED BY <1>4, <1>5, <1>6, <1>7 DEF OwnerInv, NoSharing

\* The connection in the hands of p is closed.
LEMMA OwnClose ==
    ASSUME TypeInv, OwnerInv, NEW p \in Clients \cup Chans, hand[p] # NoConn,
           Close(hand[p]), UNCHANGED queue, hand' = [hand EXCEPT ![p] = NoConn]
    PROVE  OwnerInv'
<1>1. p \in Holders /\ \A x \in Chans : \A i \in Slots(x) : queue[x][i] # hand[p]
  BY DEF Holders, OwnerInv, NoSharing
<1>2. \A q \in Holders' : q \in Holders /\ hand'[q] = hand[q] /\ hand[q] # hand[p]
  BY <1>1 DEF Holders, OwnerInv, NoSharing, TypeInv, TypeOK
<1>3. \A x \in Chans : Slots(x)' = Slots(x) BY DEF Slots
<1>4. NoSharing' BY <1>2, <1>3 DEF OwnerInv, NoSharing
<1>5. NoUseAfterClose' BY <1>1, <1>2, <1>3 DEF OwnerInv, NoUseAfterClose, Close
<1> QED BY <1>4, <1>5 DEF OwnerInv

\* A new connection comes into the empty hands of p.
LEMMA OwnDial ==
    ASSUME TypeInv, OwnerInv, NEW p \in Clients, NEW sv \in Conns, sv \notin open,
           open' = open \cup {sv}, UNCHANGED queue, hand' = [hand EXCEPT ![p] = sv]
    PROVE  OwnerInv'
<1>1. \A q \in Holders' : IF q = p THEN hand'[q] = sv
                          ELSE q \in Holders /\ hand'[q] = hand[q] /\ hand[q] # sv
  BY DEF Holders, OwnerInv, NoUseAfterClose, TypeInv, TypeOK
<1>2. \A x \in Chans : Slots(x)' = Slots(x) BY DEF Slots
<1>3. \A x \in Chans : \A i \in Slots(x) : queue[x][i] # sv BY DEF OwnerInv, NoUseAfterClose
<1>4. NoSharing' BY <1>1, <1>2, <1>3 DEF OwnerInv, NoSharing
<1>5. NoUseAfterClose' BY <1>1, <1>2 DEF OwnerInv, NoUseAfterClose
<1> QED BY <1>4, <1>5 DEF OwnerInv

\* Connections stay where they are, or a channel is emptied.
LEMMA OwnSame ==
    ASSUME TypeInv, OwnerInv, UNCHANGED <<open, hand>>,
           \A x \in Chans : queue'[x] = queue[x] \/ queue'[x] = <<>>
    PROVE  OwnerInv'
<1>1. Holders' = Holders BY DEF Holders
<1>2. \A x \in Chans : \A i \in Slots(x)' : i \in Slots(x) /\ queue'[x][i] = queue[x][i]
  BY DEF Slots
<1>3. NoSharing' BY <1>1, <1>2 DEF OwnerInv, NoSharing
<1>4. NoUseAfterClose' BY <1>1, <1>2 DEF OwnerInv, NoUseAfterClose
<1> QED BY <1>3, <1>4 DEF OwnerInv

\* The steps of a client keep OwnerInv.
LEMMA OwnClient ==
    ASSUME TypeInv, OwnerInv, NEW c \in Clients,
           \/ \E h \in Hosts, d \in BOOLEAN : GetLookup(c, h, d)
           \/ \E sv \in Conns : Dial(c, sv)
           \/ DialFails(c)
           \/ Discard(c)
           \/ \E keepAlive \in BOOLEAN : PutLookup(c, keepAlive)
           \/ ClientStep(c)
    PROVE  OwnerInv'
<1>1. CASE \E h \in Hosts, d \in BOOLEAN : GetLookup(c, h, d)
  BY <1>1, OwnSame DEF GetLookup, poolVars, connVars
<1>2. CASE \E sv \in Conns : Dial(c, sv) BY <1>2, OwnDial DEF Dial, poolVars
<1>3. CASE DialFails(c) BY <1>3, OwnSame DEF DialFails, poolVars, connVars
<1>4. CASE Discard(c)
  <2>1. hand[c] # NoConn BY <1>4 DEF Discard, TypeInv, HandOK, HoldingPC
  <2> QED BY <1>4, <2>1, OwnClose DEF Discard, poolVars
<1>5. CASE \E keepAlive \in BOOLEAN : PutLookup(c, keepAlive)
  BY <1>5, OwnSame DEF PutLookup, poolVars
<1>6. CASE GetRecv(c)
  <2>1. chan[c] \in Chans /\ queue[chan[c]] # <<>> /\ Recv(chan[c])
    BY <1>6, ProcKinds DEF GetRecv, TypeInv, ChanOK
  <2>2. hand[c] = NoConn BY <1>6 DEF GetRecv, TypeInv, HandOK, HoldingPC
  <2>3. \/ Close(Head(queue[chan[c]])) /\ UNCHANGED hand
        \/ hand' = [hand EXCEPT ![c] = Head(queue[chan[c]])] /\ UNCHANGED open
    BY <1>6 DEF GetRecv, connVars
  <2> QED BY <2>1, <2>2, <2>3, OwnRecvClose, OwnRecvTake
<1>7. CASE GetEmpty(c) BY <1>7, OwnSame DEF GetEmpty, poolVars, connVars
<1>8. CASE PutCreate(c)
  <2>1. UNCHANGED <<open, hand>> BY <1>8 DEF PutCreate, connVars
  <2>2. \A x \in Chans : queue'[x] = queue[x] \/ queue'[x] = <<>>
    BY <1>8, ProcKinds DEF PutCreate, poolVars, TypeInv, TypeOK
  <2> QED BY <2>1, <2>2, OwnSame
<1>9. CASE PutStart(c) BY <1>9, OwnSame DEF PutStart, poolVars, connVars
<1>10. CASE PutSend(c)
  <2>1. chan[c] \in Chans /\ hand[c] # NoConn
    BY <1>10, ProcKinds DEF PutSend, TypeInv, ChanOK, HandOK, HoldingPC
  <2>2. \/ SendTo(chan[c], hand[c]) /\ UNCHANGED open
        \/ Close(hand[c]) /\ UNCHANGED queue
    BY <1>10 DEF PutSend, connVars
  <2>3. hand' = [hand EXCEPT ![c] = NoConn] BY <1>10 DEF PutSend
  <2> QED BY <2>1, <2>2, <2>3, OwnSend, OwnClose
<1> QED BY <1>1, <1>2, <1>3, <1>4, <1>5, <1>6, <1>7, <1>8, <1>9, <1>10 DEF ClientStep

\* The steps of a scan keep OwnerInv.
LEMMA OwnScan ==
    ASSUME TypeInv, OwnerInv, NEW p \in Scanners, ScanStep(p)
    PROVE  OwnerInv'
<1>1. CASE ScanClose(p)
  <2>1. /\ ScanChan(p) \in Chans /\ queue[ScanChan(p)] # <<>> /\ Recv(ScanChan(p))
        /\ Close(Head(queue[ScanChan(p)])) /\ UNCHANGED hand
    BY <1>1, ScanFacts DEF ScanClose
  <2> QED BY <2>1, OwnRecvClose
<1>2. CASE ScanKeep(p)
  <2>1. p \notin Closers BY <1>2 DEF ScanKeep, Forced
  <2>2. p \in Chans /\ hand[p] = NoConn BY <1>2, <2>1 DEF ScanKeep, Scanners, TypeInv, HandOK
  <2>3. /\ ScanChan(p) \in Chans /\ queue[ScanChan(p)] # <<>> /\ Recv(ScanChan(p))
        /\ hand' = [hand EXCEPT ![p] = Head(queue[ScanChan(p)])] /\ UNCHANGED open
    BY <1>2, ScanFacts DEF ScanKeep, connVars
  <2> QED BY <2>2, <2>3, OwnRecvTake
<1>3. CASE ScanPutBack(p)
  <2>1. p \in Chans /\ ScanChan(p) \in Chans BY <1>3, ScanFacts DEF ScanPutBack
  <2>2. hand[p] # NoConn BY <1>3, <2>1 DEF ScanPutBack, TypeInv, HandOK
  <2> QED BY <1>3, <2>1, <2>2, OwnSend DEF ScanPutBack, connVars
<1>4. CASE ScanEmpty(p) BY <1>4, OwnSame DEF ScanEmpty, poolVars, connVars
<1>5. CASE ScanRemove(p) BY <1>5, OwnSame DEF ScanRemove, connVars
<1> QED BY <1>1, <1>2, <1>3, <1>4, <1>5 DEF ScanStep

\* Every step keeps OwnerInv.
LEMMA OwnNext == ASSUME TypeInv, OwnerInv, [Next]_vars PROVE OwnerInv'
<1>1. ASSUME NEW ch \in Chans, CleanerStep(ch) PROVE OwnerInv'
  <2>1. CASE ScanStep(ch) BY <2>1, OwnScan DEF Scanners
  <2>2. CASE CleanerWake(ch) BY <2>2, OwnSame DEF CleanerWake, poolVars, connVars
  <2>3. CASE CleanerFinal(ch) BY <2>3, OwnSame DEF CleanerFinal, poolVars, connVars
  <2>4. CASE CleanerDrain(ch) BY <2>4, OwnRecvClose DEF CleanerDrain
  <2>5. CASE CleanerDone(ch) BY <2>5, OwnSame DEF CleanerDone, poolVars, connVars
  <2> QED BY <1>1, <2>1, <2>2, <2>3, <2>4, <2>5 DEF CleanerStep
<1>2. ASSUME NEW k \in Closers, CloseAllStart(k) \/ CloserStep(k) PROVE OwnerInv'
  <2>1. CASE ScanStep(k) BY <2>1, OwnScan DEF Scanners
  <2>2. CASE CloseAllStart(k) BY <2>2, OwnSame DEF CloseAllStart, poolVars, connVars
  <2>3. CASE \E ch \in Chans : CloseAllNext(k, ch)
    BY <2>3, OwnSame DEF CloseAllNext, poolVars, connVars
  <2>4. CASE CloseAllDone(k) BY <2>4, OwnSame DEF CloseAllDone, poolVars, connVars
  <2> QED BY <1>2, <2>1, <2>2, <2>3, <2>4 DEF CloserStep
<1>3. ASSUME NEW sv \in Conns, Expire(sv) PROVE OwnerInv'
  BY <1>3, OwnSame DEF Expire, poolVars
<1>4. ASSUME UNCHANGED vars PROVE OwnerInv'
  BY <1>4, OwnSame DEF vars, poolVars, connVars
<1> QED BY <1>1, <1>2, <1>3, <1>4, OwnClient DEF Next

\* Whatever the clients, the cleanups and CloseAll do, a connection is never in
\* two places.
THEOREM OneOwner == Spec => []NoSharing
<1>1. Init => OwnerInv
  BY ConstAssumption DEF Init, OwnerInv, NoSharing, NoUseAfterClose, Holders, Slots, Chans
<1>2. TypeInv /\ OwnerInv /\ [Next]_vars => OwnerInv' BY OwnNext
<1>3. OwnerInv => NoSharing BY DEF OwnerInv
<1> QED BY <1>1, <1>2, <1>3, TypeCorrect, PTL DEF Spec

\* A connection that has been closed is in no channel and in nobody's hands.
THEOREM ClosedIsGone == Spec => []NoUseAfterClose
<1>1. Init => OwnerInv
  BY ConstAssumption DEF Init, OwnerInv, NoSharing, NoUseAfterClose, Holders, Slots, Chans
<1>2. TypeInv /\ OwnerInv /\ [Next]_vars => OwnerInv' BY OwnNext
<1>3. OwnerInv => NoUseAfterClose BY DEF OwnerInv
<1> QED BY <1>1, <1>2, <1>3, TypeCorrect, PTL DEF Spec

-----------------------------------------------------------------------------
(* What leaves the map *)

\* Only a goroutine that has found the mapped channel empty takes it out of the
\* map, and no step puts another channel in its place.
THEOREM MapSafety == Spec => RemovesOwnChannel
<1>1. ASSUME TypeInv, Next PROVE OwnChannelStep
  <2>1. CASE UNCHANGED idleConn BY <2>1 DEF OwnChannelStep
  <2>2. ASSUME NEW c \in Clients, PutCreate(c) PROVE OwnChannelStep
    <3>1. hand[c] \in Conns BY <1>1, <2>2 DEF PutCreate, TypeInv, TypeOK, HandOK, HoldingPC
    <3>2. HostPort[hand[c]] \in Hosts BY <3>1, ConstAssumption
    <3>3. \/ UNCHANGED idleConn
          \/ /\ idleConn[HostPort[hand[c]]] = NoChan
             /\ \E ch \in SiteChans : idleConn' = [idleConn EXCEPT ![HostPort[hand[c]]] = ch]
      BY <2>2 DEF PutCreate, poolVars
    <3> QED BY <1>1, <3>2, <3>3 DEF OwnChannelStep, TypeInv, TypeOK
  <2>3. ASSUME NEW p \in Scanners, ScanRemove(p) PROVE OwnChannelStep
    <3>1. /\ pc[p] = "remove"
          /\ idleConn' = IF idleConn[chanHost[ScanChan(p)]] = ScanChan(p)
                         THEN [idleConn EXCEPT ![chanHost[ScanChan(p)]] = NoChan] ELSE idleConn
      BY <2>3 DEF ScanRemove
    <3> QED BY <1>1, <3>1 DEF OwnChannelStep, TypeInv, TypeOK
  <2>4. ASSUME NEW p \in Scanners, ScanStep(p), ~ScanRemove(p) PROVE UNCHANGED idleConn
    BY <2>4 DEF ScanStep, ScanClose, ScanKeep, ScanPutBack, ScanEmpty, poolVars
  <2>5. ASSUME NEW c \in Clients,
               \/ \E h \in Hosts, d \in BOOLEAN : GetLookup(c, h, d)
               \/ \E sv \in Conns : Dial(c, sv)
               \/ DialFails(c)
               \/ Discard(c)
               \/ \E keepAlive \in BOOLEAN : PutLookup(c, keepAlive)
               \/ ClientStep(c)
        PROVE  OwnChannelStep
    <3>1. CASE PutCreate(c) BY <3>1, <2>2
    <3>2. CASE ~PutCreate(c)
      BY <2>1, <2>5, <3>2 DEF GetLookup, Dial, DialFails, Discard, PutLookup, ClientStep, GetRecv,
         GetEmpty, PutStart, PutSend, poolVars
    <3> QED BY <3>1, <3>2
  <2>6. ASSUME NEW ch \in Chans, CleanerStep(ch) PROVE OwnChannelStep
    <3>1. CASE ScanStep(ch) BY <2>1, <2>3, <2>4, <3>1 DEF Scanners
    <3>2. CASE ~ScanStep(ch)
      BY <2>1, <2>6, <3>2 DEF CleanerStep, CleanerWake, CleanerFinal, CleanerDrain, CleanerDone, poolVars
    <3> QED BY <3>1, <3>2
  <2>7. ASSUME NEW k \in Closers, CloseAllStart(k) \/ CloserStep(k) PROVE OwnChannelStep
    <3>1. CASE ScanStep(k) BY <2>1, <2>3, <2>4, <3>1 DEF Scanners
    <3>2. CASE ~ScanStep(k)
      BY <2>1, <2>7, <3>2 DEF CloserStep, CloseAllStart, CloseAllNext, CloseAllDone, poolVars
    <3> QED BY <3>1, <3>2
  <2>8. ASSUME NEW sv \in Conns, Expire(sv) PROVE OwnChannelStep
    BY <2>1, <2>8 DEF Expire, poolVars
  <2> QED BY <1>1, <2>5, <2>6, <2>7, <2>8 DEF Next
<1>2. TypeInv /\ [Next]_vars => [OwnChannelStep]_vars BY <1>1
<1> QED BY <1>2, TypeCorrect, PTL DEF Spec, RemovesOwnChannel

-----------------------------------------------------------------------------
(* Get serves the request *)

\* A connection belongs in a channel: the multiplexed ones in muxConn, the others
\* in the channel of their hostPort.
Belongs(sv, ch) ==
    IF ch = MuxChan THEN IsMux(sv) ELSE ~IsMux(sv) /\ HostPort[sv] = chanHost[ch]

\* The contents of the channels: every connection is in a channel it belongs in.
ContentsOK == \A ch \in Chans : \A i \in Slots(ch) : Belongs(queue[ch][i], ch)

\* What the cleanups hold and will put back.
PutBackOK == \A ch \in Chans : pc[ch] = "putback" => Belongs(hand[ch], ch)

\* The channel in which a client looks for a connection is one for its request.
GetOK ==
    \A c \in Clients :
        /\ pc[c] = "getSite" => chanHost[chan[c]] = want[c]
        /\ pc[c] = "getMux" => (c \in asDirect => AlwaysProxy)

RouteInv == ContentsOK /\ PutBackOK /\ GetOK /\ ServesRequest

\* A receive adds nothing to the contents of a channel.
LEMMA ContentsRecv ==
    ASSUME TypeInv, RouteInv, NEW ch \in Chans, queue[ch] # <<>>, Recv(ch), UNCHANGED chanHost
    PROVE  ContentsOK' /\ Belongs(Head(queue[ch]), ch)
<1>1. Belongs(Head(queue[ch]), ch) BY RecvSlots DEF RouteInv, ContentsOK
<1>2. ContentsOK'
  <2>1. SUFFICES ASSUME NEW x \in Chans, NEW i \in Slots(x)' PROVE Belongs(queue[x][i], x)'
    BY DEF ContentsOK
  <2>2. Before(ch, x, i) \in Slots(x) /\ queue'[x][i] = queue[x][Before(ch, x, i)] BY RecvSlots
  <2>3. Belongs(queue[x][Before(ch, x, i)], x) BY <2>2 DEF RouteInv, ContentsOK
  <2> QED BY <2>2, <2>3 DEF Belongs, IsMux
<1> QED BY <1>1, <1>2

\* A send adds only the connection that is sent.
LEMMA ContentsSend ==
    ASSUME TypeInv, RouteInv, NEW ch \in Chans, NEW sv \in Conns, SendTo(ch, sv), Belongs(sv, ch),
           UNCHANGED chanHost
    PROVE  ContentsOK'
<1>1. SUFFICES ASSUME NEW x \in Chans, NEW i \in Slots(x)' PROVE Belongs(queue[x][i], x)'
  BY DEF ContentsOK
<1>2. Belongs(queue'[x][i], x)
  <2>1. CASE x = ch
    <3>1. queue[ch] \in Seq(Conns) /\ queue'[ch] = Append(queue[ch], sv) BY DEF SendTo, TypeInv, TypeOK
    <3>2. queue'[ch][i] = sv \/ (i \in Slots(ch) /\ queue'[ch][i] = queue[ch][i])
      BY <2>1, <3>1, QueueSend DEF Slots
    <3> QED BY <2>1, <3>2 DEF RouteInv, ContentsOK
  <2>2. CASE x # ch
    <3>1. queue'[x] = queue[x] BY <2>2 DEF SendTo, TypeInv, TypeOK
    <3> QED BY <3>1 DEF RouteInv, ContentsOK, Slots
  <2> QED BY <2>1, <2>2
<1> QED BY <1>2 DEF Belongs, IsMux

\* The contents are the same when the channels are.
LEMMA ContentsSame ==
    ASSUME RouteInv, UNCHANGED <<queue, chanHost>>
    PROVE  ContentsOK'
  BY DEF RouteInv, ContentsOK, Slots, Belongs, IsMux

\* A step of a cleanup or of CloseAll that changes no channel's host keeps what
\* RouteInv says of clients.
LEMMA RouteClientsSame ==
    ASSUME TypeInv, RouteInv, UNCHANGED <<chanHost, want, asDirect>>,
           \A c \in Clients : pc'[c] = pc[c] /\ chan'[c] = chan[c] /\ hand'[c] = hand[c]
    PROVE  GetOK' /\ ServesRequest'
  BY DEF RouteInv, GetOK, ServesRequest, IsMux

\* The steps of a scan keep RouteInv.
LEMMA RouteScan ==
    ASSUME TypeInv, RouteInv, NEW p \in Scanners, ScanStep(p)
    PROVE  RouteInv'
<1>0. p \in Procs /\ p \notin Clients BY ScanFacts
<1>1. /\ UNCHANGED <<chanHost, chan, want, asDirect>>
      /\ \A q \in Procs : q # p => pc'[q] = pc[q]
  BY <1>0 DEF ScanStep, ScanClose, ScanKeep, ScanPutBack, ScanEmpty, ScanRemove, Iterated, poolVars,
     reqVars, TypeInv, TypeOK
<1>2. \A c \in Clients : pc'[c] = pc[c] /\ chan'[c] = chan[c] /\ hand'[c] = hand[c]
  <2>1. \A c \in Clients : c # p /\ c \in Procs BY <1>0, ProcKinds
  <2>2. \A c \in Clients : hand'[c] = hand[c]
    BY <2>1 DEF ScanStep, ScanClose, ScanKeep, ScanPutBack, ScanEmpty, ScanRemove, TypeInv, TypeOK
  <2> QED BY <1>1, <2>1, <2>2
<1>3. GetOK' /\ ServesRequest' BY <1>1, <1>2, RouteClientsSame
<1>4. ContentsOK' /\ PutBackOK'
  <2>1. CASE ScanClose(p)
    <3>1. /\ ScanChan(p) \in Chans /\ queue[ScanChan(p)] # <<>> /\ Recv(ScanChan(p)) /\ UNCHANGED hand
          /\ pc[p] = "scan" /\ Iterated(p)
      BY <2>1, ScanFacts DEF ScanClose
    <3>2. pc'[p] # "putback" BY <3>1, IteratedFacts
    <3>3. PutBackOK' BY <1>1, <3>1, <3>2, ProcKinds DEF RouteInv, PutBackOK, Belongs, IsMux
    <3> QED BY <1>1, <3>1, <3>3, ContentsRecv
  <2>2. CASE ScanKeep(p)
    <3>1. p \notin Closers BY <2>2 DEF ScanKeep, Forced
    <3>2. p \in Chans /\ ScanChan(p) = p BY <3>1 DEF Scanners, ScanChan
    <3>3. /\ queue[p] # <<>> /\ Recv(p) /\ hand' = [hand EXCEPT ![p] = Head(queue[p])]
      BY <2>2, <3>2 DEF ScanKeep
    <3>4. ContentsOK' /\ Belongs(Head(queue[p]), p) BY <1>1, <3>2, <3>3, ContentsRecv
    <3>5. PutBackOK'
      BY <1>1, <3>2, <3>3, <3>4, ProcKinds DEF RouteInv, PutBackOK, Belongs, IsMux, TypeInv, TypeOK
    <3> QED BY <3>4, <3>5
  <2>3. CASE ScanPutBack(p)
    <3>1. p \in Chans /\ ScanChan(p) = p /\ pc[p] = "putback" /\ Iterated(p)
      BY <2>3, ScanFacts DEF ScanPutBack, ScanChan
    <3>2. /\ SendTo(p, hand[p]) /\ hand[p] \in Conns /\ Belongs(hand[p], p)
          /\ hand' = [hand EXCEPT ![p] = NoConn]
      BY <2>3, <3>1 DEF ScanPutBack, RouteInv, PutBackOK, TypeInv, TypeOK, HandOK
    <3>3. pc'[p] # "putback" BY <3>1, IteratedFacts
    <3>4. PutBackOK'
      BY <1>1, <3>1, <3>2, <3>3, ProcKinds DEF RouteInv, PutBackOK, Belongs, IsMux, TypeInv, TypeOK
    <3> QED BY <1>1, <3>1, <3>2, <3>4, ContentsSend
  <2>4. CASE ScanEmpty(p) \/ ScanRemove(p)
    <3>1. UNCHANGED <<queue, hand>> BY <2>4 DEF ScanEmpty, ScanRemove, poolVars
    <3>2. p \in Chans => pc'[p] # "putback"
      <4>1. p \in Chans => AfterScan(p, TRUE) = "final" BY ScanFacts
      <4> QED BY <1>0, <2>4, <4>1 DEF ScanEmpty, ScanRemove, TypeInv, TypeOK
    <3>3. PutBackOK' BY <1>1, <3>1, <3>2, ProcKinds DEF RouteInv, PutBackOK, Belongs, IsMux
    <3> QED BY <1>1, <3>1, <3>3, ContentsSame
  <2> QED BY <2>1, <2>2, <2>3, <2>4 DEF ScanStep
<1> QED BY <1>3, <1>4 DEF RouteInv

\* A step that moves nothing in the pool and no client.
LEMMA RouteSame ==
    ASSUME TypeInv, RouteInv, UNCHANGED <<queue, chanHost, hand, want, asDirect>>,
           \A c \in Clients : pc'[c] = pc[c] /\ chan'[c] = chan[c],
           \A ch \in Chans : pc'[ch] = "putback" => pc[ch] = "putback"
    PROVE  RouteInv'
<1>1. PutBackOK' BY DEF RouteInv, PutBackOK, Belongs, IsMux
<1> QED BY <1>1, ContentsSame, RouteClientsSame DEF RouteInv

\* The steps of closeStaleServerConn keep RouteInv.
LEMMA RouteCleaner ==
    ASSUME TypeInv, RouteInv, NEW ch \in Chans,
           CleanerWake(ch) \/ CleanerFinal(ch) \/ CleanerDrain(ch) \/ CleanerDone(ch)
    PROVE  RouteInv'
<1>0. ch \in Procs /\ ch \notin Clients BY ProcKinds
<1>1. /\ UNCHANGED <<chanHost, chan, hand, want, asDirect>>
      /\ \A q \in Procs : q # ch => pc'[q] = pc[q]
      /\ pc'[ch] # "putback"
  BY <1>0 DEF CleanerWake, CleanerFinal, CleanerDrain, CleanerDone, poolVars, reqVars, TypeInv, TypeOK
<1>2. \A c \in Clients : pc'[c] = pc[c] /\ chan'[c] = chan[c] BY <1>0, <1>1, ProcKinds
<1>3. \A x \in Chans : pc'[x] = "putback" => pc[x] = "putback" BY <1>1, ProcKinds
<1>4. CASE CleanerDrain(ch)
  <2>1. ContentsOK' BY <1>1, <1>4, ContentsRecv DEF CleanerDrain
  <2>2. PutBackOK' BY <1>1, <1>3 DEF RouteInv, PutBackOK, Belongs, IsMux
  <2> QED BY <1>1, <1>2, <2>1, <2>2, RouteClientsSame DEF RouteInv
<1>5. CASE CleanerWake(ch) \/ CleanerFinal(ch) \/ CleanerDone(ch)
  <2>1. UNCHANGED queue BY <1>5 DEF CleanerWake, CleanerFinal, CleanerDone, poolVars
  <2> QED BY <1>1, <1>2, <1>3, <2>1, RouteSame
<1> QED BY <1>4, <1>5

\* The steps of CloseAll keep RouteInv.
LEMMA RouteCloseAll ==
    ASSUME TypeInv, RouteInv, NEW k \in Closers,
           CloseAllStart(k) \/ (\E ch \in Chans : CloseAllNext(k, ch)) \/ CloseAllDone(k)
    PROVE  RouteInv'
<1>0. k \in Procs /\ k \notin Clients /\ k \notin Chans BY ProcKinds
<1>1. /\ UNCHANGED <<queue, chanHost, hand, want, asDirect>>
      /\ \A q \in Procs : q # k => pc'[q] = pc[q]
  BY <1>0 DEF CloseAllStart, CloseAllNext, CloseAllDone, poolVars, reqVars, TypeInv, TypeOK
<1>2. \A q \in Clients : chan'[q] = chan[q]
  BY <1>0 DEF CloseAllStart, CloseAllNext, CloseAllDone, TypeInv, TypeOK
<1> QED BY <1>0, <1>1, <1>2, ProcKinds, RouteSame

\* A step of client c: the cleanups and the other clients are not concerned.
LEMMA RouteOthersSame ==
    ASSUME TypeInv, RouteInv, NEW c \in Clients,
           \A x \in Clients : x # c =>
               /\ pc'[x] = pc[x] /\ hand'[x] = hand[x] /\ chan'[x] = chan[x] /\ want'[x] = want[x]
               /\ x \in asDirect' <=> x \in asDirect
               /\ pc[x] = "getSite" => chanHost'[chan[x]] = chanHost[chan[x]],
           /\ pc'[c] = "getSite" => chanHost'[chan'[c]] = want'[c]
           /\ pc'[c] = "getMux" => (c \in asDirect' => AlwaysProxy)
           /\ pc'[c] = "using" => \/ HostPort[hand'[c]] = want'[c]
                                  \/ IsMux(hand'[c]) /\ (c \in asDirect' => AlwaysProxy)
    PROVE  GetOK' /\ ServesRequest'
<1>1. ASSUME NEW x \in Clients
      PROVE  /\ pc'[x] = "getSite" => chanHost'[chan'[x]] = want'[x]
             /\ pc'[x] = "getMux" => (x \in asDirect' => AlwaysProxy)
  BY DEF RouteInv, GetOK
<1>2. ASSUME NEW x \in Clients, pc'[x] = "using"
      PROVE  \/ HostPort[hand'[x]] = want'[x]
             \/ IsMux(hand'[x]) /\ (x \in asDirect' => AlwaysProxy)
  BY <1>2 DEF RouteInv, ServesRequest
<1> QED BY <1>1, <1>2 DEF GetOK, ServesRequest, IsMux

\* The steps of a client keep RouteInv.
LEMMA RouteClient ==
    ASSUME TypeInv, RouteInv, NEW c \in Clients,
           \/ \E h \in Hosts, d \in BOOLEAN : GetLookup(c, h, d)
           \/ \E sv \in Conns : Dial(c, sv)
           \/ DialFails(c)
           \/ Discard(c)
           \/ \E keepAlive \in BOOLEAN : PutLookup(c, keepAlive)
           \/ ClientStep(c)
    PROVE  RouteInv'
<1>0. c \in Procs /\ c \notin Chans /\ \A ch \in Chans : ch \in Procs /\ ch # c /\ ch \notin Clients
  BY ProcKinds
<1>a. ASSUME \A q \in Procs : q # c => pc'[q] = pc[q], \A ch \in Chans : hand'[ch] = hand[ch],
             UNCHANGED chanHost
      PROVE  PutBackOK'
  BY <1>0, <1>a DEF RouteInv, PutBackOK, Belongs, IsMux
<1>1. ASSUME NEW h \in Hosts, NEW d \in BOOLEAN, GetLookup(c, h, d) PROVE RouteInv'
  <2>1. /\ UNCHANGED <<queue, chanHost, hand>> /\ \A q \in Procs : q # c => pc'[q] = pc[q]
        /\ \A x \in Clients : x # c =>
             chan'[x] = chan[x] /\ want'[x] = want[x] /\ (x \in asDirect' <=> x \in asDirect)
    BY <1>0, <1>1 DEF GetLookup, poolVars, TypeInv, TypeOK
  <2>2. /\ want'[c] = h /\ (c \in asDirect' <=> d)
        /\ pc'[c] \in {"getSite", "dial", "getMux"}
        /\ pc'[c] = "getSite" => chan'[c] = idleConn[h] /\ idleConn[h] # NoChan
        /\ pc'[c] = "getMux" => (d => AlwaysProxy)
    BY <1>0, <1>1 DEF GetLookup, AfterSite, TypeInv, TypeOK
  <2>3. idleConn[h] # NoChan => chanHost[idleConn[h]] = h BY DEF TypeInv, ChanOK
  <2>4. GetOK' /\ ServesRequest' BY <2>1, <2>2, <2>3, ProcKinds, RouteOthersSame
  <2> QED BY <1>a, <2>1, <2>4, ContentsSame DEF RouteInv
<1>2. ASSUME NEW sv \in Conns, Dial(c, sv) PROVE RouteInv'
  <2>1. /\ UNCHANGED <<queue, chanHost, chan, want, asDirect>>
        /\ \A q \in Procs : q # c => pc'[q] = pc[q]
        /\ \A x \in Clients \cup Chans : x # c => hand'[x] = hand[x]
        /\ pc'[c] = "using" /\ hand'[c] = sv /\ HostPort[sv] = want[c]
    BY <1>0, <1>2 DEF Dial, poolVars, reqVars, TypeInv, TypeOK
  <2>2. GetOK' /\ ServesRequest' BY <2>1, ProcKinds, RouteOthersSame
  <2> QED BY <1>0, <1>a, <2>1, <2>2, ContentsSame DEF RouteInv
<1>3. CASE DialFails(c) \/ Discard(c) \/ \E keepAlive \in BOOLEAN : PutLookup(c, keepAlive)
  <2>1. /\ UNCHANGED <<queue, chanHost>> /\ \A q \in Procs : q # c => pc'[q] = pc[q]
        /\ \A x \in Clients \cup Chans : x # c => hand'[x] = hand[x]
        /\ \A x \in Clients : x # c => chan'[x] = chan[x]
    BY <1>0, <1>3 DEF DialFails, Discard, PutLookup, poolVars, TypeInv, TypeOK
  <2>2. \A x \in Clients : x # c => want'[x] = want[x] /\ (x \in asDirect' <=> x \in asDirect)
    BY <1>3 DEF DialFails, Discard, PutLookup, RequestOver, TypeInv, TypeOK
  <2>3. pc'[c] \in {"idle", "create", "send"}
    BY <1>0, <1>3 DEF DialFails, Discard, PutLookup, TypeInv, TypeOK
  <2>4. GetOK' /\ ServesRequest' BY <2>1, <2>2, <2>3, ProcKinds, RouteOthersSame
  <2> QED BY <1>0, <1>a, <2>1, <2>4, ContentsSame DEF RouteInv
<1>4. CASE GetRecv(c)
  <2>1. /\ chan[c] \in Chans /\ queue[chan[c]] # <<>> /\ Recv(chan[c])
        /\ UNCHANGED <<chanHost, want, asDirect>>
    BY <1>4, ProcKinds DEF GetRecv, reqVars, TypeInv, ChanOK
  <2>2. ContentsOK' /\ Belongs(Head(queue[chan[c]]), chan[c]) BY <2>1, ContentsRecv
  <2>3. CASE UNCHANGED <<pc, chan, hand>>
    <3>1. PutBackOK' BY <2>1, <2>3, <1>a
    <3> QED BY <2>1, <2>2, <2>3, <3>1, RouteClientsSame DEF RouteInv
  <2>4. CASE /\ hand' = [hand EXCEPT ![c] = Head(queue[chan[c]])]
             /\ pc' = [pc EXCEPT ![c] = "using"]
             /\ chan' = [chan EXCEPT ![c] = NoChan]
    <3>1. /\ \A q \in Procs : q # c => pc'[q] = pc[q]
          /\ \A x \in Clients \cup Chans : x # c => hand'[x] = hand[x]
          /\ \A x \in Clients : x # c => chan'[x] = chan[x]
          /\ pc'[c] = "using" /\ hand'[c] = Head(queue[chan[c]])
      BY <1>0, <2>4 DEF TypeInv, TypeOK
    <3>2. CASE pc[c] = "getSite"
      <4>1. chan[c] # MuxChan /\ chanHost[chan[c]] = want[c]
        BY <3>2, ProcKinds DEF TypeInv, ChanOK, RouteInv, GetOK
      <4>2. HostPort[Head(queue[chan[c]])] = want[c] BY <2>2, <4>1 DEF Belongs
      <4>3. GetOK' /\ ServesRequest' BY <2>1, <3>1, <4>2, ProcKinds, RouteOthersSame
      <4> QED BY <1>0, <1>a, <2>1, <2>2, <3>1, <4>3 DEF RouteInv
    <3>3. CASE pc[c] = "getMux"
      <4>1. chan[c] = MuxChan /\ (c \in asDirect => AlwaysProxy)
        BY <3>3 DEF TypeInv, ChanOK, RouteInv, GetOK
      <4>2. IsMux(Head(queue[chan[c]])) BY <2>2, <4>1 DEF Belongs
      <4>3. IsMux(hand'[c]) BY <3>1, <4>2
      <4>4. GetOK' /\ ServesRequest' BY <2>1, <3>1, <4>1, <4>3, ProcKinds, RouteOthersSame
      <4> QED BY <1>0, <1>a, <2>1, <2>2, <3>1, <4>4 DEF RouteInv
    <3> QED BY <1>4, <3>2, <3>3 DEF GetRecv
  <2> QED BY <1>4, <2>3, <2>4 DEF GetRecv
<1>5. CASE GetEmpty(c)
  <2>1. /\ UNCHANGED <<queue, chanHost, hand, want, asDirect>>
        /\ \A q \in Procs : q # c => pc'[q] = pc[q]
        /\ \A x \in Clients : x # c => chan'[x] = chan[x]
    BY <1>0, <1>5 DEF GetEmpty, poolVars, reqVars, TypeInv, TypeOK
  <2>2. pc'[c] \in {"dial", "getMux"} /\ (pc'[c] = "getMux" => (c \in asDirect => AlwaysProxy))
    BY <1>0, <1>5 DEF GetEmpty, AfterSite, TypeInv, TypeOK
  <2>3. GetOK' /\ ServesRequest' BY <2>1, <2>2, ProcKinds, RouteOthersSame
  <2> QED BY <1>a, <2>1, <2>3, ContentsSame DEF RouteInv
<1>6. CASE PutCreate(c)
  <2>1. /\ UNCHANGED <<hand, want, asDirect>> /\ \A q \in Procs : q # c => pc'[q] = pc[q]
        /\ \A x \in Clients : x # c => chan'[x] = chan[x]
        /\ pc'[c] \in {"send", "start"}
    BY <1>0, <1>6 DEF PutCreate, reqVars, TypeInv, TypeOK
  <2>2. CASE UNCHANGED <<queue, chanHost>>
    <3>1. GetOK' /\ ServesRequest' BY <2>1, <2>2, ProcKinds, RouteOthersSame
    <3> QED BY <1>a, <2>1, <2>2, <3>1, ContentsSame DEF RouteInv
  <2>3. CASE \E ch \in SiteChans : /\ Garbage(ch)
                                   /\ chanHost' = [chanHost EXCEPT ![ch] = HostPort[hand[c]]]
                                   /\ queue' = [queue EXCEPT ![ch] = <<>>]
    <3>1. PICK ch \in SiteChans : /\ Garbage(ch)
                                  /\ chanHost' = [chanHost EXCEPT ![ch] = HostPort[hand[c]]]
                                  /\ queue' = [queue EXCEPT ![ch] = <<>>]
      BY <2>3
    <3>2. /\ ch \in Chans /\ ch # MuxChan /\ pc[ch] = "off" /\ pc'[ch] = "off"
          /\ \A x \in Clients : chan[x] # ch
      BY <1>0, <2>1, <3>1, ProcKinds DEF Garbage
    <3>3. /\ \A x \in Chans : x # ch => queue'[x] = queue[x]
          /\ \A x \in SiteChans : x # ch => chanHost'[x] = chanHost[x]
          /\ queue'[ch] = <<>>
      BY <3>1, <3>2 DEF TypeInv, TypeOK
    <3>5. ContentsOK'
      <4>1. SUFFICES ASSUME NEW x \in Chans, NEW i \in Slots(x)' PROVE Belongs(queue[x][i], x)'
        BY DEF ContentsOK
      <4>2. x # ch BY <3>3 DEF Slots
      <4>3. i \in Slots(x) /\ queue'[x][i] = queue[x][i] BY <3>3, <4>2 DEF Slots
      <4>4. Belongs(queue[x][i], x) BY <4>3 DEF RouteInv, ContentsOK
      <4>5. x # MuxChan => chanHost'[x] = chanHost[x] BY <3>3, <4>2, ProcKinds
      <4> QED BY <4>3, <4>4, <4>5 DEF Belongs, IsMux
    <3>6. PutBackOK'
      <4>1. SUFFICES ASSUME NEW x \in Chans, pc'[x] = "putback" PROVE Belongs(hand[x], x)'
        BY DEF PutBackOK
      <4>2. x # ch /\ pc[x] = "putback" BY <1>0, <2>1, <3>2, <4>1
      <4>3. Belongs(hand[x], x) BY <4>2 DEF RouteInv, PutBackOK
      <4>4. x # MuxChan => chanHost'[x] = chanHost[x] BY <3>3, <4>2, ProcKinds
      <4> QED BY <2>1, <4>3, <4>4 DEF Belongs, IsMux
    <3>7. \A x \in Clients : pc[x] = "getSite" => chanHost'[chan[x]] = chanHost[chan[x]]
      BY <3>2, <3>3 DEF TypeInv, ChanOK
    <3>8. GetOK' /\ ServesRequest' BY <2>1, <3>7, ProcKinds, RouteOthersSame
    <3> QED BY <3>5, <3>6, <3>8 DEF RouteInv
  <2> QED BY <1>6, <2>2, <2>3 DEF PutCreate, poolVars
<1>7. CASE PutStart(c)
  <2>1. /\ UNCHANGED <<queue, chanHost, hand, want, asDirect, chan>>
        /\ pc[c] = "start" /\ chan[c] \in SiteChans /\ chan[c] \in Procs /\ chan[c] # c
    BY <1>0, <1>7, ProcKinds DEF PutStart, poolVars, reqVars, TypeInv, ChanOK
  <2>2. pc'[c] = "send" /\ pc'[chan[c]] = "sleep"
        /\ \A q \in Procs : q # c /\ q # chan[c] => pc'[q] = pc[q]
    BY <1>0, <1>7, <2>1 DEF PutStart, TypeInv, TypeOK
  <2>3. \A x \in Clients : x # c => pc'[x] = pc[x] BY <2>1, <2>2, ProcKinds
  <2>4. PutBackOK' BY <1>0, <2>1, <2>2 DEF RouteInv, PutBackOK, Belongs, IsMux
  <2>5. GetOK' /\ ServesRequest' BY <2>1, <2>2, <2>3, RouteOthersSame
  <2> QED BY <2>1, <2>4, <2>5, ContentsSame DEF RouteInv
<1>8. CASE PutSend(c)
  <2>1. /\ UNCHANGED <<chanHost, want, asDirect>> /\ \A q \in Procs : q # c => pc'[q] = pc[q]
        /\ \A x \in Clients \cup Chans : x # c => hand'[x] = hand[x]
        /\ \A x \in Clients : x # c => chan'[x] = chan[x]
        /\ pc[c] = "send" /\ pc'[c] = "idle"
    BY <1>0, <1>8 DEF PutSend, reqVars, TypeInv, TypeOK
  <2>2. hand[c] \in Conns /\ chan[c] \in Chans /\ Belongs(hand[c], chan[c])
    BY <2>1, ProcKinds DEF Belongs, TypeInv, TypeOK, HandOK, HoldingPC, ChanOK
  <2>3. ContentsOK'
    <3>1. SendTo(chan[c], hand[c]) \/ UNCHANGED queue BY <1>8 DEF PutSend
    <3> QED BY <2>1, <2>2, <3>1, ContentsSend, ContentsSame
  <2>4. GetOK' /\ ServesRequest' BY <2>1, ProcKinds, RouteOthersSame
  <2> QED BY <1>0, <1>a, <2>1, <2>3, <2>4 DEF RouteInv
<1> QED BY <1>1, <1>2, <1>3, <1>4, <1>5, <1>6, <1>7, <1>8 DEF ClientStep

\* Every step keeps RouteInv.
LEMMA RouteNext == ASSUME TypeInv, RouteInv, [Next]_vars PROVE RouteInv'
<1>1. ASSUME NEW ch \in Chans, CleanerStep(ch) PROVE RouteInv'
  <2>1. ch \in Scanners BY DEF Scanners
  <2> QED BY <1>1, <2>1, RouteScan, RouteCleaner DEF CleanerStep
<1>2. ASSUME NEW k \in Closers, CloseAllStart(k) \/ CloserStep(k) PROVE RouteInv'
  <2>1. k \in Scanners BY DEF Scanners
  <2> QED BY <1>2, <2>1, RouteScan, RouteCloseAll DEF CloserStep
<1>3. ASSUME NEW sv \in Conns, Expire(sv) PROVE RouteInv'
  BY <1>3, RouteSame DEF Expire, poolVars, reqVars
<1>4. ASSUME UNCHANGED vars PROVE RouteInv'
  BY <1>4, RouteSame DEF vars, poolVars, reqVars
<1> QED BY <1>1, <1>2, <1>3, <1>4, RouteClient DEF Next

\* Get hands out only connections that can serve the request.
THEOREM RightConnection == Spec => []ServesRequest
<1>1. Init => RouteInv
  BY ConstAssumption DEF Init, RouteInv, ContentsOK, PutBackOK, GetOK, ServesRequest, Slots, Chans, Procs
<1>2. TypeInv /\ RouteInv /\ [Next]_vars => RouteInv' BY RouteNext
<1>3. RouteInv => ServesRequest BY DEF RouteInv
<1> QED BY <1>1, <1>2, <1>3, TypeCorrect, PTL DEF Spec

-----------------------------------------------------------------------------
(* No connection is lost *)

\* A client is about to start the cleanup of ch, a Put is in progress on ch.
Starting(ch) == \E c \in Clients : pc[c] = "start" /\ chan[c] = ch
Sending(ch) == \E c \in Clients : pc[c] \in {"start", "send"} /\ chan[c] = ch
Mapped(ch) == \E h \in Hosts : idleConn[h] = ch

\* The cleanup of ch runs or is about to be started.
Watched(ch) == pc[ch] = "off" => Starting(ch)

\* A channel in the map has its cleanup, which has not begun its end.
MappedOK == \A ch \in SiteChans : Mapped(ch) => pc[ch] \notin {"final", "drain"} /\ Watched(ch)

\* Nobody sends to a channel that is drained for the last time, or was.
SendOK == \A ch \in SiteChans : Sending(ch) => pc[ch] # "drain" /\ Watched(ch)

\* A channel without cleanup is empty.
EmptyOK == \A ch \in SiteChans : ~Watched(ch) => queue[ch] = <<>>

\* What is open is held or in a channel.
InChan(sv, ch) == \E i \in Slots(ch) : queue[ch][i] = sv
Kept(sv) == (\E p \in Holders : hand[p] = sv) \/ (\E ch \in Chans : InChan(sv, ch))
KeptOK == \A sv \in open : Kept(sv)

ChannelInv == MappedOK /\ SendOK /\ EmptyOK
LeakInv == ChannelInv /\ KeptOK

\* A step that ends no cleanup, puts nothing new into the map and sends only to
\* channels that are in it or that were sent to keeps ChannelInv.
LEMMA ChannelKept ==
    ASSUME TypeInv, ChannelInv,
           \A ch \in SiteChans :
             /\ pc'[ch] = "off" => pc[ch] = "off" /\ (Starting(ch) => Starting(ch)')
             /\ pc'[ch] \in {"final", "drain"} => pc[ch] \in {"final", "drain"} \/ ~Mapped(ch)'
             /\ pc'[ch] = "drain" => pc[ch] = "drain" \/ ~Sending(ch)'
             /\ Mapped(ch)' => Mapped(ch)
             /\ Sending(ch)' => Sending(ch) \/ Mapped(ch)
             /\ queue'[ch] # <<>> => queue[ch] # <<>> \/ Sending(ch) \/ pc[ch] = "putback"
    PROVE  ChannelInv'
<1> SUFFICES ASSUME NEW ch \in SiteChans
             PROVE  /\ Mapped(ch)' => pc'[ch] \notin {"final", "drain"} /\ Watched(ch)'
                    /\ Sending(ch)' => pc'[ch] # "drain" /\ Watched(ch)'
                    /\ ~Watched(ch)' => queue'[ch] = <<>>
  BY DEF ChannelInv, MappedOK, SendOK, EmptyOK
<1>1. Watched(ch) => Watched(ch)' BY DEF Watched
<1>2. Mapped(ch) => pc[ch] \notin {"final", "drain"} /\ Watched(ch) BY DEF ChannelInv, MappedOK
<1>3. Sending(ch) => pc[ch] # "drain" /\ Watched(ch) BY DEF ChannelInv, SendOK
<1>4. ~Watched(ch) => queue[ch] = <<>> BY DEF ChannelInv, EmptyOK
<1>5. Mapped(ch)' => pc'[ch] \notin {"final", "drain"} /\ Watched(ch)' BY <1>1, <1>2
<1>6. Sending(ch)' => pc'[ch] # "drain" /\ Watched(ch)' BY <1>1, <1>2, <1>3
<1>7. pc[ch] = "putback" => Watched(ch) BY DEF Watched
<1>8. ~Watched(ch)' => queue'[ch] = <<>> BY <1>1, <1>3, <1>4, <1>7
<1> QED BY <1>5, <1>6, <1>8

\* A client moves, makes no channel and starts no cleanup.
LEMMA ChannelClient ==
    ASSUME TypeInv, ChannelInv, NEW c \in Clients, UNCHANGED idleConn,
           \A p \in Procs : p # c => pc'[p] = pc[p],
           \A x \in Clients : x # c => chan'[x] = chan[x],
           pc[c] # "start" /\ pc'[c] # "start",
           pc'[c] = "send" => chan'[c] = MuxChan \/ \E h \in Hosts : chan'[c] = idleConn[h],
           \A ch \in SiteChans : queue'[ch] # <<>> => queue[ch] # <<>> \/ Sending(ch)
    PROVE  ChannelInv'
<1>1. ASSUME NEW ch \in SiteChans
      PROVE  /\ pc'[ch] = pc[ch] /\ (Mapped(ch)' <=> Mapped(ch)) /\ (Starting(ch) => Starting(ch)')
             /\ Sending(ch)' => Sending(ch) \/ Mapped(ch)
  <2>1. pc'[ch] = pc[ch] BY ProcKinds
  <2>2. Mapped(ch)' <=> Mapped(ch) BY DEF Mapped
  <2>3. Starting(ch) => Starting(ch)' BY ProcKinds DEF Starting
  <2>4. Sending(ch)' => Sending(ch) \/ Mapped(ch) BY ProcKinds DEF Sending, Mapped
  <2> QED BY <2>1, <2>2, <2>3, <2>4
<1> QED BY <1>1, ChannelKept

\* The steps of a client keep ChannelInv.
LEMMA ChannelPutCreate ==
    ASSUME TypeInv, ChannelInv, NEW c \in Clients, PutCreate(c)
    PROVE  ChannelInv'
<1> DEFINE h == HostPort[hand[c]]
<1>1. hand[c] \in Conns /\ pc[c] = "create" /\ c \in Procs
  BY ProcKinds DEF PutCreate, TypeInv, TypeOK, HandOK, HoldingPC
<1>2. h \in Hosts BY <1>1, ConstAssumption
<1>3. CASE /\ chan' = [chan EXCEPT ![c] = idleConn[h]]
           /\ pc' = [pc EXCEPT ![c] = "send"]
           /\ UNCHANGED poolVars
  <2>1. /\ UNCHANGED <<idleConn, queue>> /\ \A p \in Procs : p # c => pc'[p] = pc[p]
        /\ \A x \in Clients : x # c => chan'[x] = chan[x]
        /\ pc'[c] = "send" /\ chan'[c] = idleConn[h]
    BY <1>1, <1>3 DEF poolVars, TypeInv, TypeOK
  <2> QED BY <1>1, <1>2, <2>1, ChannelClient
<1>4. CASE /\ idleConn[h] = NoChan
           /\ \E ch \in SiteChans :
               /\ Garbage(ch)
               /\ idleConn' = [idleConn EXCEPT ![h] = ch]
               /\ chanHost' = [chanHost EXCEPT ![ch] = h]
               /\ queue' = [queue EXCEPT ![ch] = <<>>]
               /\ chan' = [chan EXCEPT ![c] = ch]
           /\ pc' = [pc EXCEPT ![c] = "start"]
  <2>1. PICK ch \in SiteChans :
               /\ Garbage(ch)
               /\ idleConn' = [idleConn EXCEPT ![h] = ch]
               /\ queue' = [queue EXCEPT ![ch] = <<>>]
               /\ chan' = [chan EXCEPT ![c] = ch]
    BY <1>4
  <2>2. /\ \A p \in Procs : p # c => pc'[p] = pc[p]
        /\ \A x \in Clients : x # c => chan'[x] = chan[x]
        /\ chan'[c] = ch /\ pc'[c] = "start"
    BY <1>1, <1>4, <2>1 DEF TypeInv, TypeOK
  <2>3. \A g \in Hosts : idleConn'[g] = IF g = h THEN ch ELSE idleConn[g]
    BY <1>2, <2>1 DEF TypeInv, TypeOK
  <2>4. pc'[ch] = "off" /\ \A x \in SiteChans : pc'[x] = pc[x]
    BY <2>1, <2>2, ProcKinds DEF Garbage
  <2>5. Watched(ch)' BY <2>2 DEF Watched, Starting
  <2>6. ASSUME NEW x \in SiteChans, x # ch
        PROVE  /\ Watched(x) => Watched(x)'
               /\ Mapped(x)' => Mapped(x)
               /\ Sending(x)' => Sending(x)
               /\ pc'[x] = pc[x] /\ queue'[x] = queue[x]
    <3>1. Starting(x) => Starting(x)' BY <1>1, <2>2, ProcKinds DEF Starting
    <3>2. Mapped(x)' => Mapped(x) BY <2>3, <2>6 DEF Mapped
    <3>3. Sending(x)' => Sending(x) BY <2>2, <2>6, ProcKinds DEF Sending
    <3>4. queue'[x] = queue[x] BY <2>1, <2>6, ProcKinds DEF TypeInv, TypeOK
    <3> QED BY <2>4, <3>1, <3>2, <3>3, <3>4 DEF Watched
  <2>7. MappedOK' BY <2>4, <2>5, <2>6 DEF ChannelInv, MappedOK
  <2>8. SendOK' BY <2>4, <2>5, <2>6 DEF ChannelInv, SendOK
  <2>9. EmptyOK' BY <2>5, <2>6 DEF ChannelInv, EmptyOK
  <2> QED BY <2>7, <2>8, <2>9 DEF ChannelInv
<1> QED BY <1>3, <1>4 DEF PutCreate

\* Put starts the cleanup of the channel it has made.
LEMMA ChannelPutStart ==
    ASSUME TypeInv, ChannelInv, NEW c \in Clients, PutStart(c)
    PROVE  ChannelInv'
<1>1. /\ chan[c] \in SiteChans /\ pc[c] = "start" /\ c \in Procs
      /\ UNCHANGED <<idleConn, queue, chan>>
  BY ProcKinds DEF PutStart, TypeInv, ChanOK, poolVars
<1>2. /\ pc' = [pc EXCEPT ![c] = "send", ![chan[c]] = "sleep"] /\ chan[c] \in Procs /\ c # chan[c]
  BY <1>1, ProcKinds DEF PutStart
<1>3. \A p \in Procs : pc'[p] = IF p = chan[c] THEN "sleep" ELSE IF p = c THEN "send" ELSE pc[p]
  BY <1>1, <1>2 DEF TypeInv, TypeOK
<1>4. ASSUME NEW ch \in SiteChans
      PROVE  /\ pc'[ch] = "off" => pc[ch] = "off" /\ (Starting(ch) => Starting(ch)')
             /\ pc'[ch] \in {"final", "drain"} => pc[ch] \in {"final", "drain"} \/ ~Mapped(ch)'
             /\ pc'[ch] = "drain" => pc[ch] = "drain" \/ ~Sending(ch)'
             /\ Mapped(ch)' => Mapped(ch)
             /\ Sending(ch)' => Sending(ch) \/ Mapped(ch)
             /\ queue'[ch] # <<>> => queue[ch] # <<>> \/ Sending(ch) \/ pc[ch] = "putback"
  <2>1. pc'[ch] = IF ch = chan[c] THEN "sleep" ELSE pc[ch] BY <1>3, ProcKinds
  <2>2. Mapped(ch)' <=> Mapped(ch) BY <1>1 DEF Mapped
  <2>3. Sending(ch)' => Sending(ch) BY <1>1, <1>3, ProcKinds DEF Sending
  <2>4. ch # chan[c] => (Starting(ch) => Starting(ch)') BY <1>1, <1>3, ProcKinds DEF Starting
  <2> QED BY <1>1, <2>1, <2>2, <2>3, <2>4
<1> QED BY <1>4, ChannelKept

\* Every step of a client keeps ChannelInv.
LEMMA ChannelClients ==
    ASSUME TypeInv, ChannelInv, NEW c \in Clients,
           \/ \E h \in Hosts, d \in BOOLEAN : GetLookup(c, h, d)
           \/ \E sv \in Conns : Dial(c, sv)
           \/ DialFails(c)
           \/ Discard(c)
           \/ \E keepAlive \in BOOLEAN : PutLookup(c, keepAlive)
           \/ ClientStep(c)
    PROVE  ChannelInv'
<1>0. c \in Procs /\ pc \in [Procs -> ClientPC \cup CloserPC \cup CleanerPC]
      /\ chan \in [Clients \cup Closers -> Chans \cup {NoChan}]
  BY ProcKinds DEF TypeInv, TypeOK
<1>1. ASSUME NEW h \in Hosts, NEW d \in BOOLEAN, GetLookup(c, h, d) PROVE ChannelInv'
  <2>1. /\ UNCHANGED <<idleConn, queue>> /\ \A p \in Procs : p # c => pc'[p] = pc[p]
        /\ \A x \in Clients : x # c => chan'[x] = chan[x]
        /\ pc[c] = "idle" /\ pc'[c] \notin {"start", "send"}
    BY <1>0, <1>1 DEF GetLookup, AfterSite, poolVars
  <2> QED BY <2>1, ChannelClient
<1>2. CASE (\E sv \in Conns : Dial(c, sv)) \/ DialFails(c) \/ Discard(c)
  <2>1. /\ UNCHANGED <<idleConn, queue>> /\ \A p \in Procs : p # c => pc'[p] = pc[p]
        /\ UNCHANGED chan /\ pc[c] # "start" /\ pc'[c] \notin {"start", "send"}
    BY <1>0, <1>2 DEF Dial, DialFails, Discard, poolVars
  <2> QED BY <2>1, ChannelClient
<1>3. ASSUME NEW keepAlive \in BOOLEAN, PutLookup(c, keepAlive) PROVE ChannelInv'
  <2>1. HostPort[hand[c]] \in Hosts
    BY <1>3, ConstAssumption DEF PutLookup, TypeInv, TypeOK, HandOK, HoldingPC
  <2>2. PICK ch : ch = IF IsMux(hand[c]) THEN MuxChan ELSE idleConn[HostPort[hand[c]]]
    OBVIOUS
  <2>3. /\ UNCHANGED <<idleConn, queue>> /\ pc[c] = "using"
        /\ chan' = [chan EXCEPT ![c] = ch]
        /\ pc' = [pc EXCEPT ![c] = IF ch = NoChan THEN "create" ELSE "send"]
    BY <1>3, <2>2 DEF PutLookup, poolVars
  <2>4. /\ \A p \in Procs : p # c => pc'[p] = pc[p]
        /\ \A x \in Clients : x # c => chan'[x] = chan[x]
        /\ chan'[c] = ch /\ pc'[c] # "start"
    BY <1>0, <2>3
  <2> QED BY <2>1, <2>2, <2>3, <2>4, ChannelClient
<1>4. CASE GetRecv(c) \/ GetEmpty(c)
  <2>1. /\ UNCHANGED idleConn /\ \A p \in Procs : p # c => pc'[p] = pc[p]
        /\ \A x \in Clients : x # c => chan'[x] = chan[x]
        /\ pc[c] # "start" /\ pc'[c] \notin {"start", "send"}
    BY <1>0, <1>4 DEF GetRecv, GetEmpty, AfterSite, poolVars
  <2>2. \A ch \in SiteChans : queue'[ch] # <<>> => queue[ch] # <<>>
    BY <1>4, ProcKinds DEF GetRecv, GetEmpty, Recv, poolVars, TypeInv, TypeOK
  <2> QED BY <2>1, <2>2, ChannelClient
<1>5. CASE PutSend(c)
  <2>1. /\ UNCHANGED idleConn /\ \A p \in Procs : p # c => pc'[p] = pc[p]
        /\ \A x \in Clients : x # c => chan'[x] = chan[x]
        /\ pc[c] = "send" /\ pc'[c] = "idle"
    BY <1>0, <1>5 DEF PutSend
  <2>2. \A ch \in SiteChans : ch # chan[c] => queue'[ch] = queue[ch]
    BY <1>5, ProcKinds DEF PutSend, SendTo, TypeInv, TypeOK
  <2>3. Sending(chan[c]) BY <2>1 DEF Sending
  <2> QED BY <2>1, <2>2, <2>3, ChannelClient
<1> QED BY <1>1, <1>2, <1>3, <1>4, <1>5, ChannelPutCreate, ChannelPutStart DEF ClientStep

\* A cleanup or CloseAll moves; it ends no cleanup, and takes at most its own
\* channel out of the map.
LEMMA ChannelScanner ==
    ASSUME TypeInv, ChannelInv, NEW p \in Scanners,
           \A q \in Procs : q # p => pc'[q] = pc[q],
           \A x \in Clients : chan'[x] = chan[x],
           \A h \in Hosts : idleConn'[h] # NoChan => idleConn'[h] = idleConn[h],
           p \in SiteChans =>
             /\ pc'[p] \notin {"off", "drain"}
             /\ pc'[p] = "final" => \A h \in Hosts : idleConn'[h] # p,
           \A ch \in SiteChans : queue'[ch] # <<>> => queue[ch] # <<>> \/ pc[ch] = "putback"
    PROVE  ChannelInv'
<1>1. ASSUME NEW ch \in SiteChans
      PROVE  /\ pc'[ch] = "off" => pc[ch] = "off" /\ (Starting(ch) => Starting(ch)')
             /\ pc'[ch] \in {"final", "drain"} => pc[ch] \in {"final", "drain"} \/ ~Mapped(ch)'
             /\ pc'[ch] = "drain" => pc[ch] = "drain" \/ ~Sending(ch)'
             /\ Mapped(ch)' => Mapped(ch)
             /\ Sending(ch)' => Sending(ch) \/ Mapped(ch)
  <2>a. p \notin Clients BY ScanFacts
  <2>b. \A x \in Clients : x \in Procs /\ x # p BY <2>a, ProcKinds
  <2>0. p \notin Clients /\ \A x \in Clients : pc'[x] = pc[x] BY <2>a, <2>b
  <2>1. ch # p => pc'[ch] = pc[ch] BY ProcKinds
  <2>2. (Starting(ch) <=> Starting(ch)') /\ (Sending(ch) <=> Sending(ch)')
    BY <2>0 DEF Starting, Sending
  <2>3. Mapped(ch)' => Mapped(ch) BY ConstAssumption, ProcKinds DEF Mapped
  <2>4. ch = p /\ pc'[ch] = "final" => ~Mapped(ch)' BY DEF Mapped
  <2> QED BY <2>1, <2>2, <2>3, <2>4
<1> QED BY <1>1, ChannelKept

\* So does every step of a scan.
LEMMA ChannelScan ==
    ASSUME TypeInv, ChannelInv, NEW p \in Scanners, ScanStep(p)
    PROVE  ChannelInv'
<1>0. p \in Procs /\ pc \in [Procs -> ClientPC \cup CloserPC \cup CleanerPC] /\ UNCHANGED chan
  BY ScanFacts DEF ScanStep, ScanClose, ScanKeep, ScanPutBack, ScanEmpty, ScanRemove, TypeInv, TypeOK
<1>1. CASE ScanClose(p) \/ ScanKeep(p)
  <2>1. UNCHANGED idleConn /\ Recv(ScanChan(p)) /\ ScanChan(p) \in Chans /\ pc[p] = "scan"
    BY <1>1, ScanFacts DEF ScanClose, ScanKeep
  <2>2. \A ch \in SiteChans : queue'[ch] # <<>> => queue[ch] # <<>>
    <3>1. \A ch \in SiteChans : ch # ScanChan(p) => queue'[ch] = queue[ch]
      BY <2>1, ProcKinds DEF Recv, TypeInv, TypeOK
    <3>2. queue[ScanChan(p)] # <<>> BY <1>1 DEF ScanClose, ScanKeep
    <3> QED BY <3>1, <3>2
  <2>3. (\A q \in Procs : q # p => pc'[q] = pc[q]) /\ pc'[p] \in {"scan", "next", "sleep", "putback"}
    <3>1. CASE ScanClose(p)
      BY <2>1, <3>1, IteratedFacts DEF ScanClose, ScanMoves
    <3>2. CASE ScanKeep(p)
      BY <1>0, <3>2 DEF ScanKeep
    <3> QED BY <1>1, <3>1, <3>2
  <2> QED BY <1>0, <2>1, <2>2, <2>3, ChannelScanner
<1>2. CASE ScanPutBack(p)
  <2>1. UNCHANGED idleConn /\ SendTo(ScanChan(p), hand[p]) /\ pc[p] = "putback" /\ p \in Chans
    BY <1>2, ScanFacts DEF ScanPutBack
  <2>2. ScanChan(p) = p BY <2>1 DEF ScanChan
  <2>3. \A ch \in SiteChans : ch # p => queue'[ch] = queue[ch]
    BY <2>1, <2>2, ProcKinds DEF SendTo, TypeInv, TypeOK
  <2>4. (\A q \in Procs : q # p => pc'[q] = pc[q]) /\ pc'[p] \in {"scan", "next", "sleep"}
    BY <1>2, <2>1, IteratedFacts DEF ScanPutBack, ScanMoves
  <2> QED BY <1>0, <2>1, <2>3, <2>4, ChannelScanner
<1>3. CASE ScanEmpty(p)
  <2>1. /\ UNCHANGED <<idleConn, queue>> /\ pc[p] = "scan"
        /\ pc' = [pc EXCEPT ![p] = IF ScanChan(p) = MuxChan THEN AfterScan(p, TRUE) ELSE "remove"]
    BY <1>3 DEF ScanEmpty, poolVars
  <2>2. (\A q \in Procs : q # p => pc'[q] = pc[q])
        /\ pc'[p] = IF ScanChan(p) = MuxChan THEN AfterScan(p, TRUE) ELSE "remove"
    BY <1>0, <2>1
  <2>3. p \in SiteChans => pc'[p] = "remove"
    BY <2>2, ProcKinds DEF ScanChan
  <2> QED BY <1>0, <2>1, <2>2, <2>3, ChannelScanner
<1>4. CASE ScanRemove(p)
  <2> DEFINE ch == ScanChan(p)
             h == chanHost[ch]
  <2>1. /\ idleConn' = IF idleConn[h] = ch THEN [idleConn EXCEPT ![h] = NoChan] ELSE idleConn
        /\ UNCHANGED queue /\ pc[p] = "remove" /\ pc' = [pc EXCEPT ![p] = AfterScan(p, TRUE)]
    BY <1>4 DEF ScanRemove
  <2>2. ch \in SiteChans /\ h \in Hosts BY <2>1, ScanFacts
  <2> HIDE DEF h
  <2>3. \A g \in Hosts : idleConn'[g] = IF g = h /\ idleConn[h] = ch THEN NoChan ELSE idleConn[g]
    BY <2>1, <2>2 DEF TypeInv, TypeOK
  <2>4. \A g \in Hosts : idleConn'[g] # ch
    <3>1. \A g \in Hosts : idleConn[g] = ch => g = h
      BY <2>2, ConstAssumption, ProcKinds DEF TypeInv, ChanOK, h
    <3>2. ch # NoChan BY <2>2, ConstAssumption, ProcKinds
    <3> HIDE DEF ch
    <3> QED BY <2>3, <3>1, <3>2
  <2>5. p \in Chans => ch = p BY DEF ScanChan
  <2> HIDE DEF ch
  <2>6. (\A q \in Procs : q # p => pc'[q] = pc[q]) /\ pc'[p] = AfterScan(p, TRUE)
    BY <1>0, <2>1
  <2>7. p \in SiteChans => pc'[p] = "final" BY <2>6, ScanFacts, ProcKinds
  <2>8. p \in SiteChans => /\ pc'[p] \notin {"off", "drain"}
                           /\ pc'[p] = "final" => \A g \in Hosts : idleConn'[g] # p
    BY <2>4, <2>5, <2>7, ProcKinds
  <2>9. \A g \in Hosts : idleConn'[g] # NoChan => idleConn'[g] = idleConn[g] BY <2>3
  <2> QED BY <1>0, <2>1, <2>6, <2>8, <2>9, ChannelScanner
<1> QED BY <1>1, <1>2, <1>3, <1>4 DEF ScanStep

\* The last wait of a cleanup and what comes after it.
LEMMA ChannelCleaner ==
    ASSUME TimelyPut, TypeInv, ChannelInv, NEW ch \in Chans, CleanerStep(ch)
    PROVE  ChannelInv'
<1>0. ch \in Procs /\ pc \in [Procs -> ClientPC \cup CloserPC \cup CleanerPC] /\ ch \in Scanners
  BY ProcKinds DEF TypeInv, TypeOK, Scanners
<1>1. CASE CleanerWake(ch)
  <2>1. UNCHANGED <<idleConn, queue, chan>> /\ pc' = [pc EXCEPT ![ch] = "scan"]
    BY <1>1 DEF CleanerWake, poolVars
  <2> QED BY <1>0, <2>1, ChannelScanner
<1>2. CASE CleanerDrain(ch)
  <2>1. UNCHANGED <<idleConn, pc, chan>> /\ Recv(ch) /\ queue[ch] # <<>>
    BY <1>2 DEF CleanerDrain
  <2>2. \A x \in SiteChans : queue'[x] # <<>> => queue[x] # <<>>
    BY <2>1, ProcKinds DEF Recv, TypeInv, TypeOK
  <2>3. \A x \in SiteChans : (Mapped(x)' <=> Mapped(x)) /\ (Starting(x)' <=> Starting(x))
                             /\ (Sending(x)' <=> Sending(x))
    BY <2>1 DEF Mapped, Starting, Sending
  <2> QED BY <2>1, <2>2, <2>3, ChannelKept
<1>3. CASE CleanerFinal(ch)
  <2>1. /\ UNCHANGED <<idleConn, queue, chan>> /\ pc[ch] = "final"
        /\ \A p \in Procs : pc'[p] = IF p = ch THEN "drain" ELSE pc[p]
    BY <1>0, <1>3 DEF CleanerFinal, poolVars
  <2>2. \A x \in Clients : pc'[x] = pc[x] BY <2>1, ProcKinds
  <2>3. ASSUME NEW x \in SiteChans
        PROVE  /\ (Mapped(x)' <=> Mapped(x)) /\ (Starting(x)' <=> Starting(x))
               /\ (Sending(x)' <=> Sending(x)) /\ pc'[x] = IF x = ch THEN "drain" ELSE pc[x]
    BY <2>1, <2>2, ProcKinds DEF Mapped, Starting, Sending
  <2>4. ch \in SiteChans => ~Sending(ch)
    BY <1>3, ProcKinds DEF CleanerFinal, Sending
  <2> QED BY <2>1, <2>3, <2>4, ChannelKept
<1>4. CASE CleanerDone(ch)
  <2>1. /\ UNCHANGED <<idleConn, queue, chan>> /\ pc[ch] = "drain" /\ queue[ch] = <<>>
        /\ \A p \in Procs : pc'[p] = IF p = ch THEN "off" ELSE pc[p]
    BY <1>0, <1>4 DEF CleanerDone, poolVars
  <2>2. \A x \in Clients : pc'[x] = pc[x] BY <2>1, ProcKinds
  <2>3. ASSUME NEW x \in SiteChans
        PROVE  /\ (Mapped(x)' <=> Mapped(x)) /\ (Starting(x)' <=> Starting(x))
               /\ (Sending(x)' <=> Sending(x)) /\ (x # ch => pc'[x] = pc[x])
    BY <2>1, <2>2, ProcKinds DEF Mapped, Starting, Sending
  <2>4. \A x \in SiteChans : x # ch => (Watched(x)' <=> Watched(x)) BY <2>3 DEF Watched
  <2>5. ch \in SiteChans => ~Mapped(ch) /\ ~Sending(ch)
    BY <2>1 DEF ChannelInv, MappedOK, SendOK
  <2>6. MappedOK' BY <2>3, <2>4, <2>5 DEF ChannelInv, MappedOK
  <2>7. SendOK' BY <2>3, <2>4, <2>5 DEF ChannelInv, SendOK
  <2>8. EmptyOK' BY <2>1, <2>4 DEF ChannelInv, EmptyOK
  <2> QED BY <2>6, <2>7, <2>8 DEF ChannelInv
<1> QED BY <1>0, <1>1, <1>2, <1>3, <1>4, ChannelScan DEF CleanerStep

\* Every step keeps ChannelInv.
LEMMA ChannelNext == ASSUME TimelyPut, TypeInv, ChannelInv, [Next]_vars PROVE ChannelInv'
<1>1. ASSUME NEW k \in Closers, CloseAllStart(k) \/ CloserStep(k) PROVE ChannelInv'
  <2>0. k \in Scanners /\ k \in Procs /\ k \notin Clients /\ k \notin SiteChans
        /\ pc \in [Procs -> ClientPC \cup CloserPC \cup CleanerPC]
        /\ chan \in [Clients \cup Closers -> Chans \cup {NoChan}]
    BY ProcKinds DEF TypeInv, TypeOK, Scanners
  <2>1. CASE ScanStep(k) BY <2>0, <2>1, ChannelScan
  <2>2. CASE CloseAllStart(k) \/ (\E ch \in Chans : CloseAllNext(k, ch)) \/ CloseAllDone(k)
    <3>1. /\ UNCHANGED <<idleConn, queue>> /\ \A q \in Procs : q # k => pc'[q] = pc[q]
          /\ \A x \in Clients : chan'[x] = chan[x]
      BY <2>0, <2>2 DEF CloseAllStart, CloseAllNext, CloseAllDone, poolVars
    <3> QED BY <2>0, <3>1, ChannelScanner
  <2> QED BY <1>1, <2>1, <2>2 DEF CloserStep
<1>2. CASE (\E sv \in Conns : Expire(sv)) \/ UNCHANGED vars
  <2>1. UNCHANGED <<idleConn, queue, pc, chan>> BY <1>2 DEF Expire, vars, poolVars
  <2>2. \A x \in SiteChans : (Mapped(x)' <=> Mapped(x)) /\ (Starting(x)' <=> Starting(x))
                             /\ (Sending(x)' <=> Sending(x))
    BY <2>1 DEF Mapped, Starting, Sending
  <2> QED BY <2>1, <2>2, ChannelKept
<1> QED BY <1>1, <1>2, ChannelClients, ChannelCleaner DEF Next

\* A receive takes the head out of its channel and nothing else out of any.
LEMMA RecvKeeps ==
    ASSUME TypeInv, NEW ch \in Chans, queue[ch] # <<>>, Recv(ch), NEW sv, NEW x \in Chans,
           InChan(sv, x)
    PROVE  sv = Head(queue[ch]) \/ InChan(sv, x)'
<1>1. PICK q \in Seq(Conns) : q = queue[ch] BY DEF TypeInv, TypeOK
<1>2. PICK i \in Slots(x) : queue[x][i] = sv BY DEF InChan
<1>3. CASE x = ch
  <2>1. queue'[x] = Tail(q) BY <1>1, <1>3 DEF Recv, TypeInv, TypeOK
  <2>2. /\ Len(q) \in Nat \ {0} /\ Len(Tail(q)) = Len(q) - 1 /\ Head(q) = q[1]
        /\ \A j \in 1 .. Len(Tail(q)) : Tail(q)[j] = q[j + 1]
    BY <1>1, QueueRecv
  <2>3. i \in 1 .. Len(q) /\ q[i] = sv BY <1>1, <1>2, <1>3 DEF Slots
  <2>4. CASE i = 1 BY <1>1, <2>2, <2>3, <2>4
  <2>5. CASE i # 1
    <3>1. PICK j \in 1 .. Len(Tail(q)) : j + 1 = i BY <2>2, <2>3, <2>5
    <3>2. Tail(q)[j] = sv BY <2>2, <2>3, <3>1
    <3> QED BY <2>1, <3>2 DEF InChan, Slots
  <2> QED BY <2>4, <2>5
<1>4. CASE x # ch
  <2>1. queue'[x] = queue[x] BY <1>4 DEF Recv, TypeInv, TypeOK
  <2> QED BY <2>1 DEF InChan, Slots
<1> QED BY <1>3, <1>4

\* A send adds a connection to its channel.
LEMMA SendKeeps ==
    ASSUME TypeInv, NEW ch \in Chans, NEW c \in Conns, SendTo(ch, c)
    PROVE  InChan(c, ch)' /\ \A sv : \A x \in Chans : InChan(sv, x) => InChan(sv, x)'
<1>1. PICK q \in Seq(Conns) : q = queue[ch] BY DEF TypeInv, TypeOK
<1>2. /\ Len(q) \in Nat /\ Len(Append(q, c)) = Len(q) + 1 /\ Append(q, c)[Len(q) + 1] = c
      /\ \A i \in 1 .. Len(q) : Append(q, c)[i] = q[i]
  BY QueueSend
<1>3. queue'[ch] = Append(q, c) /\ \A x \in Chans : x # ch => queue'[x] = queue[x]
  BY <1>1 DEF SendTo, TypeInv, TypeOK
<1>4. Len(q) + 1 \in 1 .. Len(Append(q, c)) BY <1>2
<1>5. InChan(c, ch)' BY <1>2, <1>3, <1>4 DEF InChan, Slots
<1>6. ASSUME NEW sv, NEW x \in Chans, InChan(sv, x) PROVE InChan(sv, x)'
  <2>1. PICK i \in Slots(x) : queue[x][i] = sv BY <1>6 DEF InChan
  <2>2. CASE x = ch
    <3>1. i \in 1 .. Len(q) /\ q[i] = sv BY <1>1, <2>1, <2>2 DEF Slots
    <3>2. i \in 1 .. Len(Append(q, c)) /\ Append(q, c)[i] = sv BY <1>2, <3>1
    <3> QED BY <1>3, <2>2, <3>2 DEF InChan, Slots
  <2>3. CASE x # ch
    <3>1. queue'[x] = queue[x] BY <1>3, <2>3
    <3> QED BY <2>1, <3>1 DEF InChan, Slots
  <2> QED BY <2>2, <2>3
<1> QED BY <1>5, <1>6

\* Nothing is taken out of the hands or the channels.
LEMMA KeptSame ==
    ASSUME TypeInv, KeptOK, UNCHANGED <<open, hand>>,
           \A x \in Chans : queue'[x] = queue[x] \/ queue[x] = <<>>
    PROVE  KeptOK'
<1>1. Holders' = Holders BY DEF Holders
<1>2. ASSUME NEW sv, NEW x \in Chans, InChan(sv, x) PROVE InChan(sv, x)'
  <2>1. queue[x] # <<>> BY <1>2 DEF InChan, Slots
  <2>2. queue'[x] = queue[x] BY <2>1
  <2> QED BY <1>2, <2>2 DEF InChan, Slots
<1> QED BY <1>1, <1>2 DEF KeptOK, Kept

\* Who closes what he receives leaves nothing open behind.
LEMMA KeptRecvClose ==
    ASSUME TypeInv, KeptOK, NEW ch \in Chans, queue[ch] # <<>>, Recv(ch),
           Close(Head(queue[ch])), UNCHANGED hand
    PROVE  KeptOK'
<1>1. Holders' = Holders BY DEF Holders
<1>2. ASSUME NEW sv \in open' PROVE Kept(sv)'
  <2>1. sv \in open /\ sv # Head(queue[ch]) BY DEF Close
  <2>2. Kept(sv) BY <2>1 DEF KeptOK
  <2>3. CASE \E p \in Holders : hand[p] = sv BY <1>1, <2>3 DEF Kept
  <2>4. CASE \E x \in Chans : InChan(sv, x)
    <3>1. PICK x \in Chans : InChan(sv, x) BY <2>4
    <3>2. InChan(sv, x)' BY <2>1, <3>1, RecvKeeps
    <3> QED BY <3>2 DEF Kept
  <2> QED BY <2>2, <2>3, <2>4 DEF Kept
<1> QED BY <1>2 DEF KeptOK

\* What is taken out of a channel is then in a hand.
LEMMA KeptRecvTake ==
    ASSUME TypeInv, KeptOK, NEW ch \in Chans, queue[ch] # <<>>, Recv(ch), UNCHANGED open,
           NEW p \in Clients \cup Chans, hand[p] = NoConn,
           hand' = [hand EXCEPT ![p] = Head(queue[ch])]
    PROVE  KeptOK'
<1>1. PICK s \in Conns : s = Head(queue[ch]) BY RecvSlots
<1>2. hand'[p] = s /\ \A q \in Holders : q # p /\ hand'[q] = hand[q]
  BY <1>1 DEF Holders, TypeInv, TypeOK
<1>3. p \in Holders' /\ \A q \in Holders : q \in Holders'
  BY <1>2, ConstAssumption DEF Holders
<1>4. ASSUME NEW sv \in open PROVE Kept(sv)'
  <2>1. Kept(sv) BY DEF KeptOK
  <2>2. CASE \E q \in Holders : hand[q] = sv BY <1>2, <1>3, <2>2 DEF Kept
  <2>3. CASE \E x \in Chans : InChan(sv, x)
    <3>1. PICK x \in Chans : InChan(sv, x) BY <2>3
    <3>2. sv = s \/ InChan(sv, x)' BY <1>1, <3>1, RecvKeeps
    <3> QED BY <1>2, <1>3, <3>2 DEF Kept
  <2> QED BY <2>1, <2>2, <2>3 DEF Kept
<1> QED BY <1>4 DEF KeptOK

\* What leaves a hand is then in a channel.
LEMMA KeptSend ==
    ASSUME TypeInv, KeptOK, NEW ch \in Chans, NEW p \in Clients \cup Chans, hand[p] # NoConn,
           SendTo(ch, hand[p]), UNCHANGED open, hand' = [hand EXCEPT ![p] = NoConn]
    PROVE  KeptOK'
<1>1. PICK s \in Conns : s = hand[p] BY DEF TypeInv, TypeOK
<1>2. \A q \in Holders : q # p => hand'[q] = hand[q] /\ q \in Holders'
  BY DEF Holders, TypeInv, TypeOK
<1>3. InChan(s, ch)' BY <1>1, SendKeeps
<1>4. ASSUME NEW sv, NEW x \in Chans, InChan(sv, x) PROVE InChan(sv, x)'
  BY <1>1, <1>4, SendKeeps
<1>5. ASSUME NEW sv \in open PROVE Kept(sv)'
  <2>1. Kept(sv) BY DEF KeptOK
  <2>2. CASE \E q \in Holders : hand[q] = sv BY <1>1, <1>2, <1>3, <2>2 DEF Kept
  <2>3. CASE \E x \in Chans : InChan(sv, x) BY <1>4, <2>3 DEF Kept
  <2> QED BY <2>1, <2>2, <2>3 DEF Kept
<1> QED BY <1>5 DEF KeptOK

\* Who closes what he holds leaves nothing open behind.
LEMMA KeptClose ==
    ASSUME TypeInv, KeptOK, NEW p \in Clients \cup Chans, hand[p] # NoConn,
           Close(hand[p]), UNCHANGED queue, hand' = [hand EXCEPT ![p] = NoConn]
    PROVE  KeptOK'
<1>1. \A q \in Holders : hand[q] # hand[p] => hand'[q] = hand[q] /\ q \in Holders'
  BY DEF Holders, TypeInv, TypeOK
<1>2. \A sv : \A x \in Chans : InChan(sv, x) => InChan(sv, x)' BY DEF InChan, Slots
<1>3. ASSUME NEW sv \in open' PROVE Kept(sv)'
  <2>1. sv # hand[p] /\ Kept(sv) BY DEF Close, KeptOK
  <2> QED BY <1>1, <1>2, <2>1 DEF Kept
<1> QED BY <1>3 DEF KeptOK

\* A new connection is in the hand of who made it.
LEMMA KeptDial ==
    ASSUME TypeInv, KeptOK, NEW p \in Clients, NEW s \in Conns, hand[p] = NoConn,
           open' = open \cup {s}, UNCHANGED queue, hand' = [hand EXCEPT ![p] = s]
    PROVE  KeptOK'
<1>1. hand'[p] = s /\ p \in Holders' /\ \A q \in Holders : hand'[q] = hand[q] /\ q \in Holders'
  BY ConstAssumption DEF Holders, TypeInv, TypeOK
<1>2. \A sv : \A x \in Chans : InChan(sv, x) => InChan(sv, x)' BY DEF InChan, Slots
<1>3. ASSUME NEW sv \in open' PROVE Kept(sv)'
  <2>1. CASE sv = s BY <1>1, <2>1 DEF Kept
  <2>2. CASE sv \in open
    <3>1. Kept(sv) BY <2>2 DEF KeptOK
    <3> QED BY <1>1, <1>2, <3>1 DEF Kept
  <2> QED BY <2>1, <2>2
<1> QED BY <1>3 DEF KeptOK

\* The steps of a client keep KeptOK.
LEMMA KeptClient ==
    ASSUME TypeInv, ChannelInv, KeptOK, NEW c \in Clients,
           \/ \E h \in Hosts, d \in BOOLEAN : GetLookup(c, h, d)
           \/ \E sv \in Conns : Dial(c, sv)
           \/ DialFails(c)
           \/ Discard(c)
           \/ \E keepAlive \in BOOLEAN : PutLookup(c, keepAlive)
           \/ ClientStep(c)
    PROVE  KeptOK'
<1>1. CASE \E h \in Hosts, d \in BOOLEAN : GetLookup(c, h, d)
  BY <1>1, KeptSame DEF GetLookup, poolVars, connVars
<1>2. CASE \E sv \in Conns : Dial(c, sv)
  <2>1. hand[c] = NoConn BY <1>2 DEF Dial, TypeInv, HandOK, HoldingPC
  <2> QED BY <1>2, <2>1, KeptDial DEF Dial, poolVars
<1>3. CASE DialFails(c) BY <1>3, KeptSame DEF DialFails, poolVars, connVars
<1>4. CASE Discard(c)
  <2>1. hand[c] # NoConn BY <1>4 DEF Discard, TypeInv, HandOK, HoldingPC
  <2> QED BY <1>4, <2>1, KeptClose DEF Discard, poolVars
<1>5. CASE \E keepAlive \in BOOLEAN : PutLookup(c, keepAlive)
  BY <1>5, KeptSame DEF PutLookup, poolVars
<1>6. CASE GetRecv(c)
  <2>1. chan[c] \in Chans /\ queue[chan[c]] # <<>> /\ Recv(chan[c])
    BY <1>6, ProcKinds DEF GetRecv, TypeInv, ChanOK
  <2>2. hand[c] = NoConn BY <1>6 DEF GetRecv, TypeInv, HandOK, HoldingPC
  <2>3. \/ Close(Head(queue[chan[c]])) /\ UNCHANGED hand
        \/ hand' = [hand EXCEPT ![c] = Head(queue[chan[c]])] /\ UNCHANGED open
    BY <1>6 DEF GetRecv, connVars
  <2> QED BY <2>1, <2>2, <2>3, KeptRecvClose, KeptRecvTake
<1>7. CASE GetEmpty(c) BY <1>7, KeptSame DEF GetEmpty, poolVars, connVars
<1>8. CASE PutCreate(c)
  <2>1. UNCHANGED <<open, hand>> BY <1>8 DEF PutCreate, connVars
  <2>2. ASSUME NEW ch \in SiteChans, Garbage(ch) PROVE queue[ch] = <<>>
    BY <2>2 DEF Garbage, ChannelInv, EmptyOK, Watched, Starting
  <2>3. \A x \in Chans : queue'[x] = queue[x] \/ queue[x] = <<>>
    BY <1>8, <2>2, ProcKinds DEF PutCreate, poolVars, TypeInv, TypeOK
  <2> QED BY <2>1, <2>3, KeptSame
<1>9. CASE PutStart(c) BY <1>9, KeptSame DEF PutStart, poolVars, connVars
<1>10. CASE PutSend(c)
  <2>1. chan[c] \in Chans /\ hand[c] # NoConn
    BY <1>10, ProcKinds DEF PutSend, TypeInv, ChanOK, HandOK, HoldingPC
  <2>2. \/ SendTo(chan[c], hand[c]) /\ UNCHANGED open
        \/ Close(hand[c]) /\ UNCHANGED queue
    BY <1>10 DEF PutSend, connVars
  <2>3. hand' = [hand EXCEPT ![c] = NoConn] BY <1>10 DEF PutSend
  <2> QED BY <2>1, <2>2, <2>3, KeptSend, KeptClose
<1> QED BY <1>1, <1>2, <1>3, <1>4, <1>5, <1>6, <1>7, <1>8, <1>9, <1>10 DEF ClientStep

\* The steps of a scan keep KeptOK.
LEMMA KeptScan ==
    ASSUME TypeInv, KeptOK, NEW p \in Scanners, ScanStep(p)
    PROVE  KeptOK'
<1>1. CASE ScanClose(p)
  <2>1. /\ ScanChan(p) \in Chans /\ queue[ScanChan(p)] # <<>> /\ Recv(ScanChan(p))
        /\ Close(Head(queue[ScanChan(p)])) /\ UNCHANGED hand
    BY <1>1, ScanFacts DEF ScanClose
  <2> QED BY <2>1, KeptRecvClose
<1>2. CASE ScanKeep(p)
  <2>1. p \notin Closers BY <1>2 DEF ScanKeep, Forced
  <2>2. p \in Chans /\ hand[p] = NoConn BY <1>2, <2>1 DEF ScanKeep, Scanners, TypeInv, HandOK
  <2>3. /\ ScanChan(p) \in Chans /\ queue[ScanChan(p)] # <<>> /\ Recv(ScanChan(p))
        /\ hand' = [hand EXCEPT ![p] = Head(queue[ScanChan(p)])] /\ UNCHANGED open
    BY <1>2, ScanFacts DEF ScanKeep, connVars
  <2> QED BY <2>2, <2>3, KeptRecvTake
<1>3. CASE ScanPutBack(p)
  <2>1. p \in Chans /\ ScanChan(p) \in Chans BY <1>3, ScanFacts DEF ScanPutBack
  <2>2. hand[p] # NoConn BY <1>3, <2>1 DEF ScanPutBack, TypeInv, HandOK
  <2> QED BY <1>3, <2>1, <2>2, KeptSend DEF ScanPutBack, connVars
<1>4. CASE ScanEmpty(p) BY <1>4, KeptSame DEF ScanEmpty, poolVars, connVars
<1>5. CASE ScanRemove(p) BY <1>5, KeptSame DEF ScanRemove, connVars
<1> QED BY <1>1, <1>2, <1>3, <1>4, <1>5 DEF ScanStep

\* Every step keeps LeakInv.
LEMMA LeakNext == ASSUME TimelyPut, TypeInv, LeakInv, [Next]_vars PROVE LeakInv'
<1>0. ChannelInv /\ KeptOK /\ ChannelInv' BY ChannelNext DEF LeakInv
<1>1. ASSUME NEW ch \in Chans, CleanerStep(ch) PROVE KeptOK'
  <2>1. CASE ScanStep(ch) BY <1>0, <2>1, KeptScan DEF Scanners
  <2>2. CASE CleanerWake(ch) BY <1>0, <2>2, KeptSame DEF CleanerWake, poolVars, connVars
  <2>3. CASE CleanerFinal(ch) BY <1>0, <2>3, KeptSame DEF CleanerFinal, poolVars, connVars
  <2>4. CASE CleanerDrain(ch) BY <1>0, <2>4, KeptRecvClose DEF CleanerDrain
  <2>5. CASE CleanerDone(ch) BY <1>0, <2>5, KeptSame DEF CleanerDone, poolVars, connVars
  <2> QED BY <1>1, <2>1, <2>2, <2>3, <2>4, <2>5 DEF CleanerStep
<1>2. ASSUME NEW k \in Closers, CloseAllStart(k) \/ CloserStep(k) PROVE KeptOK'
  <2>1. CASE ScanStep(k) BY <1>0, <2>1, KeptScan DEF Scanners
  <2>2. CASE CloseAllStart(k) BY <1>0, <2>2, KeptSame DEF CloseAllStart, poolVars, connVars
  <2>3. CASE \E ch \in Chans : CloseAllNext(k, ch)
    BY <1>0, <2>3, KeptSame DEF CloseAllNext, poolVars, connVars
  <2>4. CASE CloseAllDone(k) BY <1>0, <2>4, KeptSame DEF CloseAllDone, poolVars, connVars
  <2> QED BY <1>2, <2>1, <2>2, <2>3, <2>4 DEF CloserStep
<1>3. ASSUME NEW sv \in Conns, Expire(sv) PROVE KeptOK'
  BY <1>0, <1>3, KeptSame DEF Expire, poolVars
<1>4. ASSUME UNCHANGED vars PROVE KeptOK'
  BY <1>0, <1>4, KeptSame DEF vars, poolVars, connVars
<1> QED BY <1>0, <1>1, <1>2, <1>3, <1>4, KeptClient DEF Next, LeakInv

\* Init establishes LeakInv.
LEMMA LeakInit == Init => LeakInv
<1> SUFFICES ASSUME Init PROVE LeakInv OBVIOUS
<1>1. \A ch \in SiteChans : pc[ch] = "off" /\ queue[ch] = <<>> /\ ~Mapped(ch) /\ ~Sending(ch)
  BY ConstAssumption, ProcKinds DEF Init, Mapped, Sending, Procs
<1>2. open = {} BY DEF Init
<1> QED BY <1>1, <1>2 DEF LeakInv, ChannelInv, MappedOK, SendOK, EmptyOK, KeptOK

\* Under LeakInv what is open is held or in a channel with a cleanup.
LEMMA LeakNone == ASSUME LeakInv PROVE NoLeak
<1>1. ASSUME NEW sv \in open, NEW ch \in Chans, InChan(sv, ch) PROVE Supervised(ch)
  <2>1. CASE ch = MuxChan BY <2>1 DEF Supervised
  <2>2. CASE ch # MuxChan
    <3>1. ch \in SiteChans /\ queue[ch] # <<>> BY <1>1, <2>2, ProcKinds DEF InChan, Slots
    <3>2. Watched(ch) BY <3>1 DEF LeakInv, ChannelInv, EmptyOK
    <3> QED BY <3>2 DEF Watched, Starting, Supervised
  <2> QED BY <2>1, <2>2
<1>2. \A sv \in open : Kept(sv) BY DEF LeakInv, KeptOK
<1> QED BY <1>1, <1>2 DEF NoLeak, Kept, InChan

\* An open connection is in somebody's hands or in a channel that has its
\* cleanup, if no Put lasts as long as the cleanup's last wait: a channel in the
\* map has a cleanup that has not begun its end, so that whoever sends to it
\* found it there before, and one that is drained gets nothing more.
THEOREM NothingLost == Spec => []NoLeak
<1>1. CASE TimelyPut
  <2>1. Init => LeakInv BY LeakInit
  <2>2. TypeInv /\ LeakInv /\ [Next]_vars => LeakInv' BY <1>1, LeakNext
  <2>3. LeakInv => NoLeak BY LeakNone
  <2> QED BY <2>1, <2>2, <2>3, TypeCorrect, PTL DEF Spec
<1>2. CASE ~TimelyPut
  <2>1. NoLeak BY <1>2 DEF NoLeak
  <2> QED BY <2>1, PTL
<1> QED BY <1>1, <1>2

-----------------------------------------------------------------------------
(* The pool implements IdlePool *)

\* A client has a request until its connection is given to Put.
WantOK == \A c \in Clients : want[c] = NoHost <=> pc[c] \in {"idle", "create", "start", "send"}

\* A step that leaves requests and places of the clients alone keeps WantOK.
LEMMA WantSame ==
    ASSUME WantOK, UNCHANGED want,
           \A c \in Clients : pc'[c] \in {"idle", "create", "start", "send"} <=>
                              pc[c] \in {"idle", "create", "start", "send"}
    PROVE  WantOK'
  BY DEF WantOK

\* Every step keeps WantOK.
LEMMA WantNext == ASSUME TypeInv, WantOK, [Next]_vars PROVE WantOK'
<1>0. /\ pc \in [Procs -> ClientPC \cup CloserPC \cup CleanerPC]
      /\ want \in [Clients -> Hosts \cup {NoHost}]
      /\ \A c \in Clients : c \in Procs
      /\ NoHost \notin Hosts
  BY ProcKinds, ConstAssumption DEF TypeInv, TypeOK
<1>1. ASSUME NEW c \in Clients, NEW h \in Hosts, NEW d \in BOOLEAN, GetLookup(c, h, d) PROVE WantOK'
  <2>1. want' = [want EXCEPT ![c] = h] BY <1>1 DEF GetLookup
  <2>2. \A x \in Procs : x # c => pc'[x] = pc[x] BY <1>0, <1>1 DEF GetLookup
  <2>3. pc'[c] \in {"getSite", "getMux", "dial"} BY <1>0, <1>1 DEF GetLookup, AfterSite
  <2> QED BY <1>0, <2>1, <2>2, <2>3 DEF WantOK
<1>2. ASSUME NEW c \in Clients,
             DialFails(c) \/ Discard(c) \/ \E keepAlive \in BOOLEAN : PutLookup(c, keepAlive)
      PROVE  WantOK'
  <2>1. want' = [want EXCEPT ![c] = NoHost]
    BY <1>2 DEF DialFails, Discard, PutLookup, RequestOver
  <2>2. \A x \in Procs : x # c => pc'[x] = pc[x] BY <1>0, <1>2 DEF DialFails, Discard, PutLookup
  <2>3. pc'[c] \in {"idle", "create", "send"} BY <1>0, <1>2 DEF DialFails, Discard, PutLookup
  <2> QED BY <1>0, <2>1, <2>2, <2>3 DEF WantOK
<1>3. ASSUME NEW c \in Clients, (\E sv \in Conns : Dial(c, sv)) \/ ClientStep(c), ~PutStart(c)
      PROVE  WantOK'
  <2>1. UNCHANGED want BY <1>3 DEF Dial, ClientStep, GetRecv, GetEmpty, PutCreate, PutSend, reqVars
  <2>2. \A x \in Procs : x # c => pc'[x] = pc[x]
    BY <1>0, <1>3 DEF Dial, ClientStep, GetRecv, GetEmpty, PutCreate, PutSend
  <2>3. CASE \E sv \in Conns : Dial(c, sv)
    <3>1. pc[c] = "dial" /\ pc'[c] = "using" BY <1>0, <2>3 DEF Dial
    <3> QED BY <1>0, <2>1, <2>2, <3>1, WantSame
  <2>4. CASE GetRecv(c) \/ GetEmpty(c)
    <3>1. pc[c] \in {"getSite", "getMux"} /\ pc'[c] \in {"getSite", "getMux", "dial", "using"}
      BY <1>0, <2>4 DEF GetRecv, GetEmpty, AfterSite
    <3> QED BY <1>0, <2>1, <2>2, <3>1, WantSame
  <2>5. CASE PutCreate(c) \/ PutSend(c)
    <3>1. pc[c] \in {"create", "send"} /\ pc'[c] \in {"idle", "start", "send"}
      BY <1>0, <2>5 DEF PutCreate, PutSend
    <3> QED BY <1>0, <2>1, <2>2, <3>1, WantSame
  <2> QED BY <1>3, <2>3, <2>4, <2>5 DEF ClientStep
<1>4. ASSUME NEW c \in Clients, PutStart(c) PROVE WantOK'
  <2>1. UNCHANGED want /\ pc[c] = "start" BY <1>4 DEF PutStart, reqVars
  <2>2. \A x \in Clients : pc'[x] = IF x = c THEN "send" ELSE pc[x]
    <3>1. chan[c] \in SiteChans /\ pc' = [pc EXCEPT ![c] = "send", ![chan[c]] = "sleep"]
      BY <1>4 DEF PutStart, TypeInv, ChanOK
    <3>2. \A x \in Clients : x # chan[c] BY <3>1, ProcKinds
    <3> QED BY <1>0, <3>1, <3>2
  <2> QED BY <2>1, <2>2, WantSame
<1>5. ASSUME UNCHANGED want, \A c \in Clients : pc'[c] = pc[c] PROVE WantOK'
  BY <1>5, WantSame
<1>6. ASSUME NEW p \in Scanners, ScanStep(p)
      PROVE  UNCHANGED want /\ \A c \in Clients : pc'[c] = pc[c]
  <2>1. p \notin Clients BY ScanFacts
  <2>2. \A x \in Procs : x # p => pc'[x] = pc[x]
    BY <1>0, <1>6 DEF ScanStep, ScanClose, ScanKeep, ScanPutBack, ScanEmpty, ScanRemove, Iterated
  <2> QED BY <1>0, <1>6, <2>1, <2>2
      DEF ScanStep, ScanClose, ScanKeep, ScanPutBack, ScanEmpty, ScanRemove, reqVars
<1>7. ASSUME NEW ch \in Chans, CleanerStep(ch), ~ScanStep(ch)
      PROVE  UNCHANGED want /\ \A c \in Clients : pc'[c] = pc[c]
  <2>1. ch \notin Clients BY ProcKinds
  <2> QED BY <1>0, <1>7, <2>1
      DEF CleanerStep, CleanerWake, CleanerFinal, CleanerDrain, CleanerDone, reqVars
<1>8. ASSUME NEW k \in Closers, CloseAllStart(k) \/ CloserStep(k), ~ScanStep(k)
      PROVE  UNCHANGED want /\ \A c \in Clients : pc'[c] = pc[c]
  <2>1. k \notin Clients BY ProcKinds
  <2> QED BY <1>0, <1>8, <2>1 DEF CloserStep, CloseAllStart, CloseAllNext, CloseAllDone, reqVars
<1>9. CASE (\E sv \in Conns : Expire(sv)) \/ UNCHANGED vars
  BY <1>5, <1>9 DEF Expire, vars, reqVars
<1> QED BY <1>1, <1>2, <1>3, <1>4, <1>5, <1>6, <1>7, <1>8, <1>9 DEF Next, CleanerStep, CloserStep, Scanners

\* What the pool's invariants make of the owner of a connection.
SharedInv == TypeInv /\ OwnerInv /\ RouteInv /\ LeakInv /\ WantOK

OwnerOK(sv) ==
    /\ \A c \in Clients : (hand[c] = sv <=> Owner(sv) = c) /\ (hand[c] = sv => sv \in open)
    /\ (\A c \in Clients : hand[c] # sv) => Owner(sv) = IF sv \in open THEN Idle ELSE Closed
OwnersOK == \A sv \in Conns : OwnerOK(sv)

\* The owner of a connection is the client that holds it, or the pool if it is
\* open, or nobody.
LEMMA OwnerIs ==
    ASSUME TimelyPut, SharedInv
    PROVE  OwnersOK
<1> SUFFICES ASSUME NEW sv \in Conns PROVE OwnerOK(sv) BY DEF OwnersOK
<1>1. \A c \in Clients : hand[c] = sv => sv \in open /\ \A x \in Clients : hand[x] = sv => x = c
  BY ConstAssumption DEF SharedInv, OwnerInv, NoSharing, NoUseAfterClose, Holders
<1>2. ASSUME NEW c \in Clients, hand[c] = sv PROVE Owner(sv) = c
  BY <1>1, <1>2 DEF Owner
<1>3. ASSUME \A c \in Clients : hand[c] # sv
      PROVE  Owner(sv) = IF sv \in open THEN Idle ELSE Closed
  <2>1. CASE sv \notin open BY <1>3, <2>1 DEF Owner
  <2>2. CASE sv \in open
    <3>1. \/ \E p \in Holders : hand[p] = sv
          \/ \E ch \in Chans : Supervised(ch) /\ \E i \in Slots(ch) : queue[ch][i] = sv
      BY <2>2, LeakNone DEF SharedInv, NoLeak
    <3>2. \/ \E ch \in Chans : hand[ch] = sv
          \/ \E ch \in Chans : Supervised(ch) /\ \E i \in Slots(ch) : queue[ch][i] = sv
      BY <1>3, <3>1 DEF Holders
    <3> QED BY <1>3, <2>2, <3>2 DEF Owner
  <2> QED BY <2>1, <2>2
<1>4. ASSUME NEW c \in Clients, Owner(sv) = c PROVE hand[c] = sv
  <2>1. CASE \A x \in Clients : hand[x] # sv BY <1>3, <1>4, <2>1, OwnerAssumption
  <2>2. CASE \E x \in Clients : hand[x] = sv BY <1>2, <1>4, <2>2
  <2> QED BY <2>1, <2>2
<1> QED BY <1>1, <1>2, <1>3, <1>4 DEF OwnerOK

\* And so it is in the next state.
LEMMA OwnerIsNext == TimelyPut => (SharedInv' => OwnersOK')
<1>1. ASSUME TimelyPut PROVE SharedInv' => OwnersOK'
  <2>1. SharedInv => OwnersOK BY <1>1, OwnerIs
  <2> QED BY <2>1, PTL
<1> QED BY <1>1

\* The owner of a connection changes with the clients' hands and with open only.
SameOwner(sv) ==
    /\ \A c \in Clients : hand'[c] = sv <=> hand[c] = sv
    /\ sv \in open' <=> sv \in open

\* A connection for which neither changes keeps its owner.
LEMMA OwnerSame ==
    ASSUME OwnersOK, OwnersOK', NEW sv \in Conns, SameOwner(sv)
    PROVE  Owner(sv)' = Owner(sv)
<1>1. OwnerOK(sv) /\ OwnerOK(sv)' BY DEF OwnersOK
<1>2. CASE \E c \in Clients : hand[c] = sv
  BY <1>1, <1>2 DEF SameOwner, OwnerOK
<1>3. CASE \A c \in Clients : hand[c] # sv
  BY <1>1, <1>3 DEF SameOwner, OwnerOK
<1> QED BY <1>2, <1>3

\* When that is so of all, the owners are the same.
LEMMA OwnersSame ==
    ASSUME OwnersOK, OwnersOK', \A sv \in Conns : SameOwner(sv)
    PROVE  UNCHANGED [sv \in Conns |-> Owner(sv)]
  BY OwnerSame

\* When it is so of all but one, that one moves.
LEMMA OwnerMoves ==
    ASSUME OwnersOK, OwnersOK', NEW sv \in Conns, NEW from, NEW to,
           Owner(sv) = from, Owner(sv)' = to,
           \A x \in Conns : x # sv => SameOwner(x)
    PROVE  Pool!Move(sv, from, to)
<1>1. \A x \in Conns : x # sv => Owner(x)' = Owner(x) BY OwnerSame
<1> QED BY <1>1 DEF Pool!Move

\* A client holds a connection for IdlePool when it has one in hand.
LEMMA HoldsIs ==
    ASSUME OwnersOK, TypeInv, NEW c \in Clients
    PROVE  Pool!Holds(c) <=> hand[c] # NoConn
<1>1. hand[c] \in Conns \cup {NoConn} /\ NoConn \notin Conns
  BY ConstAssumption DEF TypeInv, TypeOK
<1>2. \A sv \in Conns : hand[c] = sv <=> Owner(sv) = c BY DEF OwnersOK, OwnerOK
<1> QED BY <1>1, <1>2 DEF Pool!Holds

\* A step that changes no client's hands and closes nothing is invisible.
LEMMA PoolStutter ==
    ASSUME OwnersOK, OwnersOK', UNCHANGED <<open, reqVars>>,
           \A c \in Clients : hand'[c] = hand[c]
    PROVE  UNCHANGED Pool!vars
<1>1. \A sv \in Conns : SameOwner(sv) BY DEF SameOwner
<1>2. UNCHANGED [sv \in Conns |-> Owner(sv)] BY <1>1, OwnersSame
<1> QED BY <1>2 DEF Pool!vars, reqVars

\* What is at the head of a channel is open, idle and in no client's hands.
LEMMA HeadIdle ==
    ASSUME TypeInv, OwnerInv, OwnersOK, NEW ch \in Chans, queue[ch] # <<>>
    PROVE  /\ Head(queue[ch]) \in Conns /\ Head(queue[ch]) \in open
           /\ \A c \in Clients : hand[c] # Head(queue[ch])
           /\ Owner(Head(queue[ch])) = Idle
<1>1. queue[ch] \in Seq(Conns) BY DEF TypeInv, TypeOK
<1>2. 1 \in Slots(ch) /\ Head(queue[ch]) \in Conns /\ Head(queue[ch]) = queue[ch][1]
  BY <1>1, QueueRecv DEF Slots
<1>3. Head(queue[ch]) \in open BY <1>2 DEF OwnerInv, NoUseAfterClose
<1>4. \A c \in Clients : hand[c] # Head(queue[ch])
  BY <1>2, ConstAssumption DEF OwnerInv, NoSharing, Holders
<1>5. OwnerOK(Head(queue[ch])) BY <1>2 DEF OwnersOK
<1> QED BY <1>2, <1>3, <1>4, <1>5 DEF OwnerOK

\* Closing the head of a channel is Evict.
LEMMA PoolEvict ==
    ASSUME TypeInv, OwnerInv, OwnersOK, OwnersOK', NEW ch \in Chans, queue[ch] # <<>>,
           Close(Head(queue[ch])), UNCHANGED reqVars, \A c \in Clients : hand'[c] = hand[c]
    PROVE  Pool!Next
<1>0. PICK sv \in Conns : sv = Head(queue[ch]) BY HeadIdle
<1>1. (\A c \in Clients : hand[c] # sv) /\ Owner(sv) = Idle BY <1>0, HeadIdle
<1>2. open' = open \ {sv} BY <1>0 DEF Close
<1>3. Owner(sv)' = Closed
  <2>1. OwnerOK(sv)' BY <1>1 DEF OwnersOK
  <2> QED BY <1>1, <1>2, <2>1 DEF OwnerOK
<1>4. \A x \in Conns : x # sv => SameOwner(x) BY <1>2 DEF SameOwner
<1>5. Pool!Move(sv, Idle, Closed) BY <1>1, <1>3, <1>4, OwnerMoves
<1>6. Pool!Evict(sv) BY <1>5 DEF Pool!Evict, reqVars
<1> QED BY <1>1, <1>6 DEF Pool!Next

\* One step of closeServerConn evicts an idle connection or is invisible.
LEMMA PoolScan ==
    ASSUME TypeInv, OwnerInv, OwnersOK, OwnersOK', NEW p \in Scanners, ScanStep(p)
    PROVE  Pool!Next \/ UNCHANGED Pool!vars
<1>0. hand \in [Clients \cup Chans -> Conns \cup {NoConn}] /\ p \notin Clients
  BY ScanFacts DEF TypeInv, TypeOK
<1>1. CASE ScanClose(p)
  <2>1. /\ ScanChan(p) \in Chans /\ queue[ScanChan(p)] # <<>>
        /\ Close(Head(queue[ScanChan(p)])) /\ UNCHANGED <<hand, reqVars>>
    BY <1>1, ScanFacts DEF ScanClose
  <2> QED BY <2>1, PoolEvict
<1>2. CASE ScanKeep(p) \/ ScanPutBack(p) \/ ScanEmpty(p) \/ ScanRemove(p)
  <2>1. UNCHANGED <<open, reqVars>>
    BY <1>2 DEF ScanKeep, ScanPutBack, ScanEmpty, ScanRemove, connVars
  <2>2. \A c \in Clients : hand'[c] = hand[c]
    BY <1>0, <1>2 DEF ScanKeep, ScanPutBack, ScanEmpty, ScanRemove
  <2> QED BY <2>1, <2>2, PoolStutter
<1> QED BY <1>1, <1>2 DEF ScanStep

\* A step of a cleanup goroutine evicts an idle connection or is invisible.
LEMMA PoolCleaner ==
    ASSUME TypeInv, OwnerInv, OwnersOK, OwnersOK', NEW ch \in Chans, CleanerStep(ch)
    PROVE  Pool!Next \/ UNCHANGED Pool!vars
<1>1. CASE ScanStep(ch) BY <1>1, PoolScan DEF Scanners
<1>2. CASE CleanerWake(ch) \/ CleanerFinal(ch) \/ CleanerDone(ch)
  BY <1>2, PoolStutter DEF CleanerWake, CleanerFinal, CleanerDone, connVars
<1>3. CASE CleanerDrain(ch) BY <1>3, PoolEvict DEF CleanerDrain
<1> QED BY <1>1, <1>2, <1>3 DEF CleanerStep

\* So is a step of CloseAll.
LEMMA PoolCloser ==
    ASSUME TypeInv, OwnerInv, OwnersOK, OwnersOK', NEW k \in Closers, CloseAllStart(k) \/ CloserStep(k)
    PROVE  Pool!Next \/ UNCHANGED Pool!vars
<1>1. CASE ScanStep(k) BY <1>1, PoolScan DEF Scanners
<1>2. CASE CloseAllStart(k) \/ CloseAllDone(k)
  BY <1>2, PoolStutter DEF CloseAllStart, CloseAllDone, connVars
<1>3. CASE \E ch \in Chans : CloseAllNext(k, ch)
  BY <1>3, PoolStutter DEF CloseAllNext, connVars
<1> QED BY <1>1, <1>2, <1>3 DEF CloserStep

\* A client takes up a request: Ask.
LEMMA PoolAsk ==
    ASSUME SharedInv, OwnersOK, OwnersOK', NEW c \in Clients,
           NEW h \in Hosts, NEW d \in BOOLEAN, GetLookup(c, h, d)
    PROVE  Pool!Next
<1>1. pc[c] = "idle" /\ UNCHANGED <<open, hand>> BY DEF GetLookup, connVars
<1>2. want[c] = NoHost BY <1>1 DEF SharedInv, WantOK
<1>3. hand[c] = NoConn BY <1>1 DEF SharedInv, TypeInv, HandOK, HoldingPC
<1>4. ~Pool!Holds(c) BY <1>3, HoldsIs DEF SharedInv
<1>5. UNCHANGED [sv \in Conns |-> Owner(sv)] BY <1>1, OwnersSame DEF SameOwner
<1>6. /\ want' = [want EXCEPT ![c] = h]
      /\ asDirect' = IF d THEN asDirect \cup {c} ELSE asDirect \ {c} BY DEF GetLookup
<1>7. Pool!Ask(c, h, d) BY <1>2, <1>4, <1>5, <1>6 DEF Pool!Ask
<1> QED BY <1>7 DEF Pool!Next

\* createServerConn fails: the client gives up.
LEMMA PoolGiveUp ==
    ASSUME SharedInv, OwnersOK, OwnersOK', NEW c \in Clients, DialFails(c)
    PROVE  Pool!Next
<1>1. pc[c] = "dial" /\ UNCHANGED <<open, hand>> BY DEF DialFails, connVars
<1>2. want[c] # NoHost BY <1>1 DEF SharedInv, WantOK
<1>3. hand[c] = NoConn BY <1>1 DEF SharedInv, TypeInv, HandOK, HoldingPC
<1>4. ~Pool!Holds(c) BY <1>3, HoldsIs DEF SharedInv
<1>5. UNCHANGED [sv \in Conns |-> Owner(sv)] BY <1>1, OwnersSame DEF SameOwner
<1>6. Pool!Over(c) BY DEF DialFails, RequestOver, Pool!Over
<1>7. Pool!GiveUp(c) BY <1>2, <1>4, <1>5, <1>6 DEF Pool!GiveUp
<1> QED BY <1>7 DEF Pool!Next

\* serve calls Put: the request is over.
LEMMA PoolFinish ==
    ASSUME SharedInv, OwnersOK, OwnersOK', NEW c \in Clients,
           NEW keepAlive \in BOOLEAN, PutLookup(c, keepAlive)
    PROVE  Pool!Next
<1>1. pc[c] = "using" /\ UNCHANGED <<open, hand>> BY DEF PutLookup
<1>2. want[c] # NoHost BY <1>1 DEF SharedInv, WantOK
<1>3. hand[c] # NoConn BY <1>1 DEF SharedInv, TypeInv, HandOK, HoldingPC
<1>4. Pool!Holds(c) BY <1>3, HoldsIs DEF SharedInv
<1>5. UNCHANGED [sv \in Conns |-> Owner(sv)] BY <1>1, OwnersSame DEF SameOwner
<1>6. Pool!Over(c) BY DEF PutLookup, RequestOver, Pool!Over
<1>7. Pool!Finish(c) BY <1>2, <1>4, <1>5, <1>6 DEF Pool!Finish
<1> QED BY <1>7 DEF Pool!Next

\* A connection leaves a client's hands.
LEMMA OwnerReleased ==
    ASSUME SharedInv, OwnersOK, OwnersOK', NEW c \in Clients, NEW sv \in Conns, hand[c] = sv,
           hand' = [hand EXCEPT ![c] = NoConn], open' = open \/ open' = open \ {sv}
    PROVE  Pool!Move(sv, c, IF open' = open THEN Idle ELSE Closed)
<1>0. /\ hand \in [Clients \cup Chans -> Conns \cup {NoConn}] /\ NoConn \notin Conns
  BY ConstAssumption DEF SharedInv, TypeInv, TypeOK
<1>1. \A x \in Clients : x # c => hand[x] # sv
  BY <1>0 DEF SharedInv, OwnerInv, NoSharing, Holders
<1>2. \A x \in Clients : hand'[x] # sv BY <1>0, <1>1
<1>3. Owner(sv) = c /\ sv \in open BY DEF OwnersOK, OwnerOK
<1>4. OwnerOK(sv)' BY DEF OwnersOK
<1>5. Owner(sv)' = IF sv \in open' THEN Idle ELSE Closed BY <1>2, <1>4 DEF OwnerOK
<1>6. Owner(sv)' = IF open' = open THEN Idle ELSE Closed
  <2>1. sv \in open' <=> open' = open BY <1>3
  <2> QED BY <1>5, <2>1
<1>7. ASSUME NEW x \in Conns, x # sv PROVE SameOwner(x)
  <2>1. \A y \in Clients : hand'[y] = IF y = c THEN NoConn ELSE hand[y] BY <1>0
  <2> QED BY <1>0, <1>7, <2>1 DEF SameOwner
<1> QED BY <1>3, <1>6, <1>7, OwnerMoves

\* A connection comes into a client's hands.
LEMMA OwnerTaken ==
    ASSUME SharedInv, OwnersOK, OwnersOK', NEW c \in Clients, NEW sv \in Conns, hand[c] = NoConn,
           \A x \in Clients : hand[x] # sv,
           hand' = [hand EXCEPT ![c] = sv], open' = open \cup {sv}
    PROVE  Pool!Move(sv, IF sv \in open THEN Idle ELSE Closed, c)
<1>0. /\ hand \in [Clients \cup Chans -> Conns \cup {NoConn}] /\ NoConn \notin Conns
  BY ConstAssumption DEF SharedInv, TypeInv, TypeOK
<1>1. OwnerOK(sv) /\ OwnerOK(sv)' BY DEF OwnersOK
<1>2. Owner(sv) = IF sv \in open THEN Idle ELSE Closed BY <1>1 DEF OwnerOK
<1>3. \A y \in Clients : hand'[y] = IF y = c THEN sv ELSE hand[y] BY <1>0
<1>4. Owner(sv)' = c BY <1>1, <1>3 DEF OwnerOK
<1>5. \A x \in Conns : x # sv => SameOwner(x) BY <1>0, <1>3 DEF SameOwner
<1> QED BY <1>2, <1>4, <1>5, OwnerMoves

\* serve closes a connection that is not persistent: Discard.
LEMMA PoolDiscard ==
    ASSUME SharedInv, OwnersOK, OwnersOK', NEW c \in Clients, Discard(c)
    PROVE  Pool!Next
<1>1. pc[c] = "using" BY DEF Discard
<1>2. want[c] # NoHost BY <1>1 DEF SharedInv, WantOK
<1>3. hand[c] # NoConn /\ hand[c] \in Conns \cup {NoConn}
  BY <1>1 DEF SharedInv, TypeInv, TypeOK, HandOK, HoldingPC
<1>4. PICK sv \in Conns : sv = hand[c] BY <1>3
<1>5. sv \in open BY <1>4 DEF OwnersOK, OwnerOK
<1>6. hand' = [hand EXCEPT ![c] = NoConn] /\ open' = open \ {sv} BY <1>4 DEF Discard, Close
<1>7. open' # open BY <1>5, <1>6
<1>8. Pool!Move(sv, c, Closed) BY <1>4, <1>6, <1>7, OwnerReleased
<1>9. Pool!Over(c) BY DEF Discard, RequestOver, Pool!Over
<1>10. Pool!Discard(c, sv) BY <1>2, <1>8, <1>9 DEF Pool!Discard
<1> QED BY <1>10 DEF Pool!Next

\* putConnToChan keeps the connection or closes it: Put.
LEMMA PoolPut ==
    ASSUME SharedInv, OwnersOK, OwnersOK', NEW c \in Clients, PutSend(c)
    PROVE  Pool!Next
<1>1. pc[c] = "send" BY DEF PutSend
<1>2. want[c] = NoHost BY <1>1 DEF SharedInv, WantOK
<1>3. hand[c] # NoConn /\ hand[c] \in Conns \cup {NoConn}
  BY <1>1 DEF SharedInv, TypeInv, TypeOK, HandOK, HoldingPC
<1>4. PICK sv \in Conns : sv = hand[c] BY <1>3
<1>5. hand' = [hand EXCEPT ![c] = NoConn] /\ (open' = open \/ open' = open \ {sv})
  BY <1>4 DEF PutSend, Close, connVars
<1>6. Pool!Move(sv, c, IF open' = open THEN Idle ELSE Closed) BY <1>4, <1>5, OwnerReleased
<1>7. Pool!Move(sv, c, Idle) \/ Pool!Move(sv, c, Closed)
  <2>1. CASE open' = open
    <3>1. (IF open' = open THEN Idle ELSE Closed) = Idle BY <2>1
    <3> QED BY <1>6, <3>1
  <2>2. CASE open' # open
    <3>1. (IF open' = open THEN Idle ELSE Closed) = Closed BY <2>2
    <3> QED BY <1>6, <3>1
  <2> QED BY <2>1, <2>2
<1>8. UNCHANGED <<want, asDirect>> BY DEF PutSend, reqVars
<1>9. Pool!Put(c, sv) BY <1>2, <1>7, <1>8 DEF Pool!Put
<1> QED BY <1>9 DEF Pool!Next

\* createServerConn makes a connection for the request: Make.
LEMMA PoolMake ==
    ASSUME SharedInv, OwnersOK, OwnersOK', NEW c \in Clients, NEW sv \in Conns, Dial(c, sv)
    PROVE  Pool!Next
<1>1. pc[c] = "dial" /\ sv \notin open BY DEF Dial
<1>2. want[c] # NoHost BY <1>1 DEF SharedInv, WantOK
<1>3. hand[c] = NoConn BY <1>1 DEF SharedInv, TypeInv, HandOK, HoldingPC
<1>4. ~Pool!Holds(c) BY <1>3, HoldsIs DEF SharedInv
<1>5. \A x \in Clients : hand[x] # sv BY <1>1 DEF OwnersOK, OwnerOK
<1>6. hand' = [hand EXCEPT ![c] = sv] /\ open' = open \cup {sv} BY DEF Dial
<1>7. Pool!Move(sv, Closed, c) BY <1>1, <1>3, <1>5, <1>6, OwnerTaken
<1>8. CanServe(sv, want[c], FALSE) BY DEF CanServe, Dial
<1>9. UNCHANGED <<want, asDirect>> BY DEF Dial, reqVars
<1>10. Pool!Make(c, sv) BY <1>2, <1>4, <1>7, <1>8, <1>9 DEF Pool!Make
<1> QED BY <1>10 DEF Pool!Next

\* Get takes a connection out of a channel: it may be too old, and otherwise it
\* can serve the request.
LEMMA PoolGet ==
    ASSUME SharedInv, SharedInv', OwnersOK, OwnersOK', NEW c \in Clients, GetRecv(c)
    PROVE  Pool!Next
<1>1. pc[c] \in {"getSite", "getMux"} /\ queue[chan[c]] # <<>> BY DEF GetRecv
<1>2. chan[c] \in Chans BY <1>1, ProcKinds DEF SharedInv, TypeInv, ChanOK
<1>3. UNCHANGED <<want, asDirect>> /\ UNCHANGED reqVars BY DEF GetRecv, reqVars
<1>4. CASE Close(Head(queue[chan[c]])) /\ UNCHANGED hand
  BY <1>1, <1>2, <1>3, <1>4, PoolEvict DEF SharedInv
<1>5. CASE /\ hand' = [hand EXCEPT ![c] = Head(queue[chan[c]])]
           /\ pc' = [pc EXCEPT ![c] = "using"]
           /\ UNCHANGED connVars
  <2>0. PICK sv \in Conns : sv = Head(queue[chan[c]]) BY <1>1, <1>2, HeadIdle DEF SharedInv
  <2>1. sv \in open /\ \A x \in Clients : hand[x] # sv BY <1>1, <1>2, <2>0, HeadIdle DEF SharedInv
  <2>2. want[c] # NoHost BY <1>1 DEF SharedInv, WantOK
  <2>3. hand[c] = NoConn BY <1>1 DEF SharedInv, TypeInv, HandOK, HoldingPC
  <2>4. ~Pool!Holds(c) BY <2>3, HoldsIs DEF SharedInv
  <2>5. hand' = [hand EXCEPT ![c] = sv] /\ open' = open \cup {sv}
    BY <1>5, <2>0, <2>1 DEF connVars
  <2>6. Pool!Move(sv, Idle, c) BY <2>1, <2>3, <2>5, OwnerTaken
  <2>7. pc'[c] = "using" /\ hand'[c] = sv
    BY <1>5, <2>5, ProcKinds DEF SharedInv, TypeInv, TypeOK
  <2>8. HostPort[hand'[c]] = want'[c] \/ (IsMux(hand[c])' /\ (c \in asDirect' => AlwaysProxy))
    BY <2>7 DEF SharedInv, RouteInv, ServesRequest
  <2>9. CanServe(sv, want[c], c \in asDirect) BY <1>3, <2>7, <2>8 DEF CanServe, IsMux
  <2>10. Pool!Take(c, sv) BY <1>3, <2>2, <2>4, <2>6, <2>9 DEF Pool!Take
  <2> QED BY <2>10 DEF Pool!Next
<1> QED BY <1>4, <1>5 DEF GetRecv

\* Every step of the pool is a step of IdlePool or none.
LEMMA PoolStep ==
    ASSUME TimelyPut, SharedInv, SharedInv', [Next]_vars
    PROVE  [Pool!Next]_(Pool!vars)
<1>0. OwnersOK /\ OwnersOK' /\ TypeInv /\ OwnerInv BY OwnerIs, OwnerIsNext DEF SharedInv
<1>1. ASSUME NEW c \in Clients, GetEmpty(c) \/ PutCreate(c) \/ PutStart(c) PROVE UNCHANGED Pool!vars
  BY <1>0, <1>1, PoolStutter DEF GetEmpty, PutCreate, PutStart, connVars
<1>2. ASSUME NEW c \in Clients, ClientStep(c) PROVE Pool!Next \/ UNCHANGED Pool!vars
  BY <1>0, <1>1, <1>2, PoolGet, PoolPut DEF ClientStep
<1>3. CASE (\E sv \in Conns : Expire(sv)) \/ UNCHANGED vars
  BY <1>0, <1>3, PoolStutter DEF Expire, vars, connVars
<1> QED BY <1>0, <1>2, <1>3, PoolAsk, PoolMake, PoolGiveUp, PoolDiscard, PoolFinish, PoolCleaner, PoolCloser
    DEF Next

\* The pool's invariants hold together.
LEMMA SharedInit == Init => SharedInv
<1>1. Init => OwnerInv
  BY ConstAssumption DEF Init, OwnerInv, NoSharing, NoUseAfterClose, Holders, Slots, Chans
<1>2. Init => RouteInv
  BY ConstAssumption DEF Init, RouteInv, ContentsOK, PutBackOK, GetOK, ServesRequest, Slots, Chans, Procs
<1>3. Init => WantOK
  <2>1. ASSUME Init, NEW c \in Clients PROVE pc[c] = "idle" /\ want[c] = NoHost
    BY <2>1, ProcKinds DEF Init
  <2> QED BY <2>1 DEF WantOK
<1> QED BY <1>1, <1>2, <1>3, TypeInit, LeakInit DEF SharedInv

\* Initially every connection is closed and nobody has a request.
LEMMA PoolInit == Init => Pool!Init
<1> SUFFICES ASSUME Init PROVE Pool!Init OBVIOUS
<1>1. \A sv \in Conns : Owner(sv) = Closed BY ConstAssumption DEF Init, Owner
<1> QED BY <1>1 DEF Init, Pool!Init

\* With no Put that lasts as long as the last wait of a cleanup, the pool with its
\* channels, its map, its cleanup goroutines and CloseAll implements a plain set
\* of idle connections (Get, Put, closeStaleServerConn, CloseAll).
THEOREM RefinesIdlePool == TimelyPut => (Spec => ImplementsIdlePool)
<1>1. CASE TimelyPut
  <2>1. SharedInv /\ [Next]_vars => SharedInv'
    BY <1>1, TypeNext, OwnNext, RouteNext, LeakNext, WantNext DEF SharedInv
  <2>2. SharedInv /\ SharedInv' /\ [Next]_vars => [Pool!Next]_(Pool!vars) BY <1>1, PoolStep
  <2> QED BY <2>1, <2>2, SharedInit, PoolInit, PTL DEF Spec, ImplementsIdlePool, Pool!Spec
<1>2. CASE ~TimelyPut BY <1>2
<1> QED BY <1>1, <1>2

=============================================================================
