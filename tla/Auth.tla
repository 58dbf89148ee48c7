-------------------------------- MODULE Auth --------------------------------
(***************************************************************************)
(* Authentication of HTTP clients: Authenticate with the digest and basic  *)
(* methods, and the TimeoutSet that remembers authenticated addresses.     *)
(* Every client connection is served by a goroutine of its own; those of   *)
(* one IP address share an entry of the set, and all of them the user's    *)
(* HA1 hash, which is computed when it is first needed.                    *)
(*                                                                         *)
(* A refused connection is closed by clientConn.serve; the client comes    *)
(* back with credentials for the nonce it was given.  Passwords and        *)
(* digests are right or wrong, a nonce is the time it was made at.         *)
(***************************************************************************)
EXTENDS Integers

CONSTANTS
  Settings,   \* the configurations and the clients that are looked at
  MaxClients  \* bound on the number of clients

None == -1

\* timeout: config.AuthTimeout; nonceLife: the minute a nonce is good for
\* maxTime: bound on the clock; allowed: addresses in config.AllowedClient
\* clients, with for each of them its address and
\*   method: the authorization it sends, at once or (digest) when it has a nonce
\*   right: name and password are right; portOK: the user may come in by the port
ASSUME AuthAssumption ==
  \A c \in Settings :
    /\ {c.timeout, c.nonceLife, c.maxTime} \subseteq Nat
    /\ DOMAIN c.clients \subseteq 1 .. MaxClients
    /\ \A k \in DOMAIN c.clients :
         /\ c.clients[k].method \in {"none", "basic", "digest", "malformed"}
         /\ {c.clients[k].right, c.clients[k].portOK} \subseteq BOOLEAN

VARIABLES
  cfg,      \* the setting, chosen at the start
  clock,    \* time.Now
  time,     \* TimeoutSet.time: when each address was added, or None
  ha1,      \* authUser.ha1: empty, half written, or set
  crashed,  \* a half-written string was used
  pc,       \* where the goroutine of each client is
  authed,   \* the variable authed of clientConn.serve
  header,   \* the nonce or the kind of the authorization header of the request
  nonce,    \* the nonce of the last 407 the client got, or None
  saw,      \* the time a TimeoutSet operation has read, from the set or the clock
  proof,    \* for each address, when right credentials from it were last accepted
  served    \* clients whose requests have been served

shared == <<time, ha1, crashed, proof>>
vars == <<cfg, clock, shared, pc, authed, header, nonce, saw, served>>

Clients == DOMAIN cfg.clients
IP(c) == cfg.clients[c].ip
IPs == {IP(c) : c \in Clients}

At(c, from, to) == ~crashed /\ pc[c] = from /\ pc' = [pc EXCEPT ![c] = to]

Init ==
  /\ cfg \in Settings /\ clock = 0
  /\ time = [i \in IPs |-> None] /\ proof = [i \in IPs |-> None]
  /\ ha1 = "empty" /\ crashed = FALSE
  /\ pc = [c \in Clients |-> "out"] /\ authed = [c \in Clients |-> FALSE]
  /\ header = [c \in Clients |-> "none"] /\ nonce = [c \in Clients |-> None]
  /\ saw = [c \in Clients |-> None] /\ served = {}

Tick ==
  /\ clock < cfg.maxTime /\ clock' = clock + 1
  /\ UNCHANGED <<cfg, shared, pc, authed, header, nonce, saw, served>>

-----------------------------------------------------------------------------
(* The client, and the part of clientConn.serve that asks for authentication *)

\* A digest needs a nonce; without one the first request has no header.
HeaderOf(c) ==
  IF cfg.clients[c].method = "digest" /\ nonce[c] = None THEN "none"
  ELSE cfg.clients[c].method

Connect(c) ==
  /\ At(c, "out", "has")
  /\ header' = [header EXCEPT ![c] = HeaderOf(c)]
  /\ UNCHANGED <<cfg, clock, shared, authed, nonce, saw, served>>

\* authed stays set until then: further requests do not call Authenticate.
Disconnect(c) ==
  /\ At(c, "served", "out")
  /\ authed' = [authed EXCEPT ![c] = FALSE]
  /\ UNCHANGED <<cfg, clock, shared, header, nonce, saw, served>>

\* Authenticate returns nil.
Serve(c) ==
  /\ At(c, "nil", "served")
  /\ authed' = [authed EXCEPT ![c] = TRUE] /\ served' = served \cup {c}
  /\ UNCHANGED <<cfg, clock, shared, header, nonce, saw>>

-----------------------------------------------------------------------------
(* TimeoutSet                                                              *)

\* The entry is read under the lock, and judged after it is released.
HasRead(c) ==
  /\ At(c, "has", IF time[IP(c)] = None THEN "ip" ELSE "judge")
  /\ saw' = [saw EXCEPT ![c] = time[IP(c)]]
  /\ UNCHANGED <<cfg, clock, shared, authed, header, nonce, served>>

\* Mutant: an entry never gets too old.
ExpiredNever(t) == FALSE

Expired(t) == clock - t > cfg.timeout

HasJudge(c) ==
  /\ At(c, "judge", IF Expired(saw[c]) THEN "del" ELSE "nil")
  /\ UNCHANGED <<cfg, clock, shared, authed, header, nonce, saw, served>>

\* del takes whatever is there by now, an entry added since included.
HasDel(c) ==
  /\ At(c, "del", "ip")
  /\ time' = [time EXCEPT ![IP(c)] = None]
  /\ UNCHANGED <<cfg, clock, ha1, crashed, authed, header, nonce, saw, proof, served>>

\* The time was taken before the lock; another add may have come between.
Add(c) ==
  /\ At(c, "add", "nil")
  /\ time' = [time EXCEPT ![IP(c)] = saw[c]]
  /\ UNCHANGED <<cfg, clock, ha1, crashed, authed, header, nonce, saw, proof, served>>

-----------------------------------------------------------------------------
(* authIP and authUserPasswd                                               *)

AuthIP(c) ==
  /\ At(c, "ip", IF IP(c) \in cfg.allowed THEN "nil" ELSE "check")
  /\ UNCHANGED <<cfg, clock, shared, authed, header, nonce, saw, served>>

\* Mutant: only a nonce older than the limit is taken.
FreshNonceNot(c) == clock - nonce[c] > cfg.nonceLife

FreshNonce(c) == clock - nonce[c] <= cfg.nonceLife

Credentials(c) == cfg.clients[c].right /\ cfg.clients[c].portOK

\* Mutant: authBasic looks at the port only.
VerdictPort(c) ==
  CASE header[c] = "none" -> "challenge"
    [] header[c] = "malformed" -> "badRequest"
    [] header[c] = "basic" -> IF cfg.clients[c].portOK THEN "accept" ELSE "challenge"
    [] header[c] = "digest" ->
         IF FreshNonce(c) /\ cfg.clients[c].portOK THEN "digest" ELSE "challenge"

\* checkProxyAuthorization.  Both authBasic and authDigest say errAuthRequired
\* to a wrong user, password, digest or port, and authDigest to an old nonce.
Verdict(c) ==
  CASE header[c] = "none" -> "challenge"
    [] header[c] = "malformed" -> "badRequest"
    [] header[c] = "basic" -> IF Credentials(c) THEN "accept" ELSE "challenge"
    [] header[c] = "digest" ->
         IF FreshNonce(c) /\ cfg.clients[c].portOK THEN "digest" ELSE "challenge"

Check(c) ==
  /\ At(c, "check", Verdict(c))
  /\ UNCHANGED <<cfg, clock, shared, authed, header, nonce, saw, served>>

\* initHA1 is not locked, and a string is written in two parts.
InitHA1(c) ==
  /\ At(c, "digest", IF ha1 = "empty" THEN "store" ELSE "compare")
  /\ ha1' = (IF ha1 = "empty" THEN "half" ELSE ha1)
  /\ UNCHANGED <<cfg, clock, time, crashed, authed, header, nonce, saw, proof, served>>

StoreHA1(c) ==
  /\ At(c, "store", "compare") /\ ha1' = "set"
  /\ UNCHANGED <<cfg, clock, time, crashed, authed, header, nonce, saw, proof, served>>

\* calcRequestDigest; a half-written HA1 has a length and no bytes.
Compare(c) ==
  /\ At(c, "compare", IF cfg.clients[c].right THEN "accept" ELSE "challenge")
  /\ crashed' = (ha1 # "set")
  /\ UNCHANGED <<cfg, clock, time, ha1, authed, header, nonce, saw, proof, served>>

\* checkProxyAuthorization returns nil, and add reads the clock.
Accept(c) ==
  /\ At(c, "accept", "add")
  /\ saw' = [saw EXCEPT ![c] = clock]
  /\ proof' = [proof EXCEPT ![IP(c)] = IF Credentials(c) THEN clock ELSE @]
  /\ UNCHANGED <<cfg, clock, time, ha1, crashed, authed, header, nonce, served>>

\* The 407 carries a nonce; the 400 does not.  serve closes the connection.
Challenge(c) ==
  /\ At(c, "challenge", "out")
  /\ nonce' = [nonce EXCEPT ![c] = clock]
  /\ UNCHANGED <<cfg, clock, shared, authed, header, saw, served>>

BadRequest(c) ==
  /\ At(c, "badRequest", "out")
  /\ UNCHANGED <<cfg, clock, shared, authed, header, nonce, saw, served>>

Handle(c) == \/ Serve(c) \/ HasRead(c) \/ HasJudge(c) \/ HasDel(c) \/ Add(c)
             \/ AuthIP(c) \/ Check(c) \/ InitHA1(c) \/ StoreHA1(c) \/ Compare(c)
             \/ Accept(c) \/ Challenge(c) \/ BadRequest(c)

Crashed == crashed /\ UNCHANGED vars

Next == \/ Tick \/ Crashed
        \/ \E c \in Clients : Handle(c) \/ Connect(c) \/ Disconnect(c)

Spec == Init /\ [][Next]_vars

\* Goroutines go on, and a client that was refused tries again.  The clock is
\* bounded: a client is not for ever slower than its nonces expire.
FairSpec ==
  /\ Spec
  /\ \A k \in 1 .. MaxClients : WF_vars(k \in Clients /\ (Handle(k) \/ Connect(k)))

-----------------------------------------------------------------------------
Places == {"out", "served", "nil", "has", "judge", "del", "add", "ip", "check",
           "challenge", "badRequest", "digest", "store", "compare", "accept"}

\* Every variable holds a value the code can give it; no entry of the set is
\* from the future.
TypeOK ==
  /\ cfg \in Settings /\ clock \in 0 .. cfg.maxTime
  /\ ha1 \in {"empty", "half", "set"} /\ crashed \in BOOLEAN
  /\ pc \in [Clients -> Places] /\ authed \in [Clients -> BOOLEAN]
  /\ header \in [Clients -> {"none", "basic", "digest", "malformed"}]
  /\ served \subseteq Clients
  /\ time \in [IPs -> {None} \cup 0 .. clock] /\ proof \in [IPs -> {None} \cup 0 .. clock]
  /\ nonce \in [Clients -> {None} \cup 0 .. clock]
  /\ saw \in [Clients -> {None} \cup 0 .. clock]

\* A connection is authed only when its address is allowed or right credentials
\* have been accepted from that address, whichever connection they came by.
AuthedByProof ==
  \A c \in Clients : authed[c] => IP(c) \in cfg.allowed \/ proof[IP(c)] # None

\* The cache lets a request pass only within AuthTimeout of the last time that
\* right credentials from its address were accepted, in whatever order has, del
\* and add of several connections come.
CacheExpires ==
  [][\A c \in Clients : pc[c] = "judge" /\ pc'[c] = "nil" =>
       clock - proof[IP(c)] <= cfg.timeout]_vars

\* has can delete an entry that another goroutine has just renewed, add can
\* store a time that is older than the one it replaces, and a nonce can expire:
\* a client with right credentials is served all the same, when it keeps on
\* answering, because no entry of the set is needed for that.
RightOnesServed ==
  \A k \in 1 .. MaxClients :
    (k \in Clients /\ Credentials(k) /\ cfg.clients[k].method \in {"basic", "digest"})
      ~> (k \in served \/ crashed)
=============================================================================
