------------------------------- MODULE Serve -------------------------------
(***************************************************************************)
(* One client connection of the HTTP proxy: the loop of clientConn.serve   *)
(* (proxy.go) for requests other than CONNECT, with everything it calls to *)
(* carry a request to a server and the answer back: getServerConn and      *)
(* connectServer, doRequest (sendRequestHeader, sendRequestBody and the    *)
(* serverWriter that keeps a copy of the body), readResponse, the two      *)
(* handlers of server errors and shouldRetry.                              *)
(*                                                                         *)
(* The client's bytes are a stream of units: a "head" (request line and    *)
(* header) or a "body" unit, one write of the body.  A unit is named by    *)
(* its position in Stream, so that what is re-sent, skipped or left unread *)
(* can be told apart.  The bytes of an answer are not kept, only how many  *)
(* answers the request got and whether one was cut short.                  *)
(***************************************************************************)
EXTENDS Integers, Sequences, FiniteSets

CONSTANT
  Settings  \* the clients, sites and configurations that are looked at

Classes == {"alwaysDirect", "alwaysBlocked", "dynamic"}
FaultKinds == {"dial", "serverWrite", "serverEOF", "serverError", "blocking",
               "cutBody", "clientClose"}

\* stream: what the client sends, a sequence of "head" and "body"
\* chunked: how its bodies are framed, in chunks or by Content-Length
\* websocket: may its requests ask for an upgrade to WebSocket
\* parents: is a parent proxy configured (not parentProxy.empty())
\* alwaysProxy: config.AlwaysProxy
\* class: what the user's site lists say of the requested site
\* bufUnits: body units that fill Request.raw (2 * httpBufSize)
\* faults: the failures that may happen
\* maxHits: bound, connections that the pool can offer
\* maxExpire: bound, how often tmpBlockedTimeout can run out
ASSUME ServeAssumption ==
  \A c \in Settings :
    /\ c.stream \in Seq({"head", "body"})
    /\ Len(c.stream) > 0 => c.stream[1] = "head"
    /\ {c.chunked, c.websocket, c.parents, c.alwaysProxy} \subseteq BOOLEAN
    /\ c.class \in Classes
    /\ c.faults \subseteq FaultKinds
    /\ {c.bufUnits, c.maxHits, c.maxExpire} \subseteq Nat

VARIABLES
  cfg,        \* the setting, chosen at the start
  pc,         \* where serve is
  pos,        \* units read from the client
  avail,      \* units the client has sent
  cliClosed,  \* the client has closed its side
  start,      \* position of the head of the request being served
  tryCnt,     \* Request.tryCnt
  state,      \* Request.state
  raw,        \* body units held in Request.raw, or NoRaw when it is nil
  partial,    \* Request.partial
  got,        \* body units read by the sendBody that is running
  delivered,  \* body units written to the server in this try
  sv,         \* the server connection in use, or NoServer
  blocked,    \* VisitCnt.AsTempBlocked() of the site
  standing,   \* do the visit counters call the site blocked
  answered,   \* response heads and error pages written for this request
  cut,        \* the answer just sent is shorter than its header says
  avoid,      \* TempBlocked was called to make the next try use a parent
  hits,       \* connections the pool may still offer
  expire      \* times the temporary block may still run out

Stream == cfg.stream
Chunked == cfg.chunked
Parents == cfg.parents
AlwaysProxy == cfg.alwaysProxy
Faults == cfg.faults

request == <<start, tryCnt, state, raw, partial>>
client == <<pos, avail, cliClosed>>
site == <<blocked, standing, expire>>
vars == <<cfg, pc, client, request, got, delivered, sv, site, answered, cut,
          avoid, hits>>

-----------------------------------------------------------------------------
(* The request (http.go)                                                   *)

\* The states of a request, in their order: created, sent, receiving the
\* response, done.
rsCreated == 0
rsSent == 1
rsRecvBody == 2
rsDone == 3

NoRaw == <<0>>
NoServer == [kind |-> "none", connected |-> FALSE]

\* The units of the body that follows the head at position h.
BodyOf(h) ==
  {i \in (h + 1) .. Len(Stream) : \A j \in (h + 1) .. i : Stream[j] = "body"}
BodyLen == IF start = 0 THEN 0 ELSE Cardinality(BodyOf(start))
WholeBody == [i \in 1 .. BodyLen |-> start + i]

hasBody == BodyLen > 0
\* Mutant: the second try does not count as a retry.
isRetryLate == tryCnt > 2
isRetry == tryCnt > 1
tooManyRetry == tryCnt > 3
\* Mutant: a response that has begun still counts as not sent.
responseNotSentLate == state <= rsRecvBody
responseNotSent == state <= rsSent
hasSent == state >= rsSent

-----------------------------------------------------------------------------
(* What is known of the site (sitestat.go)                                 *)

\* Without parents every site is an always-direct one.
AlwaysDirect == ~Parents \/ cfg.class = "alwaysDirect"
AlwaysBlocked == Parents /\ cfg.class = "alwaysBlocked"

\* The values AsBlocked may return: a site that the counters call blocked is
\* sometimes tried directly, by chance.
AsBlocked ==
  IF AlwaysBlocked \/ (~AlwaysDirect /\ blocked) THEN {TRUE}
  ELSE IF ~AlwaysDirect /\ standing = "blocked" THEN BOOLEAN
  ELSE {FALSE}

\* The standing after DirectVisit or BlockedVisit, which may take blockedDelta
\* calls to change it; neither counts when the network looks bad or the user
\* has listed the site.
AfterVisit(kind) ==
  {standing} \cup
  (IF AlwaysDirect \/ AlwaysBlocked THEN {}
   ELSE IF kind = "direct" THEN {"open"}
   ELSE {"blocked"})

-----------------------------------------------------------------------------
(* Connecting (proxy.go)                                                   *)

\* Mutant: forgets the sites that the user says are direct.
maybeFakeListed == sv.connected /\ sv.kind = "direct"

\* A direct connection that has answered nothing yet may be to a fake server.
maybeFake == sv.connected /\ sv.kind = "direct" /\ ~AlwaysDirect

\* What connectServer returns when AsBlocked says asBlocked, dialling the site
\* succeeds or not and connecting through a parent succeeds or not:
\* "fallback" is a parent connection after a failed direct one, which marks
\* the site as temporarily blocked, and "fail" is the error page.
connectServer(asBlocked, direct, parent) ==
  IF AlwaysProxy THEN IF parent THEN "parent" ELSE "fail"
  ELSE IF asBlocked /\ Parents
  THEN CASE parent -> "parent"
         [] ~parent /\ (AlwaysBlocked \/ blocked) -> "fail"
         [] OTHER -> IF direct THEN "direct" ELSE "fail"
  ELSE CASE direct -> "direct"
         [] ~direct /\ AlwaysDirect -> "fail"
         [] OTHER -> IF parent THEN "fallback" ELSE "fail"

\* The outcomes of dialling that the run lets happen.
DialResults(possible) ==
  IF possible THEN IF "dial" \in Faults THEN BOOLEAN ELSE {TRUE} ELSE {FALSE}

\* The pool holds connections that connectServer made for some request.
PoolKinds ==
  IF AlwaysProxy \/ AlwaysBlocked THEN IF Parents THEN {"parent"} ELSE {}
  ELSE IF AlwaysDirect THEN {"direct"}
  ELSE {"direct", "parent"}

-----------------------------------------------------------------------------
Init ==
  /\ cfg \in Settings
  /\ pc = "parse"
  /\ pos = 0 /\ avail = 0 /\ cliClosed = FALSE
  /\ start = 0 /\ tryCnt = 0 /\ state = rsCreated
  /\ raw = <<>> /\ partial = FALSE
  /\ got = 0 /\ delivered = <<>>
  /\ sv = NoServer
  /\ blocked = FALSE
  /\ standing \in IF AlwaysDirect \/ AlwaysBlocked THEN {"open"}
                   ELSE {"open", "blocked"}
  /\ answered = 0 /\ cut = FALSE /\ avoid = FALSE
  /\ hits = cfg.maxHits /\ expire = cfg.maxExpire

(* The client and the world around the connection.                         *)
ClientSend ==
  /\ ~cliClosed /\ avail < Len(Stream)
  /\ avail' = avail + 1
  /\ UNCHANGED <<cfg, pc, pos, cliClosed, request, got, delivered, sv, site,
                 answered, cut, avoid, hits>>

ClientClose ==
  /\ "clientClose" \in Faults \/ avail = Len(Stream)
  /\ ~cliClosed
  /\ cliClosed' = TRUE
  /\ UNCHANGED <<cfg, pc, pos, avail, request, got, delivered, sv, site,
                 answered, cut, avoid, hits>>

\* Two minutes after the last TempBlocked.
BlockExpires ==
  /\ blocked /\ expire > 0
  /\ blocked' = FALSE /\ expire' = expire - 1
  /\ avoid' = FALSE
  /\ UNCHANGED <<cfg, pc, client, request, got, delivered, sv, standing,
                 answered, cut, hits>>

-----------------------------------------------------------------------------
(* Reading a request                                                       *)

\* parseRequest succeeds and nothing keeps the request from being served.
ParseRequest ==
  /\ pc = "parse" /\ pos < avail
  /\ Stream[pos + 1] = "head"
  /\ pos' = pos + 1 /\ start' = pos + 1
  /\ tryCnt' = 0 /\ state' = rsCreated /\ raw' = <<>> /\ partial' = FALSE
  /\ answered' = 0 /\ cut' = FALSE /\ avoid' = FALSE
  /\ got' = 0 /\ delivered' = <<>>
  /\ pc' = "retry"
  /\ UNCHANGED <<cfg, avail, cliClosed, sv, site, hits>>

\* The request is malformed, or is for the proxy itself, lacks credentials or
\* has an Expect header: it is answered and the connection is closed.
RefuseRequest ==
  /\ pc = "parse" /\ pos < avail
  /\ pos' = pos + 1
  /\ start' = pos + 1
  /\ tryCnt' = 0 /\ state' = rsCreated /\ raw' = <<>> /\ partial' = FALSE
  /\ answered' = 1 /\ cut' = FALSE
  /\ got' = 0 /\ delivered' = <<>>
  /\ pc' = "closed"
  /\ UNCHANGED <<cfg, avail, cliClosed, sv, site, avoid, hits>>

\* No request: the client has closed, or its next request does not come in
\* time and it is told so.
NoRequest ==
  /\ pc = "parse" /\ pos = avail
  /\ pc' = "closed"
  /\ UNCHANGED <<cfg, client, request, got, delivered, sv, site, answered, cut,
                 avoid, hits>>

-----------------------------------------------------------------------------
(* Getting a server connection: the label retry of serve, getServerConn    *)

\* Pool.Get does not ask whether the site is temporarily blocked.
PoolHit ==
  /\ pc = "retry"
  /\ hits > 0 /\ hits' = hits - 1
  /\ \E k \in PoolKinds : sv' = [kind |-> k, connected |-> TRUE]
  /\ tryCnt' = tryCnt + 1
  /\ pc' = "header"
  /\ UNCHANGED <<cfg, client, start, state, raw, partial, got, delivered, site,
                 answered, cut, avoid>>

Connect ==
  /\ pc = "retry"
  /\ tryCnt' = tryCnt + 1
  /\ \E a \in AsBlocked, d \in DialResults(TRUE), p \in DialResults(Parents) :
       LET c == connectServer(a, d, p) IN
       /\ c # "fail"
       /\ sv' = [kind |-> IF c = "direct" THEN "direct" ELSE "parent",
                 connected |-> TRUE]
       /\ blocked' = (blocked \/ c = "fallback")
  /\ pc' = "header"
  /\ UNCHANGED <<cfg, client, start, state, raw, partial, got, delivered,
                 standing, expire, answered, cut, avoid, hits>>

\* The client gets an error page and the request's body is skipped.
ConnectFails ==
  /\ pc = "retry"
  /\ tryCnt' = tryCnt + 1
  /\ \E a \in AsBlocked, d \in DialResults(TRUE), p \in DialResults(Parents) :
       connectServer(a, d, p) = "fail"
  /\ answered' = answered + 1
  /\ got' = 0
  /\ pc' = IF hasBody THEN "skip" ELSE "parse"
  /\ UNCHANGED <<cfg, client, start, state, raw, partial, delivered, sv, site,
                 cut, avoid, hits>>

-----------------------------------------------------------------------------
(* sendBody over the client's stream                                       *)

\* A chunked body is parsed, so another request's head is an error there; a
\* body with a Content-Length is so many bytes, whatever they are.
ReadsUnit == pos < avail /\ (Chunked => Stream[pos + 1] = "body")
ReadFails ==
  \/ pos = avail /\ cliClosed
  \/ pos < avail /\ ~ReadsUnit

\* At the end of the client's stream copyN stops and reports no error; the
\* chunked reader finds out when it looks for the next chunk.
EndsEarly == pos = avail /\ cliClosed /\ ~Chunked

SkipUnit ==
  /\ pc = "skip"
  /\ ReadsUnit
  /\ pos' = pos + 1 /\ got' = got + 1
  /\ pc' = IF got + 1 = BodyLen THEN "parse" ELSE "skip"
  /\ UNCHANGED <<cfg, avail, cliClosed, request, delivered, sv, site, answered,
                 cut, avoid, hits>>

\* serve does not look at the error.
SkipFails ==
  /\ pc = "skip"
  /\ ReadFails
  /\ pc' = "parse"
  /\ UNCHANGED <<cfg, client, request, got, delivered, sv, site, answered, cut,
                 avoid, hits>>

-----------------------------------------------------------------------------
(* How a try ends without a complete response: the connection is closed.   *)
(* Each operator here gives pc, sv, answered, tryCnt, blocked and avoid    *)
(* their next values.                                                      *)

\* Mutant: the count starts over for every connection, not only for one that
\* may be fake.
RetryVerdictResets ==
  IF ~responseNotSent THEN "no"
  ELSE IF partial' THEN "page"
  ELSE IF raw' = NoRaw THEN "panic"
  ELSE IF ~tooManyRetry THEN "again"
  ELSE "block"

\* What shouldRetry makes of a RetryError.
RetryVerdict ==
  IF ~responseNotSent THEN "no"
  ELSE IF partial' THEN "page"
  ELSE IF raw' = NoRaw THEN "panic"
  ELSE IF ~tooManyRetry THEN "again"
  ELSE IF maybeFake THEN "block"
  ELSE "page"

\* shouldRetry for a RetryError, before which TempBlocked may have been called.
shouldRetry(tempBlocked) ==
  LET verdict == RetryVerdict
      mark == tempBlocked \/ verdict = "block"
  IN /\ sv' = NoServer
     /\ pc' = CASE verdict \in {"no", "page"} -> "closed"
                [] verdict = "panic" -> "panic"
                [] OTHER -> "retry"
     /\ answered' = IF verdict = "page" THEN answered + 1 ELSE answered
     /\ tryCnt' = IF verdict = "block" THEN 0 ELSE tryCnt
     /\ blocked' = (blocked \/ mark)
     /\ avoid' = (avoid \/ mark)

\* An error that is neither a RetryError nor errPageSent.
GiveUp ==
  /\ sv' = NoServer
  /\ pc' = "closed"
  /\ UNCHANGED <<answered, tryCnt, blocked, avoid>>

\* Mutant: the connection is not closed after an error page.
ErrorPageKeepsServer ==
  /\ answered' = answered + 1
  /\ pc' = IF ~hasBody \/ hasSent THEN "parse" ELSE "closed"
  /\ UNCHANGED <<sv, tryCnt, blocked, avoid>>

\* errPageSent: serve goes on with the next request if it has read the body.
ErrorPage ==
  /\ sv' = NoServer
  /\ answered' = answered + 1
  /\ pc' = IF ~hasBody \/ hasSent THEN "parse" ELSE "closed"
  /\ UNCHANGED <<tryCnt, blocked, avoid>>

\* Only a reset by a server that may be fake says that the site is blocked.
handleServerWriteError ==
  /\ "serverWrite" \in Faults
  /\ \E reset \in BOOLEAN : shouldRetry(reset /\ maybeFake)

\* An end of file, a sign of blocking (a timeout, a reset or the configured
\* status code), or any other error.
handleServerReadError(err) ==
  IF err = "serverEOF" THEN shouldRetry(FALSE)
  ELSE IF err = "blocking" /\ maybeFake /\ Parents THEN shouldRetry(TRUE)
  ELSE IF responseNotSent THEN ErrorPage
  ELSE GiveUp

-----------------------------------------------------------------------------
(* doRequest                                                               *)

\* sendRequestHeader also sends the body units that Request.raw holds.  On a
\* retry the body is not read again.
SendHeader ==
  /\ pc = "header"
  /\ delivered' = raw
  /\ got' = 0
  /\ IF hasBody /\ ~isRetry
     THEN pc' = "body" /\ state' = rsCreated
     ELSE pc' = "response" /\ state' = rsSent
  /\ UNCHANGED <<cfg, client, start, tryCnt, raw, partial, sv, site, answered,
                 cut, avoid, hits>>

SendHeaderFails ==
  /\ pc = "header"
  /\ state' = rsCreated
  /\ delivered' = <<>>
  /\ UNCHANGED <<raw, partial>>
  /\ handleServerWriteError
  /\ UNCHANGED <<cfg, client, start, got, standing, expire, cut, hits>>

\* Mutant: the buffer is released and the request is not marked as partial.
serverWriterUnmarked(unit) ==
  IF raw = NoRaw THEN UNCHANGED <<raw, partial>>
  ELSE IF Len(raw) >= cfg.bufUnits THEN raw' = NoRaw /\ UNCHANGED partial
  ELSE raw' = Append(raw, unit) /\ UNCHANGED partial

\* serverWriter.Write keeps the unit for a retry while there is room, and
\* gives up retrying when there is none.
serverWriter(unit) ==
  IF raw = NoRaw THEN UNCHANGED <<raw, partial>>
  ELSE IF Len(raw) >= cfg.bufUnits THEN raw' = NoRaw /\ partial' = TRUE
  ELSE raw' = Append(raw, unit) /\ UNCHANGED partial

SendBodyUnit ==
  /\ pc = "body"
  /\ ReadsUnit
  /\ pos' = pos + 1 /\ got' = got + 1
  /\ serverWriter(pos + 1)
  /\ delivered' = Append(delivered, pos + 1)
  /\ IF got + 1 = BodyLen
     THEN pc' = "response" /\ state' = rsSent
     ELSE UNCHANGED <<pc, state>>
  /\ UNCHANGED <<cfg, avail, cliClosed, start, tryCnt, sv, site, answered, cut,
                 avoid, hits>>

SendBodyUnitFails ==
  /\ pc = "body"
  /\ ReadsUnit
  /\ pos' = pos + 1 /\ got' = got + 1
  /\ serverWriter(pos + 1)
  /\ handleServerWriteError
  /\ UNCHANGED <<cfg, avail, cliClosed, start, state, delivered, standing,
                 expire, cut, hits>>

\* The client closes before the end of the body: with a Content-Length
\* sendBody reports success, with chunks it reports the error.
BodyEndsEarly ==
  /\ pc = "body"
  /\ EndsEarly
  /\ pc' = "response" /\ state' = rsSent
  /\ UNCHANGED <<cfg, client, start, tryCnt, raw, partial, got, delivered, sv,
                 site, answered, cut, avoid, hits>>

BodyReadFails ==
  /\ pc = "body"
  /\ ReadFails /\ ~EndsEarly
  /\ GiveUp
  /\ UNCHANGED <<cfg, client, start, state, raw, partial, got, delivered,
                 standing, expire, cut, hits>>

-----------------------------------------------------------------------------
(* readResponse                                                            *)

\* Waiting for the head of the response: its status line, or the rest.
Awaiting == {"response", "resphead"}

\* The status line has come; with it goes the deadline, if there was one.
ReadStatusLine ==
  /\ pc = "response"
  /\ pc' = "resphead"
  /\ UNCHANGED <<cfg, client, request, got, delivered, sv, site, answered, cut,
                 avoid, hits>>

\* The head of the response is passed on; the copy of the request is no longer
\* needed.  Writing to a client that has gone may fail.
ReadHead ==
  /\ pc = "resphead"
  /\ state' = rsRecvBody
  /\ raw' = NoRaw
  /\ \/ /\ sv' = [sv EXCEPT !.connected = FALSE]
        /\ answered' = answered + 1
        /\ pc' = "respbody"
        /\ UNCHANGED <<tryCnt, blocked, avoid>>
     \/ cliClosed /\ GiveUp
  /\ UNCHANGED <<cfg, client, start, partial, got, delivered, standing, expire,
                 cut, hits>>

\* No response comes, or one that cannot be parsed.
ReadError ==
  /\ pc \in Awaiting
  /\ UNCHANGED <<raw, partial>>
  /\ \E err \in Faults \cap {"serverEOF", "blocking", "serverError"} :
       handleServerReadError(err)
  /\ UNCHANGED <<cfg, client, start, state, got, delivered, standing, expire,
                 cut, hits>>

\* The response is complete: the connection goes to the pool or is closed, and
\* serve goes on unless the client asked to close.
Finish ==
  /\ state' = rsDone
  /\ standing' \in AfterVisit(sv.kind)
  /\ sv' = NoServer
  /\ pc' \in {"parse", "closed"}

ReadBody ==
  /\ pc = "respbody"
  /\ Finish
  /\ UNCHANGED <<cfg, client, start, tryCnt, raw, partial, got, delivered,
                 blocked, expire, answered, cut, avoid, hits>>

\* The server closes inside a body with a Content-Length: copyN reports no
\* error, and the response counts as complete.
ReadBodyCut ==
  /\ pc = "respbody"
  /\ "cutBody" \in Faults
  /\ cut' = TRUE
  /\ Finish
  /\ UNCHANGED <<cfg, client, start, tryCnt, raw, partial, got, delivered,
                 blocked, expire, answered, avoid, hits>>

\* Any other error inside the response's body: the server closes inside a
\* chunk or the connection breaks, or the client has gone.
ReadBodyFails ==
  /\ pc = "respbody"
  /\ cut' = TRUE
  /\ UNCHANGED <<raw, partial>>
  /\ \/ (cliClosed \/ "cutBody" \in Faults) /\ GiveUp
     \/ \E err \in Faults \cap {"blocking", "serverError"} :
          handleServerReadError(err)
  /\ UNCHANGED <<cfg, client, start, state, got, delivered, standing, expire,
                 hits>>

\* The response switches to the WebSocket protocol.  copyClient2Server first
\* re-sends what Request.raw holds if this is a retry; after the tunnel both
\* connections are closed.
Upgrade ==
  /\ pc = "respbody"
  /\ cfg.websocket
  /\ sv' = NoServer
  /\ pc' = IF isRetry /\ raw = NoRaw THEN "panic" ELSE "closed"
  /\ UNCHANGED <<cfg, client, request, got, delivered, site, answered, cut,
                 avoid, hits>>

-----------------------------------------------------------------------------
Proxy ==
  \/ ParseRequest \/ RefuseRequest \/ NoRequest
  \/ PoolHit \/ Connect \/ ConnectFails
  \/ SkipUnit \/ SkipFails
  \/ SendHeader \/ SendHeaderFails
  \/ SendBodyUnit \/ SendBodyUnitFails \/ BodyEndsEarly \/ BodyReadFails
  \/ ReadStatusLine \/ ReadHead \/ ReadError
  \/ ReadBody \/ ReadBodyCut \/ ReadBodyFails \/ Upgrade

\* After the connection is closed only time passes.
Done == pc = "closed" /\ UNCHANGED vars

Next == ClientSend \/ ClientClose \/ BlockExpires \/ Proxy \/ Done

Spec == Init /\ [][Next]_vars

\* parseResponse sets a deadline for the status line only, and only if the
\* server may be fake: for the rest the proxy waits as long as the server does.
Waits == (pc = "response" /\ ~maybeFake) \/ pc \in {"resphead", "respbody"}

\* serve goes on where it does not wait so, and the client sends its requests
\* and closes.
FairSpec ==
  /\ Spec
  /\ WF_vars(Proxy /\ ~Waits) /\ WF_vars(ClientSend) /\ WF_vars(ClientClose)

-----------------------------------------------------------------------------
(* Properties                                                              *)

Steps == {"parse", "retry", "skip", "header", "body", "response", "resphead",
          "respbody", "closed", "panic"}
Units == 1 .. Len(Stream)

\* Types, and what holds of the counters of serve and Request: a request is
\* tried four times at most before tooManyRetry ends it or resets its count.
TypeOK ==
  /\ cfg \in Settings
  /\ pc \in Steps
  /\ pos \in 0 .. avail /\ avail \in 0 .. Len(Stream) /\ cliClosed \in BOOLEAN
  /\ start \in 0 .. pos
  /\ tryCnt \in 0 .. 4
  /\ state \in {rsCreated, rsSent, rsRecvBody, rsDone}
  /\ raw = NoRaw \/ (raw \in Seq(Units) /\ Len(raw) <= cfg.bufUnits)
  /\ partial \in BOOLEAN
  /\ got \in 0 .. BodyLen
  /\ delivered \in Seq(Units)
  /\ sv = NoServer \/ sv \in [kind : {"direct", "parent"}, connected : BOOLEAN]
  /\ blocked \in BOOLEAN
  /\ standing \in {"open", "blocked"}
  /\ answered \in Nat
  /\ cut \in BOOLEAN /\ avoid \in BOOLEAN
  /\ hits \in 0 .. cfg.maxHits /\ expire \in 0 .. cfg.maxExpire

\* The client gets one answer for each request that serve has taken up: never
\* a second response head or error page for the same request (from a retry
\* after the response has begun, or from a page sent by shouldRetry after one
\* by an error handler), and one before serve turns to the next request.  When
\* reading the body of a response fails, "The client connection will be closed
\* to indicate this error", as the client has no other way to notice.  (The end
\* of file inside a body with a Content-Length, ReadBodyCut, is not a failure
\* to the code.)
OneAnswer ==
  /\ answered <= 1
  /\ pc \in {"retry", "header", "body", "response", "resphead"} => answered = 0
  /\ pc \in {"parse", "skip"} /\ start # 0 => answered = 1
  /\ cut /\ "cutBody" \notin Faults => pc = "closed"

\* The panic of shouldRetry, for a request to be retried whose buffer has been
\* released though it was not marked partial, is not reached, and no try sends
\* from the released buffer.  (An upgrade to WebSocket after a retry does read
\* it: there alone serve panics.)
NoPanic ==
  /\ pc = "panic" => cfg.websocket /\ isRetry /\ ~responseNotSent
  /\ pc = "header" => raw # NoRaw

\* Every server connection is closed or goes back to the pool before serve
\* asks for another one, turns to the next request or ends.
ServerReleased ==
  pc \in {"parse", "retry", "skip", "closed"} => sv = NoServer

\* "Caller should guarantee that always direct url does not attempt blocked
\* visit": an always-direct site is never marked as blocked or reached through
\* a parent, an always-blocked one never directly, and with AlwaysProxy
\* nothing is reached directly.  "consider the url as temp blocked and try
\* parent proxy": once a request has marked its site as blocked, and while the
\* mark lasts, it is not tried again over a direct connection, unless the pool
\* still has one.
SiteRules ==
  /\ AlwaysDirect => ~blocked
  /\ AlwaysDirect /\ ~AlwaysProxy => sv.kind # "parent"
  /\ AlwaysBlocked \/ AlwaysProxy => sv.kind # "direct"
  /\ avoid /\ (cfg.maxHits = 0 \/ AlwaysProxy) => sv.kind # "direct"

\* The client's stream stays in step: the body that serve reads or skips for a
\* request is the one that follows its head, read once, and serve looks for
\* the next request right after it.
InStep ==
  /\ pos <= start + BodyLen
  /\ pc = "parse" /\ pos < start + BodyLen => cliClosed /\ pos = avail

\* The settings in which no body is cut short or read again: there is none, or
\* neither a failed dial or write nor a client that leaves comes inside one, and
\* not so many direct connections fail that shouldRetry starts the count of tries
\* again: none ends before the response, and after one that looked blocked the
\* next is to a parent, but twice at most the pool has another one or the mark
\* has run out.
KeepsPlace ==
  \/ \A u \in DOMAIN Stream : Stream[u] # "body"
  \/ /\ Faults \cap {"dial", "serverWrite", "clientClose"} = {}
     /\ \/ AlwaysProxy
        \/ "serverEOF" \notin Faults /\ cfg.maxHits + cfg.maxExpire <= 2

\* Over every other failure and retry the client's stream stays in step, and
\* when serve waits for the response the server has been sent the whole body of
\* the request, once, whether this is the first try or a retry.
StaysInStep ==
  KeepsPlace => InStep /\ (pc \in Awaiting => delivered = WholeBody)

\* Whatever fails, serve comes to an end once the client stops sending: it does
\* not retry for ever, nor wait for a server that may be fake to begin its
\* answer.  (It does wait for one that may not be, and for the rest of an
\* answer that has begun: if the server falls silent there, for ever.)
ServeEnds == <>(pc = "closed") \/ <>[]Waits
=============================================================================
