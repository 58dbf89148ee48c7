---------------------------- MODULE ServeProofs ----------------------------
(***************************************************************************)
(* Proofs about Serve: one answer for each request, every server           *)
(* connection released, no retry from a buffer that was released, the      *)
(* rules of the site lists kept, and, where the code can keep it, the      *)
(* client's stream in step and the request's body sent whole and once.     *)
(***************************************************************************)
EXTENDS Serve, FiniteSetTheorems, SequenceTheorems, WellFoundedInduction, TLAPS

Trying == {"header", "body", "response", "resphead"}

\* Where the proxy waits for a response is a fixed set, as Trying is.
USE DEF Awaiting
Idle == {"parse", "retry", "skip", "closed", "panic"}
Servers == [kind : {"none", "direct", "parent"}, connected : BOOLEAN]

\* What the proofs need of the types.
TypeFlags ==
  /\ cfg \in Settings /\ pc \in Steps
  /\ cliClosed \in BOOLEAN /\ partial \in BOOLEAN /\ blocked \in BOOLEAN
  /\ cut \in BOOLEAN /\ avoid \in BOOLEAN /\ standing \in {"open", "blocked"}
  /\ sv \in Servers
TypeCounts ==
  /\ tryCnt \in 0 .. 4 /\ (pc = "retry" => tryCnt <= 3)
  /\ state \in {rsCreated, rsSent, rsRecvBody, rsDone}
  /\ answered \in Nat
  /\ hits \in 0 .. cfg.maxHits /\ expire \in 0 .. cfg.maxExpire
\* What is read is what was sent, and a body is read no further than its end.
TypeStream ==
  /\ avail \in 0 .. Len(Stream) /\ pos \in 0 .. avail /\ start \in 0 .. pos
  /\ got \in 0 .. BodyLen /\ (pc \in {"skip", "body"} => got < BodyLen)
  /\ "clientClose" \notin Faults /\ cliClosed => avail = Len(Stream)
TypeBuffers ==
  /\ raw = NoRaw \/ (raw \in Seq(Units) /\ Len(raw) <= cfg.bufUnits)
  /\ delivered \in Seq(Units)
Types == TypeFlags /\ TypeCounts /\ TypeStream /\ TypeBuffers

\* A connection is in use while a request is tried, and counts as fresh until
\* the response has begun.
ConnInv ==
  /\ pc \in Idle => sv = NoServer
  /\ pc \in Trying \cup {"respbody"} => sv.kind \in {"direct", "parent"}
  /\ pc \in Trying => sv.connected
  /\ pc = "respbody" => ~sv.connected

\* How far the request is.
StateInv ==
  /\ pc \in {"retry", "header", "body"} => state \in {rsCreated, rsSent}
  /\ pc \in Awaiting => state = rsSent
  /\ pc = "respbody" => state = rsRecvBody

AnswerInv == OneAnswer /\ (pc = "respbody" => answered = 1)

\* The copy for a retry is there, or the request knows that it is not.
RawInv ==
  /\ NoPanic
  /\ pc = "retry" => raw # NoRaw
  /\ pc \in {"retry", "header"} => ~partial
  /\ pc \in {"body", "response", "resphead"} => (raw = NoRaw => partial)

\* A site is avoided by a request only while it is marked.
SiteInv == SiteRules /\ (avoid => blocked /\ ~AlwaysDirect)

ServeInv == Types /\ ConnInv /\ StateInv /\ AnswerInv /\ RawInv /\ SiteInv

Run(a, n) == [i \in 1 .. n |-> a + i]
NoBodies == \A u \in DOMAIN Stream : Stream[u] # "body"
Mild ==
  /\ Faults \cap {"dial", "serverWrite", "clientClose"} = {}
  /\ AlwaysProxy \/ ("serverEOF" \notin Faults /\ cfg.maxHits + cfg.maxExpire <= 2)

\* Without bodies every request is its head.
HeadsInv ==
  NoBodies =>
    /\ pos = start /\ pc \notin {"skip", "body"}
    /\ pc \in {"retry", "header"} => raw = Run(start, 0)
    /\ pc \in Awaiting => delivered = Run(start, 0)
    /\ pc \in Awaiting => raw = NoRaw \/ raw = Run(start, 0)

\* In the mild settings the body is read once, by the first try, and kept.
FirstTry == IF pc = "retry" THEN tryCnt = 0 ELSE tryCnt = 1
PlaceInv ==
  Mild =>
    /\ pc = "parse" => pos = start + BodyLen
    /\ pc \in {"retry", "header"} =>
         IF FirstTry THEN pos = start /\ raw = Run(start, 0)
         ELSE pos = start + BodyLen /\ raw = Run(start, BodyLen)
    /\ pc = "skip" => pos = start + got
    /\ pc = "body" => /\ FirstTry /\ pos = start + got
                      /\ delivered = Run(start, got)
                      /\ raw = NoRaw \/ raw = Run(start, got)
    /\ pc \in Awaiting => /\ pos = start + BodyLen /\ delivered = Run(start, BodyLen)
                          /\ raw = NoRaw \/ raw = Run(start, BodyLen)
    /\ pc = "respbody" => pos = start + BodyLen
    /\ pos <= start + BodyLen

\* A direct connection was tried again only after the pool had offered one or
\* the mark had run out.
Used == (cfg.maxHits - hits) + (cfg.maxExpire - expire)
TriesInv ==
  Mild /\ ~AlwaysProxy =>
    /\ pc = "retry" => tryCnt <= Used + (IF blocked THEN 1 ELSE 0)
    /\ pc \in Trying /\ sv.kind = "direct" /\ ~AlwaysDirect => tryCnt <= Used + 1

\* A try has been counted, and where a parent must be used and there is none,
\* none gets as far as a connection.
TryInv ==
  /\ pc \in Trying => tryCnt >= 1
  /\ AlwaysProxy /\ ~Parents =>
       pc \notin Trying \cup {"respbody"} /\ (pc = "retry" => tryCnt = 0)

StepInv == TryInv /\ HeadsInv /\ PlaceInv /\ TriesInv

-----------------------------------------------------------------------------
(* The settings and the bodies of the stream                               *)

\* What ServeAssumption says of the setting.
LEMMA SettingTypes ==
  ASSUME cfg \in Settings
  PROVE  /\ Stream \in Seq({"head", "body"}) /\ Len(Stream) \in Nat
         /\ Chunked \in BOOLEAN /\ cfg.websocket \in BOOLEAN /\ Parents \in BOOLEAN
         /\ AlwaysProxy \in BOOLEAN /\ cfg.class \in Classes
         /\ cfg.bufUnits \in Nat /\ cfg.maxHits \in Nat /\ cfg.maxExpire \in Nat
<1>1. /\ cfg.stream \in Seq({"head", "body"})
      /\ {cfg.chunked, cfg.websocket, cfg.parents, cfg.alwaysProxy} \subseteq BOOLEAN
      /\ cfg.class \in Classes /\ {cfg.bufUnits, cfg.maxHits, cfg.maxExpire} \subseteq Nat
  BY ServeAssumption
<1>2. Stream \in Seq({"head", "body"}) /\ Len(Stream) \in Nat
  BY <1>1 DEF Stream
<1>3. /\ cfg.chunked \in BOOLEAN /\ cfg.websocket \in BOOLEAN /\ cfg.parents \in BOOLEAN
      /\ cfg.alwaysProxy \in BOOLEAN
  BY <1>1
<1>4. cfg.bufUnits \in Nat /\ cfg.maxHits \in Nat /\ cfg.maxExpire \in Nat
  BY <1>1
<1> QED BY <1>1, <1>2, <1>3, <1>4 DEF Chunked, Parents, AlwaysProxy

\* A set of numbers has a least one.
LEMMA LeastNat ==
  ASSUME NEW T \in SUBSET Nat, T # {}
  PROVE  \E x \in T : \A y \in T : x <= y
<1> DEFINE R == OpToRel(<, Nat)
<1>1. IsWellFoundedOn(R, Nat)
  BY NatLessThanWellFounded
<1>2. \A x, y \in Nat : y < x => <<y, x>> \in R
  BY DEF OpToRel
<1> HIDE DEF R
<1>3. PICK x \in T : \A y \in T : ~ (<<y, x>> \in R)
  BY <1>1, WFMin
<1>4. \A y \in T : ~(y < x)
  BY <1>2, <1>3
<1> QED BY <1>4

\* The body that follows a head is a run of units, up to the first that is not
\* one of its own.
LEMMA BodyIsRun ==
  ASSUME cfg \in Settings, NEW h \in 0 .. Len(Stream)
  PROVE  /\ Cardinality(BodyOf(h)) \in Nat /\ h + Cardinality(BodyOf(h)) <= Len(Stream)
         /\ \A i \in (h + 1) .. (h + Cardinality(BodyOf(h))) : Stream[i] = "body"
<1>0. Len(Stream) \in Nat
  BY SettingTypes
<1> DEFINE T == {m \in Nat : m > h /\ m \notin BodyOf(h)}
<1>1. Len(Stream) + 1 \in T
  BY <1>0 DEF BodyOf
<1>2. PICK m \in T : \A y \in T : m <= y
  BY <1>1, LeastNat
<1>3. m \in Nat /\ m > h /\ m <= Len(Stream) + 1 /\ m \notin BodyOf(h)
  BY <1>1, <1>2
<1>4. ASSUME NEW i \in (h + 1) .. (m - 1) PROVE i \in BodyOf(h)
  <2>1. i \in Nat /\ i > h /\ i < m
    BY <1>0, <1>3
  <2> QED BY <1>2, <1>3, <2>1
<1>5. ASSUME NEW i \in BodyOf(h) PROVE i \in (h + 1) .. (m - 1)
  <2>1. /\ i \in Nat /\ i > h /\ i <= Len(Stream)
        /\ \A j \in (h + 1) .. i : Stream[j] = "body"
    BY <1>0 DEF BodyOf
  <2>2. CASE i >= m
    <3>1. m \in (h + 1) .. Len(Stream) /\ \A j \in (h + 1) .. m : Stream[j] = "body"
      BY <1>0, <1>3, <2>1, <2>2
    <3>2. m \in BodyOf(h)
      BY <3>1 DEF BodyOf
    <3> QED BY <1>3, <3>2
  <2> QED BY <1>0, <1>3, <2>1, <2>2
<1>6. BodyOf(h) = (h + 1) .. (m - 1)
  BY <1>4, <1>5
<1>7. Cardinality(BodyOf(h)) = m - 1 - h
  <2>1. h + 1 \in Int /\ m - 1 \in Int
    BY <1>0, <1>3
  <2>2. Cardinality((h + 1) .. (m - 1)) = IF h + 1 > m - 1 THEN 0 ELSE (m - 1) - (h + 1) + 1
    BY <2>1, FS_Interval
  <2> QED BY <1>0, <1>3, <1>6, <2>2
<1>8. \A i \in BodyOf(h) : Stream[i] = "body"
  BY <1>0 DEF BodyOf
<1>9. h + Cardinality(BodyOf(h)) = m - 1
  BY <1>0, <1>3, <1>7
<1> QED BY <1>0, <1>3, <1>6, <1>7, <1>8, <1>9

\* The units from the head to BodyLen after it are body units of the stream.
LEMMA BodyLenFacts ==
  ASSUME cfg \in Settings, start \in 0 .. Len(Stream)
  PROVE  /\ BodyLen \in Nat /\ start + BodyLen <= Len(Stream)
         /\ \A i \in (start + 1) .. (start + BodyLen) : Stream[i] = "body"
<1>1. Len(Stream) \in Nat
  BY SettingTypes
<1>2. CASE start = 0
  BY <1>1, <1>2 DEF BodyLen
<1>3. CASE start # 0
  BY <1>3, BodyIsRun DEF BodyLen
<1> QED BY <1>2, <1>3

\* In a stream without bodies no request has one.
LEMMA NoBodyLen ==
  ASSUME cfg \in Settings, start \in 0 .. Len(Stream), NoBodies
  PROVE  BodyLen = 0 /\ ~hasBody
<1>1. Len(Stream) \in Nat /\ DOMAIN Stream = 1 .. Len(Stream)
  BY SettingTypes
<1>2. BodyLen \in Nat /\ start + BodyLen <= Len(Stream)
      /\ \A i \in (start + 1) .. (start + BodyLen) : Stream[i] = "body"
  BY BodyLenFacts
<1>3. CASE BodyLen > 0
  <2>1. start + 1 \in (start + 1) .. (start + BodyLen) /\ start + 1 \in DOMAIN Stream
    BY <1>1, <1>2, <1>3
  <2> QED BY <1>2, <2>1 DEF NoBodies
<1> QED BY <1>2, <1>3 DEF hasBody

\* A body unit that is read is the next of a run.
LEMMA RunGrows ==
  ASSUME NEW a \in Nat, NEW n \in Nat
  PROVE  Append(Run(a, n), a + n + 1) = Run(a, n + 1)
<1>1. PICK s, t : s = Run(a, n) /\ t = Run(a, n + 1)
  OBVIOUS
<1>2. s \in Seq(Nat) /\ Len(s) = n /\ \A i \in 1 .. n : s[i] = a + i
  BY <1>1 DEF Run
<1>3. t \in Seq(Nat) /\ Len(t) = n + 1 /\ \A i \in 1 .. n + 1 : t[i] = a + i
  BY <1>1 DEF Run
<1>4. PICK u : u = Append(s, a + n + 1)
  OBVIOUS
<1>5. u \in Seq(Nat) /\ Len(u) = n + 1
  BY <1>2, <1>4
<1>6. \A i \in 1 .. n + 1 : u[i] = a + i
  BY <1>2, <1>4
<1>7. u = t
  BY <1>3, <1>5, <1>6, SeqEqual
<1> QED BY <1>1, <1>4, <1>7

\* A run of no units is empty.
LEMMA EmptyRun ==
  ASSUME NEW a \in Nat
  PROVE  Run(a, 0) = << >>
BY DEF Run

-----------------------------------------------------------------------------
(* How a try ends                                                          *)

\* The setting never changes.
LEMMA SettingStays ==
  ASSUME [Next]_vars
  PROVE  cfg' = cfg
BY DEF Next, vars, Done, ClientSend, ClientClose, BlockExpires, Proxy, ParseRequest, RefuseRequest,
  NoRequest, PoolHit, Connect, ConnectFails, SkipUnit, SkipFails, SendHeader, SendHeaderFails,
  SendBodyUnit, SendBodyUnitFails, BodyEndsEarly, BodyReadFails, ReadStatusLine, ReadHead, ReadError,
  ReadBody,
  ReadBodyCut, ReadBodyFails, Upgrade

\* Nor does anything that is defined from it.
LEMMA SettingFixed ==
  ASSUME [Next]_vars
  PROVE  /\ cfg' = cfg /\ Stream' = Stream /\ Faults' = Faults /\ AlwaysProxy' = AlwaysProxy
         /\ Parents' = Parents /\ Chunked' = Chunked /\ AlwaysDirect' = AlwaysDirect
         /\ AlwaysBlocked' = AlwaysBlocked /\ Units' = Units
<1>1. cfg' = cfg
  BY SettingStays
<1> QED BY <1>1 DEF Stream, Faults, AlwaysProxy, Parents, Chunked, AlwaysDirect, AlwaysBlocked, Units

\* The three ways out of a try.
TryEnd ==
  \/ \E m \in BOOLEAN : (m => maybeFake) /\ shouldRetry(m)
  \/ responseNotSent /\ ErrorPage
  \/ GiveUp

Ending == SendHeaderFails \/ SendBodyUnitFails \/ BodyReadFails \/ ReadError \/ ReadBodyFails

\* Each way in which a try fails ends in shouldRetry, GiveUp or ErrorPage.
LEMMA TryEnds == Ending => TryEnd
<1>1. ASSUME handleServerWriteError PROVE TryEnd
  <2>1. PICK reset \in BOOLEAN : shouldRetry(reset /\ maybeFake)
    BY <1>1 DEF handleServerWriteError
  <2>2. PICK m \in BOOLEAN : m = (reset /\ maybeFake)
    OBVIOUS
  <2>3. (m => maybeFake) /\ shouldRetry(m)
    BY <2>1, <2>2
  <2> QED BY <2>3 DEF TryEnd
<1>2. ASSUME NEW err, handleServerReadError(err) PROVE TryEnd
  <2>1. CASE shouldRetry(FALSE)
    BY <2>1 DEF TryEnd
  <2>2. CASE maybeFake /\ shouldRetry(TRUE)
    BY <2>2 DEF TryEnd
  <2> QED BY <1>2, <2>1, <2>2 DEF handleServerReadError, TryEnd
<1>3. SendHeaderFails \/ SendBodyUnitFails => TryEnd
  BY <1>1 DEF SendHeaderFails, SendBodyUnitFails
<1>4. BodyReadFails => TryEnd
  BY DEF BodyReadFails, TryEnd
<1>5. ReadError => TryEnd
  BY <1>2 DEF ReadError
<1>6. ReadBodyFails => TryEnd
  BY <1>2 DEF ReadBodyFails, TryEnd
<1> QED BY <1>3, <1>4, <1>5, <1>6 DEF Ending

\* Only a connection that may be fake makes a request avoid its site.
Marks ==
  \E b \in BOOLEAN : (b => maybeFake) /\ blocked' = (blocked \/ b) /\ avoid' = (avoid \/ b)

\* What shouldRetry does, in each of its five cases.
LEMMA ShouldRetryFacts ==
  ASSUME TypeFlags, TypeCounts, NEW m \in BOOLEAN, m => maybeFake, shouldRetry(m),
         partial' \in BOOLEAN
  PROVE  /\ sv' = NoServer /\ pc' \in {"closed", "panic", "retry"}
         /\ ~responseNotSent => pc' = "closed" /\ answered' = answered
         /\ pc' = "panic" => responseNotSent /\ ~partial' /\ raw' = NoRaw
         /\ pc' = "retry" => /\ responseNotSent /\ ~partial' /\ raw' # NoRaw
                             /\ answered' = answered /\ tryCnt' <= 3
                             /\ tryCnt' = tryCnt \/ (maybeFake /\ tryCnt > 3)
         /\ answered' = answered \/ (answered' = answered + 1 /\ responseNotSent /\ pc' = "closed")
         /\ tryCnt' \in {0, tryCnt}
         /\ Marks
<1>1. PICK v : v = RetryVerdict
  OBVIOUS
<1>2. /\ sv' = NoServer
      /\ pc' = CASE v \in {"no", "page"} -> "closed" [] v = "panic" -> "panic" [] OTHER -> "retry"
      /\ answered' = IF v = "page" THEN answered + 1 ELSE answered
      /\ tryCnt' = IF v = "block" THEN 0 ELSE tryCnt
      /\ blocked' = (blocked \/ m \/ v = "block") /\ avoid' = (avoid \/ m \/ v = "block")
  BY <1>1 DEF shouldRetry
<1>3. tryCnt \in Nat /\ responseNotSent \in BOOLEAN /\ maybeFake \in BOOLEAN
  BY DEF TypeCounts, responseNotSent, maybeFake, rsCreated, rsSent, rsRecvBody, rsDone
<1>4. \/ v = "no" /\ ~responseNotSent
      \/ v = "page" /\ responseNotSent
      \/ v = "panic" /\ responseNotSent /\ ~partial' /\ raw' = NoRaw
      \/ v = "again" /\ responseNotSent /\ ~partial' /\ raw' # NoRaw /\ tryCnt <= 3
      \/ v = "block" /\ responseNotSent /\ ~partial' /\ raw' # NoRaw /\ tryCnt > 3 /\ maybeFake
  BY <1>1, <1>3 DEF RetryVerdict, tooManyRetry
<1>5. /\ v \in {"no", "page"} => pc' = "closed"
      /\ v = "panic" => pc' = "panic"
      /\ v \in {"again", "block"} => pc' = "retry"
      /\ v # "page" => answered' = answered
      /\ v = "page" => answered' = answered + 1
      /\ v # "block" => tryCnt' = tryCnt
      /\ v = "block" => tryCnt' = 0
  BY <1>2, <1>4
<1>6. Marks
  <2>1. PICK b \in BOOLEAN : b = (m \/ v = "block")
    OBVIOUS
  <2>2. b => maybeFake
    BY <1>4, <2>1
  <2>3. blocked' = (blocked \/ b) /\ avoid' = (avoid \/ b)
    BY <1>2, <2>1
  <2> QED BY <2>2, <2>3 DEF Marks
<1>7. /\ ~responseNotSent => pc' = "closed" /\ answered' = answered
      /\ pc' = "panic" => responseNotSent /\ ~partial' /\ raw' = NoRaw
      /\ pc' = "retry" => responseNotSent /\ ~partial' /\ raw' # NoRaw /\ answered' = answered
      /\ answered' = answered \/ (answered' = answered + 1 /\ responseNotSent /\ pc' = "closed")
      /\ pc' \in {"closed", "panic", "retry"}
  BY <1>4, <1>5
<1>8. /\ pc' = "retry" => tryCnt' <= 3 /\ (tryCnt' = tryCnt \/ (maybeFake /\ tryCnt > 3))
      /\ tryCnt' \in {0, tryCnt}
  BY <1>3, <1>4, <1>5
<1> QED BY <1>2, <1>6, <1>7, <1>8

\* What is known after a try has ended.
TryEnded ==
  /\ sv' = NoServer /\ pc' \in {"closed", "panic", "retry", "parse"}
  /\ ~responseNotSent => pc' = "closed" /\ answered' = answered
  /\ pc' = "panic" => responseNotSent /\ ~partial' /\ raw' = NoRaw
  /\ pc' = "retry" => responseNotSent /\ ~partial' /\ raw' # NoRaw /\ answered' = answered
  /\ pc' = "retry" => tryCnt' <= 3 /\ (tryCnt' = tryCnt \/ (maybeFake /\ tryCnt > 3))
  /\ pc' = "parse" => answered' = answered + 1 /\ (~hasBody \/ hasSent)
  /\ \/ answered' = answered
     \/ answered' = answered + 1 /\ responseNotSent /\ pc' \in {"closed", "parse"}
  /\ tryCnt' \in {0, tryCnt}
  /\ Marks

\* What is left when a try has ended.
LEMMA EndingFacts ==
  ASSUME TypeFlags, TypeCounts, Ending
  PROVE  TryEnded
<1>0. partial' \in BOOLEAN
  BY DEF Ending, SendHeaderFails, SendBodyUnitFails, BodyReadFails, ReadError, ReadBodyFails,
    serverWriter, TypeFlags
<1>1. CASE \E m \in BOOLEAN : (m => maybeFake) /\ shouldRetry(m)
  <2>1. PICK m \in BOOLEAN : (m => maybeFake) /\ shouldRetry(m)
    BY <1>1
  <2> QED BY <1>0, <2>1, ShouldRetryFacts DEF TryEnded
<1>2. ASSUME UNCHANGED <<blocked, avoid>> PROVE Marks
  <2>1. blocked' = (blocked \/ FALSE) /\ avoid' = (avoid \/ FALSE)
    BY <1>2 DEF TypeFlags
  <2> QED BY <2>1 DEF Marks
<1>3. CASE responseNotSent /\ ErrorPage
  <2>1. Marks
    BY <1>2, <1>3 DEF ErrorPage
  <2> QED BY <1>3, <2>1 DEF ErrorPage, TryEnded
<1>4. CASE GiveUp
  <2>1. Marks
    BY <1>2, <1>4 DEF GiveUp
  <2> QED BY <1>4, <2>1 DEF GiveUp, TryEnded
<1> QED BY <1>1, <1>3, <1>4, TryEnds DEF TryEnd

\* What the end of a try leaves alone.
LEMMA EndingLeaves ==
  ASSUME Ending
  PROVE  /\ UNCHANGED <<cfg, avail, cliClosed, start, standing, expire, hits>>
         /\ \/ UNCHANGED <<pos, got, raw, partial>>
            \/ /\ pc = "body" /\ ReadsUnit /\ pos' = pos + 1 /\ got' = got + 1
               /\ serverWriter(pos + 1)
         /\ state' = state \/ (state' = rsCreated /\ pc = "header")
         /\ delivered' = delivered \/ delivered' = << >>
         /\ cut' = cut \/ (cut' = TRUE /\ pc = "respbody")
         /\ pc \in Trying \cup {"respbody"}
BY DEF Ending, SendHeaderFails, SendBodyUnitFails, BodyReadFails, ReadError, ReadBodyFails,
  Trying, client

\* What happens around the connection.
World == ClientSend \/ ClientClose \/ BlockExpires \/ UNCHANGED vars

\* What the client and the clock do leaves the variables of serve alone.
LEMMA WorldLeaves ==
  ASSUME World
  PROVE  UNCHANGED <<cfg, pc, pos, start, tryCnt, state, raw, partial, got, delivered, sv,
                     standing, answered, cut, hits>>
BY DEF World, ClientSend, ClientClose, BlockExpires, vars, request, client, site

\* The steps, in the groups that the proofs go through.
Taking == ParseRequest \/ RefuseRequest \/ NoRequest
Getting == PoolHit \/ Connect \/ ConnectFails
Skipping == SkipUnit \/ SkipFails
Sending == SendHeader \/ SendBodyUnit \/ BodyEndsEarly
Receiving == ReadStatusLine \/ ReadHead \/ ReadBody \/ ReadBodyCut \/ Upgrade

\* The steps, by what they do.
LEMMA StepKinds ==
  ASSUME [Next]_vars
  PROVE  World \/ Taking \/ Getting \/ Skipping \/ Sending \/ Ending \/ Receiving
BY DEF Next, Proxy, Done, World, Taking, Getting, Skipping, Sending, Ending, Receiving

\* The body stays the same while the request does.
LEMMA BodyFixed ==
  ASSUME cfg' = cfg, start' = start
  PROVE  BodyLen' = BodyLen /\ hasBody' = hasBody /\ Stream' = Stream
BY DEF BodyLen, hasBody, BodyOf, Stream

\* The body of the next request has a length, too.
LEMMA BodyLenNext ==
  ASSUME cfg \in Settings, cfg' = cfg, start' \in 0 .. Len(Stream)
  PROVE  BodyLen' \in Nat
<1>1. PICK h \in 0 .. Len(Stream) : h = start'
  OBVIOUS
<1>2. BodyOf(h)' = BodyOf(h)
  BY DEF BodyOf, Stream
<1>3. BodyLen' = IF h = 0 THEN 0 ELSE Cardinality(BodyOf(h))
  BY <1>1, <1>2 DEF BodyLen
<1> QED BY <1>3, BodyIsRun

-----------------------------------------------------------------------------
(* Types                                                                   *)

\* The kinds of connection that the pool and connectServer give.
LEMMA NewServer ==
  ASSUME PoolHit \/ Connect, cfg \in Settings
  PROVE  /\ sv' \in Servers /\ sv'.connected /\ sv'.kind \in {"direct", "parent"}
         /\ pc = "retry" /\ pc' = "header" /\ tryCnt' = tryCnt + 1
         /\ UNCHANGED <<cfg, pos, avail, cliClosed, start, state, raw, partial, got, delivered,
                        standing, expire, answered, cut, avoid>>
<1>1. CASE PoolHit
  <2>1. PICK k \in PoolKinds : sv' = [kind |-> k, connected |-> TRUE]
    BY <1>1 DEF PoolHit
  <2>2. k \in {"direct", "parent"}
    BY <2>1 DEF PoolKinds
  <2> QED BY <1>1, <2>1, <2>2 DEF PoolHit, Servers, client, site
<1>2. CASE Connect
  <2>1. PICK k \in {"direct", "parent"} : sv' = [kind |-> k, connected |-> TRUE]
    BY <1>2 DEF Connect
  <2> QED BY <1>2, <2>1 DEF Connect, Servers, client
<1> QED BY <1>1, <1>2

\* Every step keeps the types of the flags.
LEMMA FlagsStep ==
  ASSUME TypeFlags, TypeCounts, [Next]_vars
  PROVE  TypeFlags'
<1>0. cfg' \in Settings /\ NoServer \in Servers
  BY SettingStays DEF TypeFlags, Servers, NoServer
<1>1. CASE World
  BY <1>0, <1>1, WorldLeaves DEF TypeFlags, World, ClientSend, ClientClose, BlockExpires, vars, site, client
<1>2. CASE Taking
  BY <1>0, <1>2 DEF TypeFlags, Taking, ParseRequest, RefuseRequest, NoRequest, Steps, site, client, request
<1>3. CASE PoolHit \/ Connect
  <2>1. blocked' \in BOOLEAN
    BY <1>3 DEF TypeFlags, PoolHit, Connect, site
  <2> QED BY <1>0, <1>3, <2>1, NewServer DEF TypeFlags, Steps
<1>4. CASE ConnectFails
  BY <1>0, <1>4 DEF TypeFlags, ConnectFails, Steps, site, client
<1>5. CASE Skipping
  BY <1>0, <1>5 DEF TypeFlags, Skipping, SkipUnit, SkipFails, Steps, site, client, request
<1>6. CASE Sending
  BY <1>0, <1>6 DEF TypeFlags, Sending, SendHeader, SendBodyUnit, BodyEndsEarly, Steps, site, client,
    serverWriter
<1>7. CASE Ending
  <2>1. TryEnded
    BY <1>7, EndingFacts
  <2>2. blocked' \in BOOLEAN /\ avoid' \in BOOLEAN
    BY <2>1 DEF TryEnded, Marks, TypeFlags
  <2>3. partial' \in BOOLEAN
    BY <1>7, EndingLeaves DEF serverWriter, TypeFlags
  <2> QED BY <1>0, <1>7, <2>1, <2>2, <2>3, EndingLeaves DEF TryEnded, TypeFlags, Steps
<1>8. CASE ReadHead
  <2>1. [sv EXCEPT !.connected = FALSE] \in Servers
    BY DEF TypeFlags, Servers
  <2> QED BY <1>0, <1>8, <2>1 DEF TypeFlags, ReadHead, GiveUp, Steps, client
<1>9. CASE ReadBody \/ ReadBodyCut
  <2>1. standing' \in {"open", "blocked"}
    BY <1>9 DEF ReadBody, ReadBodyCut, Finish, AfterVisit, TypeFlags
  <2> QED BY <1>0, <1>9, <2>1 DEF TypeFlags, ReadBody, ReadBodyCut, Finish, Steps, client
<1>10. CASE Upgrade
  BY <1>0, <1>10 DEF TypeFlags, Upgrade, Steps, client, request, site
<1>11. CASE ReadStatusLine
  BY <1>0, <1>11 DEF TypeFlags, ReadStatusLine, Steps, client, request, site
<1> QED BY <1>1, <1>2, <1>3, <1>4, <1>5, <1>6, <1>7, <1>8, <1>9, <1>10, <1>11, StepKinds
    DEF Getting, Receiving

\* Every step keeps the types of the counters.
LEMMA CountsStep ==
  ASSUME TypeFlags, TypeCounts, [Next]_vars
  PROVE  TypeCounts'
<1> DEFINE State(x) == x \in {rsCreated, rsSent, rsRecvBody, rsDone}
<1>0. /\ cfg.maxHits \in Nat /\ cfg.maxExpire \in Nat /\ cfg' = cfg
      /\ State(rsCreated) /\ State(rsSent) /\ State(rsRecvBody) /\ State(rsDone)
  BY SettingTypes, SettingStays DEF TypeFlags
<1> HIDE DEF State
<1>s. State(state) /\ (State(state') => state' \in {rsCreated, rsSent, rsRecvBody, rsDone})
  BY DEF State, TypeCounts
<1> SUFFICES /\ tryCnt' \in 0 .. 4 /\ (pc' = "retry" => tryCnt' <= 3) /\ State(state')
             /\ answered' \in Nat
             /\ hits' \in 0 .. cfg.maxHits /\ expire' \in 0 .. cfg.maxExpire
  BY <1>0, <1>s DEF TypeCounts, rsCreated, rsSent, rsRecvBody, rsDone
<1>1. CASE World
  <2>1. expire' \in 0 .. cfg.maxExpire
    BY <1>0, <1>1 DEF World, ClientSend, ClientClose, BlockExpires, vars, site, TypeCounts
  <2> QED BY <1>0, <1>1, <1>s, <2>1, WorldLeaves DEF TypeCounts
<1>2. CASE Taking
  BY <1>0, <1>2, <1>s DEF TypeCounts, Taking, ParseRequest, RefuseRequest, NoRequest, site, request
<1>3. CASE PoolHit \/ Connect
  <2>1. hits' \in 0 .. cfg.maxHits
    <3>1. hits' = hits \/ (hits > 0 /\ hits' = hits - 1)
      BY <1>3 DEF PoolHit, Connect
    <3> QED BY <1>0, <3>1 DEF TypeCounts
  <2> QED BY <1>0, <1>3, <1>s, <2>1, NewServer DEF TypeCounts, TypeFlags
<1>4. CASE ConnectFails
  BY <1>0, <1>4, <1>s DEF TypeCounts, ConnectFails, site
<1>5. CASE Skipping
  BY <1>0, <1>5, <1>s DEF TypeCounts, Skipping, SkipUnit, SkipFails, site, request
<1>6. CASE Sending
  BY <1>0, <1>6, <1>s DEF TypeCounts, Sending, SendHeader, SendBodyUnit, BodyEndsEarly, site
<1>7. CASE Ending
  <2>1. TryEnded
    BY <1>7, EndingFacts
  <2>2. State(state')
    BY <1>0, <1>7, <1>s, EndingLeaves
  <2> QED BY <1>0, <1>7, <2>1, <2>2, EndingLeaves DEF TryEnded, TypeCounts
<1>8. CASE ReadHead
  BY <1>0, <1>8, <1>s DEF TypeCounts, ReadHead, GiveUp
<1>9. CASE ReadStatusLine \/ ReadBody \/ ReadBodyCut \/ Upgrade
  BY <1>0, <1>9, <1>s
  DEF TypeCounts, ReadStatusLine, ReadBody, ReadBodyCut, Finish, Upgrade, site, request
<1> QED BY <1>1, <1>2, <1>3, <1>4, <1>5, <1>6, <1>7, <1>8, <1>9, StepKinds DEF Getting, Receiving

\* Every step keeps the place in the stream within what was sent.
LEMMA StreamStep ==
  ASSUME TypeFlags, TypeCounts, TypeStream, [Next]_vars
  PROVE  TypeStream'
<1>0. /\ Len(Stream) \in Nat /\ cfg' = cfg /\ Stream' = Stream /\ Faults' = Faults
      /\ avail \in Nat /\ pos \in Nat /\ start \in Nat /\ got \in Nat
      /\ avail <= Len(Stream) /\ pos <= avail /\ start <= pos
  BY SettingTypes, SettingFixed DEF TypeFlags, TypeStream
<1>b. BodyLen \in Nat /\ got <= BodyLen
  BY <1>0, BodyLenFacts DEF TypeFlags, TypeStream
<1> DEFINE Read == avail' \in 0 .. Len(Stream) /\ pos' \in 0 .. avail' /\ start' \in 0 .. pos'
           Closed == "clientClose" \notin Faults /\ cliClosed' => avail' = Len(Stream)
<1>1. CASE World
  <2>1. BodyLen' = BodyLen
    BY <1>1, WorldLeaves, BodyFixed
  <2>2. UNCHANGED <<pos, start>>
    BY <1>1, WorldLeaves
  <2>3. \/ ~cliClosed /\ avail < Len(Stream) /\ avail' = avail + 1 /\ cliClosed' = cliClosed
        \/ ("clientClose" \in Faults \/ avail = Len(Stream)) /\ avail' = avail
        \/ UNCHANGED <<avail, cliClosed>>
    BY <1>1 DEF World, ClientSend, ClientClose, BlockExpires, vars, client
  <2>4. Read /\ Closed
    BY <1>0, <2>2, <2>3 DEF TypeStream
  <2> QED BY <1>0, <1>1, <2>1, <2>4, WorldLeaves DEF TypeStream
<1>2. CASE ParseRequest \/ RefuseRequest
  <2>1. Read /\ Closed /\ got' = 0 /\ pc' \notin {"skip", "body"}
    BY <1>0, <1>2 DEF ParseRequest, RefuseRequest, TypeStream
  <2>2. BodyLen' \in Nat
    BY <1>0, <2>1, BodyLenNext DEF TypeFlags
  <2> QED BY <1>0, <2>1, <2>2 DEF TypeStream
<1>3. ASSUME start' = start, Read, Closed,
             got' \in 0 .. BodyLen, pc' \in {"skip", "body"} => got' < BodyLen
      PROVE  TypeStream'
  <2>1. BodyLen' = BodyLen
    BY <1>0, <1>3, BodyFixed
  <2> QED BY <1>0, <1>3, <2>1 DEF TypeStream
<1>4. CASE NoRequest
  BY <1>0, <1>3, <1>4 DEF NoRequest, request, client, TypeStream
<1>5. CASE PoolHit \/ Connect
  BY <1>0, <1>3, <1>5, NewServer DEF TypeFlags, TypeStream
<1>6. CASE ConnectFails
  BY <1>0, <1>b, <1>3, <1>6 DEF ConnectFails, client, TypeStream, hasBody
<1>7. CASE SkipUnit
  BY <1>0, <1>b, <1>3, <1>7 DEF SkipUnit, ReadsUnit, request, TypeStream
<1>8. CASE SkipFails
  BY <1>0, <1>b, <1>3, <1>8 DEF SkipFails, client, request, TypeStream
<1>9. CASE SendHeader
  BY <1>0, <1>b, <1>3, <1>9 DEF SendHeader, client, TypeStream, hasBody
<1>10. CASE SendBodyUnit
  BY <1>0, <1>b, <1>3, <1>10 DEF SendBodyUnit, ReadsUnit, TypeStream
<1>11. CASE BodyEndsEarly
  BY <1>0, <1>b, <1>3, <1>11 DEF BodyEndsEarly, client, TypeStream
<1>12. CASE Ending
  <2>1. pc' \notin {"skip", "body"}
    BY <1>12, EndingFacts DEF TryEnded
  <2>2. got' \in 0 .. BodyLen /\ Read
    BY <1>0, <1>b, <1>12, EndingLeaves DEF ReadsUnit, TypeStream
  <2> QED BY <1>0, <1>3, <1>12, <2>1, <2>2, EndingLeaves DEF TypeStream
<1>13. CASE Receiving
  <2>1. UNCHANGED <<pos, avail, cliClosed, start, got>> /\ pc' \notin {"skip", "body"}
    BY <1>13 DEF Receiving, ReadStatusLine, ReadHead, GiveUp, ReadBody, ReadBodyCut, Upgrade, Finish, client, request
  <2> QED BY <1>0, <1>b, <1>3, <2>1 DEF TypeStream
<1> QED BY <1>1, <1>2, <1>4, <1>5, <1>6, <1>7, <1>8, <1>9, <1>10, <1>11, <1>12, <1>13, StepKinds
    DEF Taking, Getting, Skipping, Sending

\* The copy that serverWriter keeps stays within the buffer.
LEMMA WriterTypes ==
  ASSUME cfg \in Settings, TypeBuffers, NEW u \in Units, serverWriter(u)
  PROVE  raw' = NoRaw \/ (raw' \in Seq(Units) /\ Len(raw') <= cfg.bufUnits)
<1>1. cfg.bufUnits \in Nat
  BY SettingTypes
<1>2. CASE raw = NoRaw \/ Len(raw) >= cfg.bufUnits
  BY <1>2 DEF serverWriter, TypeBuffers
<1>3. CASE raw # NoRaw /\ ~(Len(raw) >= cfg.bufUnits)
  <2>1. raw' = Append(raw, u) /\ raw \in Seq(Units)
    BY <1>3 DEF serverWriter, TypeBuffers
  <2>2. raw' \in Seq(Units) /\ Len(raw') = Len(raw) + 1 /\ Len(raw) \in Nat
    BY <2>1
  <2> QED BY <1>1, <1>3, <2>2
<1> QED BY <1>2, <1>3

\* Every step keeps the types of the buffers.
LEMMA BuffersStep ==
  ASSUME Types, RawInv, [Next]_vars
  PROVE  TypeBuffers'
<1>0. cfg \in Settings /\ cfg' = cfg /\ Units' = Units
  BY SettingFixed DEF Types, TypeFlags
<1> DEFINE Kept == raw' = NoRaw \/ (raw' \in Seq(Units) /\ Len(raw') <= cfg.bufUnits)
<1>1. <<>> \in Seq(Units) /\ Len(<<>>) = 0
  OBVIOUS
<1>2. cfg.bufUnits \in Nat
  BY <1>0, SettingTypes
<1>3. ReadsUnit => pos + 1 \in Units
  <2>1. Len(Stream) \in Nat
    BY <1>0, SettingTypes
  <2> QED BY <2>1 DEF ReadsUnit, Units, Types, TypeStream
<1>4. UNCHANGED <<raw, delivered>> => TypeBuffers'
  BY <1>0 DEF Types, TypeBuffers, NoRaw
<1>6. ASSUME Kept, delivered' \in Seq(Units) PROVE TypeBuffers'
  BY <1>0, <1>6 DEF TypeBuffers, NoRaw
<1>7. CASE ParseRequest \/ RefuseRequest
  <2>1. PICK e : e = <<>>
    OBVIOUS
  <2>2. e \in Seq(Units) /\ Len(e) = 0 /\ raw' = e /\ delivered' = e
    BY <1>7, <2>1 DEF ParseRequest, RefuseRequest
  <2>3. Kept /\ delivered' \in Seq(Units)
    BY <1>2, <2>2
  <2> QED BY <1>6, <2>3
<1>8. CASE SendHeader
  BY <1>6, <1>8 DEF SendHeader, RawInv, NoPanic, Types, TypeBuffers
<1>9. CASE SendBodyUnit
  <2>1. Kept
    BY <1>0, <1>3, <1>9, WriterTypes DEF SendBodyUnit, Types
  <2>2. Append(delivered, pos + 1) \in Seq(Units)
    BY <1>3, <1>9 DEF SendBodyUnit, Types, TypeBuffers
  <2> QED BY <1>6, <1>9, <2>1, <2>2 DEF SendBodyUnit
<1>10. CASE Ending
  <2>1. Kept
    BY <1>0, <1>3, <1>10, WriterTypes, EndingLeaves DEF Types, TypeBuffers
  <2> QED BY <1>1, <1>6, <1>10, <2>1, EndingLeaves DEF Types, TypeBuffers
<1>11. CASE ReadHead
  BY <1>6, <1>11 DEF ReadHead, Types, TypeBuffers
<1>12. CASE World
  BY <1>4, <1>12, WorldLeaves
<1>13. CASE Getting
  BY <1>0, <1>4, <1>13, NewServer DEF Getting, ConnectFails
<1>14. CASE NoRequest \/ Skipping \/ BodyEndsEarly \/ ReadStatusLine \/ ReadBody \/ ReadBodyCut
         \/ Upgrade
  BY <1>4, <1>14 DEF NoRequest, Skipping, SkipUnit, SkipFails, BodyEndsEarly, ReadStatusLine,
    ReadBody, ReadBodyCut, Upgrade, request
<1> QED BY <1>7, <1>8, <1>9, <1>10, <1>11, <1>12, <1>13, <1>14, StepKinds DEF Taking, Sending, Receiving

-----------------------------------------------------------------------------
(* The connection, the request and its answer                              *)

\* Every step keeps ConnInv.
LEMMA ConnStep ==
  ASSUME TypeFlags, TypeCounts, ConnInv, [Next]_vars
  PROVE  ConnInv'
<1>0. cfg \in Settings
  BY DEF TypeFlags
<1>1. CASE World
  BY <1>1, WorldLeaves DEF ConnInv, NoServer
<1>2. CASE Taking
  BY <1>2 DEF ConnInv, Taking, ParseRequest, RefuseRequest, NoRequest, Idle, Trying, NoServer
<1>3. CASE PoolHit \/ Connect
  BY <1>0, <1>3, NewServer DEF ConnInv, Idle, Trying
<1>4. CASE ConnectFails
  BY <1>4 DEF ConnInv, ConnectFails, Idle, Trying, NoServer
<1>5. CASE Skipping
  BY <1>5 DEF ConnInv, Skipping, SkipUnit, SkipFails, Idle, Trying, NoServer
<1>6. CASE Sending
  BY <1>6 DEF ConnInv, Sending, SendHeader, SendBodyUnit, BodyEndsEarly, Idle, Trying
<1>7. CASE Ending
  BY <1>7, EndingFacts DEF ConnInv, TryEnded, Idle, Trying, NoServer
<1>8. CASE ReadHead
  <2>1. /\ [sv EXCEPT !.connected = FALSE].kind = sv.kind
        /\ ~[sv EXCEPT !.connected = FALSE].connected
    BY DEF TypeFlags, Servers
  <2> QED BY <1>8, <2>1 DEF ConnInv, ReadHead, GiveUp, Idle, Trying, NoServer
<1>9. CASE ReadStatusLine \/ ReadBody \/ ReadBodyCut \/ Upgrade
  BY <1>9 DEF ConnInv, ReadStatusLine, ReadBody, ReadBodyCut, Finish, Upgrade, Idle, Trying, NoServer
<1> QED BY <1>1, <1>2, <1>3, <1>4, <1>5, <1>6, <1>7, <1>8, <1>9, StepKinds DEF Getting, Receiving

\* Every step keeps StateInv.
LEMMA StateStep ==
  ASSUME TypeFlags, TypeCounts, StateInv, [Next]_vars
  PROVE  StateInv'
<1>0. cfg \in Settings
  BY DEF TypeFlags
<1>1. CASE World
  BY <1>1, WorldLeaves DEF StateInv, rsCreated, rsSent, rsRecvBody
<1>2. CASE Taking
  BY <1>2 DEF StateInv, Taking, ParseRequest, RefuseRequest, NoRequest, rsCreated
<1>3. CASE PoolHit \/ Connect
  BY <1>0, <1>3, NewServer DEF StateInv, rsCreated, rsSent
<1>4. CASE ConnectFails
  BY <1>4 DEF StateInv, ConnectFails
<1>5. CASE Skipping
  BY <1>5 DEF StateInv, Skipping, SkipUnit, SkipFails
<1>6. CASE Sending
  BY <1>6 DEF StateInv, Sending, SendHeader, SendBodyUnit, BodyEndsEarly, rsCreated, rsSent
<1>7. CASE Ending
  BY <1>7, EndingFacts, EndingLeaves
  DEF StateInv, TryEnded, Trying, responseNotSent, TypeCounts, rsCreated, rsSent, rsRecvBody, rsDone
<1>8. CASE Receiving
  BY <1>8
  DEF StateInv, Receiving, ReadStatusLine, ReadHead, GiveUp, ReadBody, ReadBodyCut, Finish, Upgrade, rsRecvBody, request
<1> QED BY <1>1, <1>2, <1>3, <1>4, <1>5, <1>6, <1>7, <1>8, StepKinds DEF Getting

\* Every step keeps AnswerInv.
LEMMA AnswerStep ==
  ASSUME TypeFlags, TypeCounts, StateInv, AnswerInv, [Next]_vars
  PROVE  AnswerInv'
<1>0. cfg \in Settings /\ Faults' = Faults
  BY SettingFixed DEF TypeFlags
<1>1. CASE World
  BY <1>0, <1>1, WorldLeaves DEF AnswerInv, OneAnswer
<1>2. CASE Taking
  BY <1>0, <1>2 DEF AnswerInv, OneAnswer, Taking, ParseRequest, RefuseRequest, NoRequest
<1>3. CASE PoolHit \/ Connect
  BY <1>0, <1>3, NewServer DEF AnswerInv, OneAnswer
<1>4. CASE ConnectFails
  BY <1>0, <1>4 DEF AnswerInv, OneAnswer, ConnectFails
<1>5. CASE Skipping
  BY <1>0, <1>5 DEF AnswerInv, OneAnswer, Skipping, SkipUnit, SkipFails, request
<1>6. CASE Sending
  BY <1>0, <1>6 DEF AnswerInv, OneAnswer, Sending, SendHeader, SendBodyUnit, BodyEndsEarly
<1>7. CASE Ending /\ pc \in Trying
  <2>1. answered = 0 /\ (cut => "cutBody" \in Faults)
    BY <1>7 DEF AnswerInv, OneAnswer, Trying
  <2>2. cut' = cut
    BY <1>7, EndingLeaves DEF Trying
  <2>3. /\ pc' \in {"closed", "panic", "retry", "parse"}
        /\ pc' = "retry" => answered' = 0
        /\ pc' = "parse" => answered' = 1
        /\ answered' \in {0, 1}
    BY <1>7, <2>1, EndingFacts DEF TryEnded
  <2> QED BY <1>0, <2>1, <2>2, <2>3 DEF AnswerInv, OneAnswer
<1>8. CASE Ending /\ pc = "respbody"
  <2>1. ~responseNotSent
    BY <1>8 DEF StateInv, responseNotSent, rsRecvBody, rsSent
  <2> QED BY <1>0, <1>8, <2>1, EndingFacts, EndingLeaves DEF AnswerInv, OneAnswer, TryEnded
<1>9. CASE ReadHead
  BY <1>0, <1>9 DEF AnswerInv, OneAnswer, ReadHead, GiveUp
<1>10. CASE ReadStatusLine \/ ReadBody \/ ReadBodyCut \/ Upgrade
  BY <1>0, <1>10
  DEF AnswerInv, OneAnswer, ReadStatusLine, ReadBody, ReadBodyCut, Finish, Upgrade, request
<1> QED BY <1>1, <1>2, <1>3, <1>4, <1>5, <1>6, <1>7, <1>8, <1>9, <1>10, StepKinds, EndingLeaves
    DEF Getting, Receiving

\* serverWriter releases the buffer only when it marks the request.
LEMMA WriterMarks ==
  ASSUME TypeBuffers, NEW u \in Units, serverWriter(u), raw = NoRaw => partial
  PROVE  raw' = NoRaw => partial'
<1>1. CASE raw = NoRaw \/ Len(raw) >= cfg.bufUnits
  BY <1>1 DEF serverWriter
<1>2. CASE raw # NoRaw /\ ~(Len(raw) >= cfg.bufUnits)
  <2>1. raw' = Append(raw, u) /\ raw \in Seq(Units)
    BY <1>2 DEF serverWriter, TypeBuffers
  <2>2. PICK z : z = NoRaw
    OBVIOUS
  <2>3. Len(z) = 1 /\ z[1] = 0
    BY <2>2 DEF NoRaw
  <2>4. Len(raw) \in Nat /\ Len(raw') = Len(raw) + 1 /\ raw'[Len(raw) + 1] = u
    BY <2>1
  <2>5. u # 0
    BY DEF Units
  <2>6. raw' # z
    BY <2>3, <2>4, <2>5
  <2> QED BY <2>2, <2>6
<1> QED BY <1>1, <1>2

\* Every step keeps RawInv.
LEMMA RawStep ==
  ASSUME Types, StateInv, RawInv, [Next]_vars
  PROVE  RawInv'
<1>0. cfg \in Settings /\ cfg' = cfg /\ TypeFlags /\ TypeCounts /\ TypeBuffers
  BY SettingFixed DEF Types, TypeFlags
<1>1. NoRaw' = NoRaw /\ << >> # NoRaw
  BY DEF NoRaw
<1>2. ReadsUnit => pos + 1 \in Units
  <2>1. Len(Stream) \in Nat
    BY <1>0, SettingTypes
  <2> QED BY <2>1 DEF ReadsUnit, Units, Types, TypeStream
<1>3. CASE World
  <2>1. isRetry' = isRetry /\ responseNotSent' = responseNotSent
    BY <1>3, WorldLeaves DEF isRetry, responseNotSent, rsSent
  <2> QED BY <1>0, <1>1, <1>3, <2>1, WorldLeaves DEF RawInv, NoPanic
<1>4. CASE Taking
  BY <1>1, <1>4 DEF RawInv, NoPanic, Taking, ParseRequest, RefuseRequest, NoRequest
<1>5. CASE PoolHit \/ Connect
  BY <1>0, <1>1, <1>5, NewServer DEF RawInv, NoPanic
<1>6. CASE ConnectFails \/ Skipping
  BY <1>6 DEF RawInv, NoPanic, ConnectFails, Skipping, SkipUnit, SkipFails
<1>7. CASE SendHeader \/ BodyEndsEarly
  BY <1>1, <1>7 DEF RawInv, NoPanic, SendHeader, BodyEndsEarly
<1>8. CASE SendBodyUnit
  <2>1. raw' = NoRaw => partial'
    BY <1>0, <1>2, <1>8, WriterMarks DEF SendBodyUnit, RawInv
  <2> QED BY <1>1, <1>8, <2>1 DEF SendBodyUnit, RawInv, NoPanic
<1>9. CASE Ending
  <2>1. TryEnded
    BY <1>0, <1>9, EndingFacts
  <2>2. CASE pc = "respbody"
    <3>1. ~responseNotSent
      BY <2>2 DEF StateInv, responseNotSent, rsRecvBody, rsSent
    <3> QED BY <2>1, <3>1 DEF TryEnded, RawInv, NoPanic
  <2>3. CASE pc \in Trying
    <3>1. raw' = NoRaw => partial'
      BY <1>0, <1>2, <1>9, <2>3, WriterMarks, EndingLeaves DEF RawInv, NoPanic, Trying
    <3>2. pc' # "panic"
      BY <2>1, <3>1 DEF TryEnded
    <3> QED BY <1>1, <2>1, <3>2 DEF TryEnded, RawInv, NoPanic
  <2> QED BY <1>9, <2>2, <2>3, EndingLeaves
<1>10. CASE ReadStatusLine \/ ReadHead \/ ReadBody \/ ReadBodyCut
  BY <1>10
  DEF RawInv, NoPanic, ReadStatusLine, ReadHead, GiveUp, ReadBody, ReadBodyCut, Finish, request
<1>11. CASE Upgrade
  <2>1. ~responseNotSent'
    BY <1>11 DEF Upgrade, request, StateInv, responseNotSent, rsRecvBody, rsSent
  <2>2. isRetry' = isRetry
    BY <1>11 DEF Upgrade, request, isRetry
  <2>3. pc' \in {"panic", "closed"} /\ (pc' = "panic" => cfg.websocket /\ isRetry)
    BY <1>11 DEF Upgrade
  <2> QED BY <1>0, <2>1, <2>2, <2>3 DEF RawInv, NoPanic
<1> QED BY <1>3, <1>4, <1>5, <1>6, <1>7, <1>8, <1>9, <1>10, <1>11, StepKinds
    DEF Getting, Sending, Receiving

-----------------------------------------------------------------------------
(* The site lists                                                          *)

\* The connections that connectServer makes.
LEMMA ConnectKinds ==
  ASSUME TypeFlags, Connect
  PROVE  /\ AlwaysProxy => sv'.kind = "parent"
         /\ AlwaysBlocked => sv'.kind = "parent"
         /\ AlwaysDirect /\ ~AlwaysProxy => sv'.kind = "direct"
         /\ AlwaysDirect => blocked' = blocked
         /\ blocked /\ ~AlwaysDirect => sv'.kind = "parent"
         /\ blocked => blocked'
<1>1. PICK a \in AsBlocked, d \in DialResults(TRUE), p \in DialResults(Parents) :
         /\ connectServer(a, d, p) # "fail"
         /\ sv' = [kind |-> IF connectServer(a, d, p) = "direct" THEN "direct" ELSE "parent",
                   connected |-> TRUE]
         /\ blocked' = (blocked \/ connectServer(a, d, p) = "fallback")
  BY DEF Connect
<1>2. a \in BOOLEAN /\ d \in BOOLEAN /\ p \in BOOLEAN /\ blocked \in BOOLEAN
  BY <1>1 DEF AsBlocked, DialResults, TypeFlags
<1>3. /\ AlwaysProxy \in BOOLEAN /\ Parents \in BOOLEAN
      /\ AlwaysBlocked => Parents /\ ~AlwaysDirect
      /\ ~AlwaysDirect => Parents
  BY SettingTypes DEF TypeFlags, AlwaysBlocked, AlwaysDirect
<1>4. /\ AlwaysBlocked => a
      /\ ~AlwaysDirect /\ blocked => a
      /\ AlwaysDirect => ~a
  BY <1>1, <1>3 DEF AsBlocked
<1>5. PICK c : c = connectServer(a, d, p)
  OBVIOUS
<1>6. c \in {"parent", "direct", "fallback", "fail"}
  BY <1>2, <1>5 DEF connectServer
<1>7. /\ AlwaysProxy => c \in {"parent", "fail"}
      /\ AlwaysBlocked => c \in {"parent", "fail"}
      /\ AlwaysDirect /\ ~AlwaysProxy => c \in {"direct", "fail"}
      /\ AlwaysDirect => c # "fallback"
      /\ blocked /\ ~AlwaysDirect => c \in {"parent", "fail"}
  BY <1>2, <1>3, <1>4, <1>5 DEF connectServer
<1>8. sv'.kind = IF c = "direct" THEN "direct" ELSE "parent"
  BY <1>1, <1>5
<1>9. blocked' = (blocked \/ c = "fallback") /\ c # "fail"
  BY <1>1, <1>5
<1> QED BY <1>2, <1>6, <1>7, <1>8, <1>9

\* The kind of connection that the pool can give for a listed site.
LEMMA PoolHitKinds ==
  ASSUME TypeFlags, TypeCounts, PoolHit
  PROVE  /\ AlwaysProxy \/ AlwaysBlocked => sv'.kind = "parent"
         /\ AlwaysDirect /\ ~AlwaysProxy => sv'.kind = "direct"
         /\ cfg.maxHits # 0
<1>1. PICK k \in PoolKinds : sv' = [kind |-> k, connected |-> TRUE]
  BY DEF PoolHit
<1>2. /\ AlwaysProxy \/ AlwaysBlocked => k = "parent"
      /\ AlwaysDirect /\ ~AlwaysProxy => k = "direct"
  BY <1>1 DEF PoolKinds, AlwaysBlocked, AlwaysDirect
<1>3. cfg.maxHits \in Nat
  BY SettingTypes DEF TypeFlags
<1> QED BY <1>1, <1>2, <1>3 DEF PoolHit, TypeCounts

\* Every step keeps SiteInv.
LEMMA SiteStep ==
  ASSUME TypeFlags, TypeCounts, SiteInv, [Next]_vars
  PROVE  SiteInv'
<1>0. /\ cfg' = cfg /\ AlwaysDirect' = AlwaysDirect /\ AlwaysBlocked' = AlwaysBlocked
      /\ AlwaysProxy' = AlwaysProxy /\ cfg \in Settings /\ NoServer.kind = "none"
  BY SettingFixed DEF TypeFlags, NoServer
<1>1. CASE World
  <2>1. UNCHANGED <<blocked, avoid>> \/ (~blocked' /\ ~avoid')
    BY <1>1 DEF World, ClientSend, ClientClose, BlockExpires, vars, site
  <2> QED BY <1>0, <1>1, <2>1, WorldLeaves DEF SiteInv, SiteRules
<1>2. CASE Taking
  <2>1. blocked' = blocked /\ (avoid' = avoid \/ ~avoid') /\ sv' = sv
    BY <1>2 DEF Taking, ParseRequest, RefuseRequest, NoRequest, site
  <2> QED BY <1>0, <2>1 DEF SiteInv, SiteRules
<1>3. CASE PoolHit
  <2>1. blocked' = blocked /\ avoid' = avoid
    BY <1>3 DEF PoolHit, site
  <2> QED BY <1>0, <1>3, <2>1, PoolHitKinds DEF SiteInv, SiteRules
<1>4. CASE Connect
  <2>1. avoid' = avoid
    BY <1>4 DEF Connect
  <2> QED BY <1>0, <1>4, <2>1, ConnectKinds DEF SiteInv, SiteRules
<1>5. CASE ConnectFails \/ Skipping \/ Sending
  <2>1. UNCHANGED <<blocked, avoid, sv>>
    BY <1>5 DEF ConnectFails, Skipping, SkipUnit, SkipFails, Sending, SendHeader, SendBodyUnit,
      BodyEndsEarly, site
  <2> QED BY <1>0, <2>1 DEF SiteInv, SiteRules
<1>6. CASE Ending
  <2>1. PICK b \in BOOLEAN : (b => maybeFake) /\ blocked' = (blocked \/ b) /\ avoid' = (avoid \/ b)
    BY <1>6, EndingFacts DEF TryEnded, Marks
  <2>2. b => ~AlwaysDirect
    BY <2>1 DEF maybeFake
  <2>3. sv' = NoServer
    BY <1>6, EndingFacts DEF TryEnded
  <2> QED BY <1>0, <2>1, <2>2, <2>3 DEF SiteInv, SiteRules
<1>7. CASE Receiving
  <2>1. UNCHANGED <<blocked, avoid>>
    BY <1>7 DEF Receiving, ReadStatusLine, ReadHead, GiveUp, ReadBody, ReadBodyCut, Upgrade, site
  <2>2. sv'.kind = sv.kind \/ sv'.kind = "none"
    <3>1. [sv EXCEPT !.connected = FALSE].kind = sv.kind
      BY DEF TypeFlags, Servers
    <3> QED BY <1>0, <1>7, <3>1 DEF Receiving, ReadStatusLine, ReadHead, GiveUp, ReadBody, ReadBodyCut, Upgrade, Finish
  <2> QED BY <1>0, <2>1, <2>2 DEF SiteInv, SiteRules
<1> QED BY <1>1, <1>2, <1>3, <1>4, <1>5, <1>6, <1>7, StepKinds DEF Getting

-----------------------------------------------------------------------------
(* The client's stream                                                     *)

\* What does not fail in a mild setting.
LEMMA MildFacts ==
  ASSUME Mild
  PROVE  "dial" \notin Faults /\ "serverWrite" \notin Faults /\ "clientClose" \notin Faults
BY DEF Mild

\* Every step keeps TryInv.
LEMMA TryStep ==
  ASSUME TypeFlags, TypeCounts, TryInv, [Next]_vars
  PROVE  TryInv'
<1>0. /\ cfg \in Settings /\ AlwaysProxy' = AlwaysProxy /\ Parents' = Parents
      /\ tryCnt \in Nat
  BY SettingFixed DEF TypeFlags, TypeCounts
<1>1. CASE World
  BY <1>0, <1>1, WorldLeaves DEF TryInv
<1>2. CASE Taking
  BY <1>0, <1>2 DEF TryInv, Taking, ParseRequest, RefuseRequest, NoRequest, Trying
<1>3. CASE PoolHit \/ Connect
  <2>1. ~(AlwaysProxy /\ ~Parents)
    <3>1. PoolHit => ~(AlwaysProxy /\ ~Parents)
      BY DEF PoolHit, PoolKinds
    <3>2. Connect => ~(AlwaysProxy /\ ~Parents)
      BY DEF Connect, DialResults, connectServer
    <3> QED BY <1>3, <3>1, <3>2
  <2>2. pc' = "header" /\ tryCnt' = tryCnt + 1
    BY <1>0, <1>3, NewServer
  <2> QED BY <1>0, <2>1, <2>2 DEF TryInv
<1>4. CASE ConnectFails
  BY <1>0, <1>4 DEF TryInv, ConnectFails, Trying
<1>5. CASE Skipping
  BY <1>0, <1>5 DEF TryInv, Skipping, SkipUnit, SkipFails, Trying
<1>6. CASE Sending
  BY <1>0, <1>6 DEF TryInv, Sending, SendHeader, SendBodyUnit, BodyEndsEarly, Trying
<1>7. CASE Ending
  BY <1>0, <1>7, EndingFacts, EndingLeaves DEF TryInv, TryEnded, Trying
<1>8. CASE Receiving
  BY <1>0, <1>8
  DEF TryInv, Receiving, ReadStatusLine, ReadHead, GiveUp, ReadBody, ReadBodyCut, Finish, Upgrade, Trying, request
<1> QED BY <1>1, <1>2, <1>3, <1>4, <1>5, <1>6, <1>7, <1>8, StepKinds DEF Getting

\* Every step keeps HeadsInv.
LEMMA HeadsStep ==
  ASSUME ServeInv, HeadsInv, [Next]_vars
  PROVE  HeadsInv'
<1>0. /\ cfg \in Settings /\ cfg' = cfg /\ Stream' = Stream /\ TypeFlags /\ TypeCounts
      /\ start \in Nat /\ start \in 0 .. Len(Stream)
  <2>1. Len(Stream) \in Nat
    BY SettingTypes DEF ServeInv, Types, TypeFlags
  <2> QED BY <2>1, SettingFixed DEF ServeInv, Types, TypeFlags, TypeStream
<1> SUFFICES ASSUME NoBodies
             PROVE  /\ pos' = start' /\ pc' \notin {"skip", "body"}
                    /\ pc' \in {"retry", "header"} => raw' = << >>
                    /\ pc' \in Awaiting => delivered' = << >>
                    /\ pc' \in Awaiting => raw' = NoRaw \/ raw' = << >>
  BY <1>0 DEF HeadsInv, NoBodies, Run, NoRaw
<1>1. ~hasBody
  BY <1>0, NoBodyLen
<1>2. /\ pos = start /\ pc \notin {"skip", "body"}
      /\ pc \in {"retry", "header"} => raw = << >>
      /\ pc \in Awaiting => delivered = << >>
      /\ pc \in Awaiting => raw = NoRaw \/ raw = << >>
  BY <1>0, EmptyRun DEF HeadsInv
<1>3. CASE World
  BY <1>2, <1>3, WorldLeaves
<1>4. CASE Taking
  BY <1>2, <1>4 DEF Taking, ParseRequest, RefuseRequest, NoRequest, client, request
<1>5. CASE PoolHit \/ Connect
  BY <1>0, <1>2, <1>5, NewServer
<1>6. CASE ConnectFails
  BY <1>1, <1>2, <1>6 DEF ConnectFails, client
<1>7. CASE Skipping
  BY <1>2, <1>7 DEF Skipping, SkipUnit, SkipFails
<1>8. CASE SendHeader
  BY <1>1, <1>2, <1>8 DEF SendHeader, client
<1>9. CASE SendBodyUnit \/ BodyEndsEarly
  BY <1>2, <1>9 DEF SendBodyUnit, BodyEndsEarly
<1>10. CASE Ending
  <2>1. UNCHANGED <<pos, start, raw>> /\ pc \in {"header", "response", "resphead", "respbody"}
    BY <1>2, <1>10, EndingLeaves DEF Trying
  <2>2. /\ pc' \notin {"skip", "body", "header", "response", "resphead"}
        /\ pc' = "retry" => raw' # NoRaw /\ responseNotSent
    BY <1>0, <1>10, EndingFacts DEF TryEnded
  <2>3. pc = "respbody" => ~responseNotSent
    BY DEF ServeInv, StateInv, responseNotSent, rsRecvBody, rsSent
  <2> QED BY <1>2, <2>1, <2>2, <2>3
<1>11. CASE Receiving
  BY <1>2, <1>11 DEF Receiving, ReadStatusLine, ReadHead, GiveUp, ReadBody, ReadBodyCut, Finish, Upgrade, client, request
<1> QED BY <1>3, <1>4, <1>5, <1>6, <1>7, <1>8, <1>9, <1>10, <1>11, StepKinds DEF Getting, Sending

\* How a try can end in the mild settings: before the response only where the
\* site looks blocked, and then the site is marked.
LEMMA MildRetry ==
  ASSUME ServeInv, Mild, ~AlwaysProxy, Ending, pc' = "retry"
  PROVE  pc \in Awaiting /\ maybeFake /\ blocked'
<1>0. "serverWrite" \notin Faults /\ "serverEOF" \notin Faults
  BY MildFacts DEF Mild
<1>1. ~SendHeaderFails /\ ~SendBodyUnitFails /\ ~BodyReadFails
  BY <1>0 DEF SendHeaderFails, SendBodyUnitFails, handleServerWriteError, BodyReadFails, GiveUp
<1>2. CASE ReadBodyFails
  <2>1. ~responseNotSent
    BY <1>2 DEF ReadBodyFails, ServeInv, StateInv, responseNotSent, rsRecvBody, rsSent
  <2> QED BY <2>1, EndingFacts DEF ServeInv, Types, TryEnded
<1>3. CASE ReadError
  <2>1. PICK err \in Faults \cap {"serverEOF", "blocking", "serverError"} : handleServerReadError(err)
    BY <1>3 DEF ReadError
  <2>2. err # "serverEOF" /\ pc \in Awaiting
    BY <1>0, <1>3, <2>1 DEF ReadError
  <2>3. maybeFake /\ shouldRetry(TRUE)
    BY <2>1, <2>2 DEF handleServerReadError, ErrorPage, GiveUp
  <2>4. blocked'
    BY <2>3 DEF shouldRetry
  <2> QED BY <2>2, <2>3, <2>4
<1> QED BY <1>1, <1>2, <1>3 DEF Ending

\* Every step keeps TriesInv.
LEMMA TriesStep ==
  ASSUME ServeInv, TriesInv, [Next]_vars
  PROVE  TriesInv'
<1>0. /\ cfg \in Settings /\ cfg' = cfg /\ TypeFlags /\ TypeCounts
      /\ AlwaysProxy' = AlwaysProxy /\ AlwaysDirect' = AlwaysDirect /\ Mild' = Mild
  BY SettingFixed DEF ServeInv, Types, TypeFlags, Mild
<1> SUFFICES ASSUME Mild, ~AlwaysProxy
             PROVE  /\ pc' = "retry" => tryCnt' <= Used' + (IF blocked' THEN 1 ELSE 0)
                    /\ pc' \in Trying /\ sv'.kind = "direct" /\ ~AlwaysDirect =>
                         tryCnt' <= Used' + 1
  BY <1>0 DEF TriesInv
<1>1. Used \in Nat /\ tryCnt \in Nat
  <2>1. cfg.maxHits \in Nat /\ cfg.maxExpire \in Nat
    BY <1>0, SettingTypes
  <2> QED BY <1>0, <2>1 DEF TypeCounts, Used
<1>2. /\ pc = "retry" => tryCnt <= Used + (IF blocked THEN 1 ELSE 0)
      /\ pc \in Trying /\ sv.kind = "direct" /\ ~AlwaysDirect => tryCnt <= Used + 1
  BY DEF TriesInv
<1>3. hits' = hits /\ expire' = expire => Used' = Used
  BY <1>0 DEF Used
<1>4. CASE World
  <2>1. CASE UNCHANGED <<blocked, expire>>
    BY <1>2, <1>3, <1>4, <2>1, WorldLeaves
  <2>2. CASE blocked /\ blocked' = FALSE /\ expire' = expire - 1
    <3>1. cfg.maxHits \in Nat /\ cfg.maxExpire \in Nat /\ hits \in Nat /\ expire \in Nat
      BY <1>0, SettingTypes DEF TypeCounts
    <3>2. Used' = Used + 1
      BY <1>0, <1>4, <2>2, <3>1, WorldLeaves DEF Used
    <3> QED BY <1>1, <1>2, <1>4, <2>2, <3>2, WorldLeaves
  <2> QED BY <1>4, <2>1, <2>2 DEF World, ClientSend, ClientClose, BlockExpires, vars, site
<1>5. CASE Taking
  <2>1. Used' = Used
    BY <1>3, <1>5 DEF Taking, ParseRequest, RefuseRequest, NoRequest, site
  <2>2. pc' \in {"retry", "closed"} /\ (pc' = "retry" => tryCnt' = 0)
    BY <1>5 DEF Taking, ParseRequest, RefuseRequest, NoRequest
  <2> QED BY <1>1, <2>1, <2>2 DEF Trying
<1>6. CASE PoolHit
  <2>1. hits' = hits - 1 /\ expire' = expire
    BY <1>6 DEF PoolHit, site
  <2>2. cfg.maxHits \in Nat /\ cfg.maxExpire \in Nat /\ hits \in Nat /\ expire \in Nat
    BY <1>0, SettingTypes DEF TypeCounts
  <2>3. Used' = Used + 1
    BY <1>0, <2>1, <2>2 DEF Used
  <2>4. pc = "retry" /\ pc' = "header" /\ tryCnt' = tryCnt + 1
    BY <1>6 DEF PoolHit
  <2> QED BY <1>1, <1>2, <2>3, <2>4
<1>7. CASE Connect
  <2>1. pc = "retry" /\ pc' = "header" /\ tryCnt' = tryCnt + 1 /\ Used' = Used
    BY <1>3, <1>7 DEF Connect
  <2>2. sv'.kind = "direct" /\ ~AlwaysDirect => ~blocked
    BY <1>0, <1>7, ConnectKinds
  <2> QED BY <1>1, <1>2, <2>1, <2>2
<1>8. CASE ConnectFails \/ Skipping
  BY <1>8 DEF ConnectFails, Skipping, SkipUnit, SkipFails, Trying
<1>9. CASE Sending
  <2>1. /\ UNCHANGED <<sv, tryCnt, hits, expire>> /\ pc \in Trying /\ pc' \in Trying
    BY <1>9 DEF Sending, SendHeader, SendBodyUnit, BodyEndsEarly, site, Trying
  <2> QED BY <1>2, <1>3, <2>1 DEF Trying
<1>10. CASE Ending
  <2>1. pc' \notin Trying /\ Used' = Used /\ tryCnt' \in {0, tryCnt}
    BY <1>0, <1>3, <1>10, EndingFacts, EndingLeaves DEF TryEnded, Trying
  <2>2. ASSUME pc' = "retry" PROVE blocked' /\ tryCnt <= Used + 1
    <3>1. pc \in Awaiting /\ maybeFake /\ blocked'
      BY <1>10, <2>2, MildRetry
    <3> QED BY <1>2, <3>1 DEF maybeFake, Trying
  <2> QED BY <1>1, <2>1, <2>2
<1>11. CASE ReadStatusLine
  <2>1. /\ UNCHANGED <<sv, tryCnt, hits, expire>> /\ pc = "response" /\ pc' = "resphead"
    BY <1>11 DEF ReadStatusLine, request, site
  <2> QED BY <1>2, <1>3, <2>1 DEF Trying
<1>12. CASE Receiving /\ ~ReadStatusLine
  BY <1>12 DEF Receiving, ReadHead, GiveUp, ReadBody, ReadBodyCut, Finish, Upgrade, Trying
<1> QED BY <1>4, <1>5, <1>6, <1>7, <1>8, <1>9, <1>10, <1>11, <1>12, StepKinds DEF Getting

\* Inside a body that is in step the client's stream does not end, and the next
\* unit is one of the body.
LEMMA BodyReadable ==
  ASSUME Types, Mild, pc \in {"skip", "body"}, pos = start + got
  PROVE  ~ReadFails /\ ~EndsEarly
<1>1. /\ cfg \in Settings /\ Len(Stream) \in Nat /\ start \in Nat /\ got \in Nat
      /\ avail \in Nat /\ start \in 0 .. Len(Stream)
  <2>1. cfg \in Settings /\ Len(Stream) \in Nat
    BY SettingTypes DEF Types, TypeFlags
  <2>2. got \in Nat
    BY <2>1, BodyLenFacts DEF Types, TypeStream
  <2> QED BY <2>1, <2>2 DEF Types, TypeStream
<1>2. BodyLen \in Nat /\ start + BodyLen <= Len(Stream)
      /\ \A i \in (start + 1) .. (start + BodyLen) : Stream[i] = "body"
  BY <1>1, BodyLenFacts
<1>3. got < BodyLen
  BY DEF Types, TypeStream
<1>4. Stream[pos + 1] = "body"
  BY <1>1, <1>2, <1>3
<1>5. cliClosed => pos < avail
  BY <1>1, <1>2, <1>3, MildFacts DEF Types, TypeStream
<1> QED BY <1>4, <1>5 DEF ReadFails, EndsEarly, ReadsUnit

\* Where dialling does not fail, only a missing parent is an error.
LEMMA MildConnectFails ==
  ASSUME Mild, cfg \in Settings, ConnectFails
  PROVE  AlwaysProxy /\ ~Parents
<1>1. PICK a \in AsBlocked, d \in DialResults(TRUE), p \in DialResults(Parents) :
         connectServer(a, d, p) = "fail"
  BY DEF ConnectFails
<1>2. Parents \in BOOLEAN /\ AlwaysProxy \in BOOLEAN
  BY SettingTypes
<1>3. d = TRUE /\ p = Parents
  BY <1>1, <1>2, MildFacts DEF DialResults
<1> QED BY <1>1, <1>2, <1>3 DEF connectServer

\* The copy of a body in step grows with it.
LEMMA WriterRuns ==
  ASSUME NEW a \in Nat, NEW n \in Nat, serverWriter(a + n + 1), raw = NoRaw \/ raw = Run(a, n)
  PROVE  raw' = NoRaw \/ raw' = Run(a, n + 1)
<1>1. CASE raw = NoRaw \/ Len(raw) >= cfg.bufUnits
  BY <1>1 DEF serverWriter
<1>2. CASE raw # NoRaw /\ ~(Len(raw) >= cfg.bufUnits)
  <2>1. raw' = Append(raw, a + n + 1) /\ raw = Run(a, n)
    BY <1>2 DEF serverWriter
  <2> QED BY <2>1, RunGrows
<1> QED BY <1>1, <1>2

\* Only the first try reads the body: no try sets the count back.
LEMMA MildCount ==
  ASSUME ServeInv, TryInv, TriesInv, Mild, Ending, pc' = "retry"
  PROVE  tryCnt' = tryCnt /\ tryCnt >= 1
<1>0. TypeFlags /\ TypeCounts /\ cfg \in Settings
  BY DEF ServeInv, Types, TypeFlags
<1>1. /\ pc \in Trying /\ (tryCnt' = tryCnt \/ (maybeFake /\ tryCnt > 3))
  <2>1. responseNotSent /\ (tryCnt' = tryCnt \/ (maybeFake /\ tryCnt > 3))
    BY <1>0, EndingFacts DEF TryEnded
  <2>2. pc # "respbody"
    BY <2>1 DEF ServeInv, StateInv, responseNotSent, rsRecvBody, rsSent
  <2> QED BY <2>1, <2>2, EndingLeaves
<1>2. ASSUME maybeFake PROVE ~(tryCnt > 3)
  <2>1. sv.kind = "direct" /\ ~AlwaysDirect
    BY <1>2 DEF maybeFake
  <2>2. ~AlwaysProxy
    BY <2>1 DEF ServeInv, SiteInv, SiteRules
  <2>3. tryCnt <= Used + 1 /\ cfg.maxHits + cfg.maxExpire <= 2
    BY <1>1, <2>1, <2>2 DEF TriesInv, Mild
  <2>4. cfg.maxHits \in Nat /\ cfg.maxExpire \in Nat
    BY <1>0, SettingTypes
  <2>5. Used <= 2 /\ Used \in Int
    BY <1>0, <2>3, <2>4 DEF Used, TypeCounts
  <2> QED BY <1>0, <2>3, <2>5 DEF TypeCounts
<1> QED BY <1>1, <1>2 DEF TryInv

\* PlaceInv in the words of one step: where serve is, how far it has read, and
\* what it keeps and has sent of a body of b units that follows unit a.
Placed(p, f, q, w, d, g, a, b) ==
  /\ p = "parse" => q = a + b
  /\ p \in {"retry", "header"} =>
       (f => q = a /\ w = Run(a, 0)) /\ (~f => q = a + b /\ w = Run(a, b))
  /\ p = "skip" => q = a + g
  /\ p = "body" => f /\ q = a + g /\ d = Run(a, g) /\ (w = NoRaw \/ w = Run(a, g))
  /\ p \in Awaiting => q = a + b /\ d = Run(a, b) /\ (w = NoRaw \/ w = Run(a, b))
  /\ p = "respbody" => q = a + b
  /\ q <= a + b

\* Every step keeps PlaceInv.
LEMMA PlaceStep ==
  ASSUME ServeInv, TryInv, TriesInv, PlaceInv, [Next]_vars
  PROVE  PlaceInv'
<1>0. /\ cfg \in Settings /\ cfg' = cfg /\ Mild' = Mild /\ TypeFlags /\ TypeCounts /\ Types
      /\ Len(Stream) \in Nat /\ NoRaw' = NoRaw
  BY SettingFixed, SettingTypes DEF ServeInv, Types, TypeFlags, Mild, NoRaw
<1>n. /\ start \in Nat /\ start \in 0 .. Len(Stream) /\ pos \in Nat /\ avail \in Nat
      /\ tryCnt \in Nat /\ avail <= Len(Stream)
  BY <1>0 DEF Types, TypeStream, TypeCounts
<1>b. BodyLen \in Nat /\ got \in Nat /\ got <= BodyLen
  BY <1>0, <1>n, BodyLenFacts DEF Types, TypeStream
<1> SUFFICES ASSUME Mild PROVE PlaceInv'
  BY <1>0 DEF PlaceInv
<1> DEFINE Now == Placed(pc, FirstTry, pos, raw, delivered, got, start, BodyLen)
           After(a, b) == Placed(pc', FirstTry', pos', raw', delivered', got', a, b)
<1>1. Now
  BY DEF PlaceInv, Placed
<1>2. ASSUME NEW a, NEW b, a = start', b = BodyLen', After(a, b) PROVE PlaceInv'
  BY <1>0, <1>2 DEF PlaceInv, Placed, Run
<1> HIDE DEF Now, After
<1>3. ASSUME start' = start, After(start, BodyLen) PROVE PlaceInv'
  <2>1. BodyLen' = BodyLen
    BY <1>0, <1>3, BodyFixed
  <2> QED BY <1>2, <1>3, <2>1
<1>4. CASE World
  <2>1. FirstTry' = FirstTry /\ start' = start
    BY <1>4, WorldLeaves DEF FirstTry
  <2>2. After(start, BodyLen)
    BY <1>1, <1>4, <2>1, WorldLeaves DEF Now, After
  <2> QED BY <1>3, <2>1, <2>2
<1>5. CASE ParseRequest \/ RefuseRequest
  <2>1. start' = pos + 1 /\ pos' = pos + 1 /\ raw' = << >> /\ tryCnt' = 0 /\ pos < avail
        /\ pc' \in {"retry", "closed"}
    BY <1>5 DEF ParseRequest, RefuseRequest
  <2>2. PICK b : b = BodyLen'
    OBVIOUS
  <2>3. b \in Nat
    BY <1>0, <1>n, <2>1, <2>2, BodyLenNext
  <2>4. pc' = "retry" => FirstTry'
    BY <2>1 DEF FirstTry
  <2>5. raw' = Run(pos + 1, 0)
    BY <1>n, <2>1, EmptyRun
  <2>6. After(pos + 1, b)
    BY <1>n, <2>1, <2>3, <2>4, <2>5 DEF After, Placed
  <2> QED BY <1>2, <2>1, <2>2, <2>6
<1>6. CASE NoRequest
  <2>1. start' = start /\ pos' = pos /\ pc' = "closed"
    BY <1>6 DEF NoRequest, client, request
  <2>2. After(start, BodyLen)
    BY <1>1, <2>1 DEF Now, After, Placed
  <2> QED BY <1>3, <2>1, <2>2
<1>7. CASE PoolHit \/ Connect
  <2>1. /\ start' = start /\ pos' = pos /\ raw' = raw /\ pc = "retry" /\ pc' = "header"
        /\ tryCnt' = tryCnt + 1
    BY <1>0, <1>7, NewServer
  <2>2. FirstTry' = FirstTry
    BY <1>n, <2>1 DEF FirstTry
  <2>3. After(start, BodyLen)
    BY <1>1, <2>1, <2>2 DEF Now, After, Placed
  <2> QED BY <1>3, <2>1, <2>3
<1>8. CASE ConnectFails
  <2>1. pc = "retry" /\ start' = start /\ pos' = pos /\ got' = 0
        /\ pc' = IF hasBody THEN "skip" ELSE "parse"
    BY <1>8 DEF ConnectFails, client
  <2>2. FirstTry
    BY <1>0, <1>8, <2>1, MildConnectFails DEF TryInv, FirstTry
  <2>3. pos = start
    BY <1>1, <2>1, <2>2 DEF Now, Placed
  <2>4. After(start, BodyLen)
    BY <1>n, <1>b, <2>1, <2>3 DEF After, Placed, hasBody
  <2> QED BY <1>3, <2>1, <2>4
<1>9. CASE SkipUnit
  <2>1. pc = "skip" /\ start' = start /\ pos' = pos + 1 /\ got' = got + 1
        /\ pc' = IF got + 1 = BodyLen THEN "parse" ELSE "skip"
    BY <1>9 DEF SkipUnit, request
  <2>2. pos = start + got /\ got < BodyLen
    BY <1>0, <1>1, <2>1 DEF Now, Placed, Types, TypeStream
  <2>3. After(start, BodyLen)
    BY <1>n, <1>b, <2>1, <2>2 DEF After, Placed
  <2> QED BY <1>3, <2>1, <2>3
<1>10. CASE SkipFails \/ BodyEndsEarly
  <2>1. pc \in {"skip", "body"} /\ (ReadFails \/ EndsEarly)
    BY <1>10 DEF SkipFails, BodyEndsEarly
  <2>2. pos = start + got
    BY <1>1, <2>1 DEF Now, Placed
  <2> QED BY <1>0, <2>1, <2>2, BodyReadable
<1>11. CASE SendHeader
  <2>1. /\ pc = "header" /\ start' = start /\ pos' = pos /\ got' = 0 /\ raw' = raw
        /\ delivered' = raw /\ tryCnt' = tryCnt
        /\ pc' = IF hasBody /\ ~isRetry THEN "body" ELSE "response"
    BY <1>11 DEF SendHeader, client
  <2>2. /\ FirstTry <=> ~isRetry
        /\ pc' = "body" => (FirstTry' <=> FirstTry)
    BY <1>n, <2>1 DEF FirstTry, isRetry, TryInv, Trying
  <2>3. /\ FirstTry => pos = start /\ raw = Run(start, 0)
        /\ ~FirstTry => pos = start + BodyLen /\ raw = Run(start, BodyLen)
    BY <1>1, <2>1 DEF Now, Placed
  <2>4. CASE hasBody /\ FirstTry
    <3>1. pc' = "body" /\ FirstTry' /\ pos' = start + 0 /\ raw' = Run(start, 0)
      BY <1>n, <2>1, <2>2, <2>3, <2>4
    <3>2. After(start, BodyLen)
      BY <1>n, <1>b, <2>1, <3>1 DEF After, Placed
    <3> QED BY <1>3, <2>1, <3>2
  <2>5. CASE ~(hasBody /\ FirstTry)
    <3>1. pc' = "response" /\ pos' = start + BodyLen /\ raw' = Run(start, BodyLen)
      BY <1>n, <1>b, <2>1, <2>2, <2>3, <2>5 DEF hasBody
    <3>2. After(start, BodyLen)
      BY <1>n, <1>b, <2>1, <3>1 DEF After, Placed
    <3> QED BY <1>3, <2>1, <3>2
  <2> QED BY <2>4, <2>5
<1>12. CASE SendBodyUnit
  <2>1. /\ pc = "body" /\ start' = start /\ pos' = pos + 1 /\ got' = got + 1 /\ tryCnt' = tryCnt
        /\ serverWriter(pos + 1) /\ delivered' = Append(delivered, pos + 1)
        /\ pc' = IF got + 1 = BodyLen THEN "response" ELSE "body"
    BY <1>12 DEF SendBodyUnit
  <2>2. /\ FirstTry /\ pos = start + got /\ delivered = Run(start, got)
        /\ raw = NoRaw \/ raw = Run(start, got)
    BY <1>1, <2>1 DEF Now, Placed
  <2>3. got < BodyLen
    BY <1>0, <2>1 DEF Types, TypeStream
  <2>4. pos + 1 = start + got + 1
    BY <1>n, <1>b, <2>2
  <2>5. raw' = NoRaw \/ raw' = Run(start, got + 1)
    BY <1>n, <1>b, <2>1, <2>2, <2>4, WriterRuns
  <2>6. delivered' = Run(start, got + 1)
    BY <1>n, <1>b, <2>1, <2>2, <2>4, RunGrows
  <2>7. pc' = "body" => FirstTry'
    BY <2>1, <2>2 DEF FirstTry
  <2>8. pos' = start + (got + 1) /\ pos' <= start + BodyLen
    BY <1>n, <1>b, <2>1, <2>3, <2>4
  <2>9. After(start, BodyLen)
    BY <2>1, <2>5, <2>6, <2>7, <2>8 DEF After, Placed
  <2> QED BY <1>3, <2>1, <2>9
<1>13. CASE Ending
  <2>1. ~SendHeaderFails /\ ~SendBodyUnitFails
    BY MildFacts DEF SendHeaderFails, SendBodyUnitFails, handleServerWriteError
  <2>2. ~BodyReadFails
    <3>1. pc = "body" => pos = start + got
      BY <1>1 DEF Now, Placed
    <3> QED BY <1>0, <3>1, BodyReadable DEF BodyReadFails
  <2>3. UNCHANGED <<pos, start, raw>> /\ pc \in {"response", "resphead", "respbody"}
    BY <1>13, <2>1, <2>2 DEF Ending, ReadError, ReadBodyFails, client
  <2>4. pos = start + BodyLen /\ (pc \in Awaiting => raw = NoRaw \/ raw = Run(start, BodyLen))
    BY <1>1, <2>3 DEF Now, Placed
  <2>5. /\ pc' \in {"closed", "panic", "retry", "parse"}
        /\ pc' = "retry" => raw' # NoRaw /\ responseNotSent
    BY <1>0, <1>13, EndingFacts DEF TryEnded
  <2>6. pc = "respbody" => ~responseNotSent
    BY DEF ServeInv, StateInv, responseNotSent, rsRecvBody, rsSent
  <2>7. pc' = "retry" => ~FirstTry'
    BY <1>n, <1>13, MildCount DEF FirstTry
  <2>8. After(start, BodyLen)
    BY <1>n, <1>b, <2>3, <2>4, <2>5, <2>6, <2>7 DEF After, Placed
  <2> QED BY <1>3, <2>3, <2>8
<1>14. CASE Receiving
  <2>1. /\ UNCHANGED <<pos, start>> /\ pc \in {"response", "resphead", "respbody"}
        /\ \/ pc' \in {"respbody", "closed", "parse", "panic"}
           \/ pc = "response" /\ pc' = "resphead" /\ UNCHANGED <<raw, delivered>>
    BY <1>14
    DEF Receiving, ReadStatusLine, ReadHead, GiveUp, ReadBody, ReadBodyCut, Finish, Upgrade, client,
      request
  <2>2. /\ pos = start + BodyLen
        /\ pc = "response" =>
             delivered = Run(start, BodyLen) /\ (raw = NoRaw \/ raw = Run(start, BodyLen))
    BY <1>1, <2>1 DEF Now, Placed
  <2>3. After(start, BodyLen)
    BY <1>n, <1>b, <2>1, <2>2 DEF After, Placed
  <2> QED BY <1>3, <2>1, <2>3
<1> QED BY <1>4, <1>5, <1>6, <1>7, <1>8, <1>9, <1>10, <1>11, <1>12, <1>13, <1>14, StepKinds
    DEF Taking, Getting, Skipping, Sending

-----------------------------------------------------------------------------
(* The theorems                                                            *)

\* Init establishes the invariant.
LEMMA ServeInit == Init => ServeInv /\ StepInv
<1> SUFFICES ASSUME Init PROVE ServeInv /\ StepInv
  OBVIOUS
<1>0. /\ cfg \in Settings /\ pc = "parse" /\ pos = 0 /\ avail = 0 /\ cliClosed = FALSE
      /\ start = 0 /\ tryCnt = 0 /\ state = rsCreated /\ raw = << >> /\ partial = FALSE
      /\ got = 0 /\ delivered = << >> /\ sv = NoServer /\ blocked = FALSE
      /\ standing \in {"open", "blocked"} /\ answered = 0 /\ cut = FALSE /\ avoid = FALSE
      /\ hits = cfg.maxHits /\ expire = cfg.maxExpire
  BY DEF Init
<1>1. /\ cfg.maxHits \in Nat /\ cfg.maxExpire \in Nat /\ cfg.bufUnits \in Nat
      /\ Len(Stream) \in Nat
  BY <1>0, SettingTypes
<1>2. BodyLen = 0
  BY <1>0 DEF BodyLen
<1>3. TypeFlags /\ TypeCounts
  <2>1. sv \in Servers
    BY <1>0 DEF Servers, NoServer
  <2>2. state \in {rsCreated, rsSent, rsRecvBody, rsDone}
    BY <1>0
  <2>3. hits \in 0 .. cfg.maxHits /\ expire \in 0 .. cfg.maxExpire
    BY <1>0, <1>1
  <2>4. TypeFlags
    BY <1>0, <2>1 DEF TypeFlags, Steps
  <2>5. TypeCounts
    BY <1>0, <2>2, <2>3 DEF TypeCounts
  <2> QED BY <2>4, <2>5
<1>4. TypeStream
  BY <1>0, <1>1, <1>2 DEF TypeStream
<1>5. TypeBuffers
  <2>1. raw \in Seq(Units) /\ Len(raw) = 0 /\ delivered \in Seq(Units)
    BY <1>0
  <2> QED BY <1>1, <2>1 DEF TypeBuffers
<1>6. ConnInv /\ StateInv
  BY <1>0 DEF ConnInv, StateInv, Trying
<1>7. AnswerInv /\ RawInv
  BY <1>0 DEF AnswerInv, OneAnswer, RawInv, NoPanic
<1>8. SiteInv
  BY <1>0 DEF SiteInv, SiteRules, NoServer
<1>9. TryInv /\ HeadsInv /\ TriesInv
  BY <1>0 DEF TryInv, HeadsInv, TriesInv, Trying
<1>10. PlaceInv
  BY <1>0, <1>2 DEF PlaceInv
<1> QED BY <1>3, <1>4, <1>5, <1>6, <1>7, <1>8, <1>9, <1>10 DEF ServeInv, Types, StepInv

\* Every step keeps the invariant.
LEMMA ServeStep == ServeInv /\ StepInv /\ [Next]_vars => ServeInv' /\ StepInv'
<1> SUFFICES ASSUME ServeInv, StepInv, [Next]_vars PROVE ServeInv' /\ StepInv'
  OBVIOUS
<1> USE DEF ServeInv, Types, StepInv
<1>1. TypeFlags' /\ TypeCounts' /\ TypeStream' /\ TypeBuffers'
  BY FlagsStep, CountsStep, StreamStep, BuffersStep
<1>2. ConnInv' /\ StateInv' /\ AnswerInv'
  BY ConnStep, StateStep, AnswerStep
<1>3. RawInv' /\ SiteInv'
  BY RawStep, SiteStep
<1>4. TryInv' /\ HeadsInv' /\ PlaceInv' /\ TriesInv'
  BY TryStep, HeadsStep, PlaceStep, TriesStep
<1> QED BY <1>1, <1>2, <1>3, <1>4

\* The type invariant follows from the types the proofs use.
LEMMA ServeTypes == Types /\ ConnInv => TypeOK
<1>1. Types /\ ConnInv => (sv = NoServer \/ sv \in [kind : {"direct", "parent"}, connected : BOOLEAN])
  <2>1. Types => sv \in Servers /\ pc \in Steps
    BY DEF Types, TypeFlags
  <2>2. pc \in Steps => pc \in Idle \/ pc \in Trying \cup {"respbody"}
    BY DEF Steps, Idle, Trying
  <2> QED BY <2>1, <2>2 DEF ConnInv, Servers
<1> QED BY <1>1 DEF Types, TypeFlags, TypeCounts, TypeStream, TypeBuffers, TypeOK

\* In every setting, whatever fails and however the client, the servers and the
\* clock interleave: the types of serve's state, how its connection and the
\* request's state go together, and the parts of the invariant from which the
\* theorems below follow.
THEOREM ServeInvHolds == Spec => [](ServeInv /\ StepInv /\ TypeOK)
<1>1. ServeInv => TypeOK
  BY ServeTypes DEF ServeInv
<1> QED BY <1>1, ServeInit, ServeStep, PTL DEF Spec

\* A request that serve has taken up gets one answer: no retry after the
\* response has begun, no second page, and one answer before the next request
\* (serve, shouldRetry, handleServerReadError).
THEOREM AnswersOnce == Spec => []OneAnswer
<1>1. ServeInv => OneAnswer
  BY DEF ServeInv, AnswerInv
<1> QED BY <1>1, ServeInvHolds, PTL

\* shouldRetry's panic is not reached and no try sends from the buffer that
\* serverWriter or readResponse has released; only an upgrade after a retry
\* reads it.
THEOREM RetriesFromCopy == Spec => []NoPanic
<1>1. ServeInv => NoPanic
  BY DEF ServeInv, RawInv
<1> QED BY <1>1, ServeInvHolds, PTL

\* serve closes its server connection or gives it back to the pool on every
\* path before it asks for another one, reads the next request or ends.
THEOREM ReleasesServers == Spec => []ServerReleased
<1>1. ServeInv => ServerReleased
  BY DEF ServeInv, ConnInv, ServerReleased, Idle
<1> QED BY <1>1, ServeInvHolds, PTL

\* connectServer, the pool and the marks of shouldRetry keep the user's site
\* lists, AlwaysProxy and the temporary blocks.
THEOREM KeepsSiteRules == Spec => []SiteRules
<1>1. ServeInv => SiteRules
  BY DEF ServeInv, SiteInv
<1> QED BY <1>1, ServeInvHolds, PTL

\* Over the failures and retries that KeepsPlace names, for streams, buffers and
\* numbers of requests of any size, the client's stream stays in step and a
\* server that is waited for has been sent the whole body once (sendBody,
\* serverWriter, sendRequestHeader).
THEOREM StreamInStep == Spec => []StaysInStep
<1>1. ServeInv /\ StepInv => StaysInStep
  <2> SUFFICES ASSUME ServeInv, StepInv, KeepsPlace
               PROVE  InStep /\ (pc \in Awaiting => delivered = WholeBody)
    BY DEF StaysInStep
  <2>0. /\ cfg \in Settings /\ start \in 0 .. Len(Stream) /\ start \in Nat
        /\ pc \in Steps
    <3>1. Len(Stream) \in Nat
      BY SettingTypes DEF ServeInv, Types, TypeFlags
    <3> QED BY <3>1 DEF ServeInv, Types, TypeFlags, TypeStream
  <2>1. WholeBody = Run(start, BodyLen)
    BY DEF WholeBody, Run
  <2>2. CASE NoBodies
    <3>1. BodyLen = 0 /\ pos = start
      BY <2>0, <2>2, NoBodyLen DEF StepInv, HeadsInv
    <3>2. pc \in Awaiting => delivered = Run(start, 0)
      BY <2>2 DEF StepInv, HeadsInv
    <3> QED BY <2>0, <2>1, <3>1, <3>2 DEF InStep
  <2>3. CASE Mild
    <3>1. /\ pos <= start + BodyLen /\ (pc = "parse" => pos = start + BodyLen)
          /\ pc \in Awaiting => delivered = Run(start, BodyLen)
      BY <2>3 DEF StepInv, PlaceInv
    <3>2. BodyLen \in Nat /\ pos \in Int
      BY <2>0, BodyLenFacts, SettingTypes DEF ServeInv, Types, TypeStream
    <3> QED BY <2>0, <2>1, <3>1, <3>2 DEF InStep
  <2> QED BY <2>2, <2>3 DEF KeepsPlace, NoBodies, Mild
<1> QED BY <1>1, ServeInvHolds, PTL

=============================================================================
