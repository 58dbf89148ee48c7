----------------------------- MODULE ParentPool -----------------------------
(***************************************************************************)
(* The choice of a parent proxy (parent_proxy.go): connectInOrder for the  *)
(* strategies backup and hash, latencyParentPool.connect for latency, and  *)
(* the pool of HTTP parents, which both treat as one entry.  Requests      *)
(* connect concurrently; one goroutine probes the HTTP parents and one     *)
(* measures latencies, each once a minute; initParentPool starts both.     *)
(*                                                                         *)
(* Whether a parent answers is the environment's choice; it may change in  *)
(* the middle of everything, cfg.flips times. A latency is a small number; *)
(* Penalty is what failed dials count, latencyMax what is never measured.  *)
(***************************************************************************)
EXTENDS Integers, Sequences, FiniteSets, SequencesExt, FiniteSetsExt

CONSTANTS
  Requests,    \* the requests that connect through a parent
  Settings,    \* the configurations that are looked at
  maxFailCnt   \* ParentWithFail.connect counts failures up to here

\* strategy: config.LoadBalance
\* parents: the parents as configured
\* http: those of them that are HTTP parents
\* lats: latencies of a parent that answers
\* calls: bound, how often each request connects
\* flips: bound, how often a parent comes up or goes down
ASSUME ParentAssumption ==
  /\ maxFailCnt \in Nat
  /\ \A c \in Settings :
       /\ c.strategy \in {"backup", "hash", "latency"}
       /\ c.parents \in Seq(Range(c.parents)) /\ IsInjective(c.parents)
       /\ c.http \subseteq Range(c.parents)
       /\ c.lats \subseteq Nat /\ \E m \in c.lats : \A l \in c.lats : l <= m
       /\ c.flips \in Nat
       /\ c.calls \in [Requests -> Nat]

VARIABLES
  cfg,       \* the configuration
  up,        \* the parents that answer
  flips,     \* changes of up that may still happen
  pool,      \* the strategy of parentProxy
  main,      \* where initParentPool is
  fail,      \* ParentWithFail.fail
  list,      \* latencyParentPool.parent
  updater,   \* where updateParentProxyLatency is
  copy,      \* the copy it works on, and how much of it is measured
  lat,       \* httpParentNode.latency
  flag,      \* the nodes whose httpParentNode.available is set
  available, \* httpParentPool.available
  prober,    \* where the probing goroutine is
  probe,     \* results so far of each goroutine's updateAvailable
  req        \* the call of connect of each request

Parents == Range(cfg.parents)
N == Len(cfg.parents)
Penalty == Max(cfg.lats) + 1
latencyMax == Max(cfg.lats) + 2

envVars == <<cfg, up, flips>>
initVars == <<pool, main>>
latencyVars == <<list, updater, copy>>
httpVars == <<lat, flag, available>>
probeVars == <<prober, probe>>
vars == <<envVars, initVars, fail, latencyVars, httpVars, probeVars, req>>

Entry(p, l) == [parent |-> p, latency |-> l]
AsConfigured == [i \in 1 .. N |-> Entry(cfg.parents[i], 0)]
NoResults == [n \in cfg.http |-> -1]

\* A call of connect: own is the slice it walks, <<>> while that is the one
\* latencyParentPool.parent still points to; tried are the parents dialled,
\* nodes the HTTP parents still to be dialled.
Idle(calls) ==
  [pc |-> "idle", calls |-> calls, by |-> pool, own |-> <<>>, i |-> 1,
   skipped |-> <<>>, triedHTTP |-> FALSE, nodes |-> <<>>, tried |-> <<>>]

Init ==
  /\ cfg \in Settings
  /\ up \in SUBSET Parents /\ flips = cfg.flips
  /\ pool = "backup" /\ main = "start"
  /\ fail = [p \in Parents |-> 0]
  /\ list = AsConfigured /\ updater = "off" /\ copy = [list |-> <<>>, done |-> 0]
  /\ lat = [n \in cfg.http |-> 0] /\ flag = {} /\ available = <<>>
  /\ prober = "off" /\ probe = [g \in Requests \cup {"prober"} |-> NoResults]
  /\ req = [r \in Requests |-> Idle(0)]

\* A parent stops or starts answering.
Flip ==
  /\ flips > 0 /\ flips' = flips - 1
  /\ \E p \in Parents : up' = SymDiff(up, {p})
  /\ UNCHANGED <<cfg, initVars, fail, latencyVars, httpVars, probeVars, req>>

-----------------------------------------------------------------------------
(* initParentPool                                                          *)

\* With one parent there is nothing to balance.
Strategy == IF N = 1 THEN "backup" ELSE cfg.strategy

\* Starts the goroutines; the latency one before parentProxy is replaced.
InitStart ==
  /\ main = "start" /\ main' = "assign"
  /\ prober' = IF cfg.http # {} THEN "probing" ELSE "off"
  /\ updater' = IF Strategy = "latency" THEN "begin" ELSE "off"
  /\ UNCHANGED <<envVars, pool, fail, list, copy, httpVars, probe, req>>

InitAssign ==
  /\ main = "assign" /\ main' = "done"
  /\ pool' = Strategy
  /\ UNCHANGED <<envVars, fail, latencyVars, httpVars, probeVars, req>>

-----------------------------------------------------------------------------
(* updateParentProxyLatency and latencyParentPool.updateLatency            *)

\* It looks at parentProxy once.
UpdaterBegin ==
  /\ updater = "begin"
  /\ updater' = IF pool = "latency" THEN "sleep" ELSE "returned"
  /\ UNCHANGED <<envVars, initVars, fail, list, copy, httpVars, probeVars, req>>

UpdaterCopy ==
  /\ updater = "sleep" /\ updater' = "measure"
  /\ copy' = [list |-> list, done |-> 0]
  /\ UNCHANGED <<envVars, initVars, fail, list, httpVars, probeVars, req>>

\* A parent whose name does not resolve gets latencyMax, one that does not
\* answer the penalty.
UpdaterMeasure ==
  /\ updater = "measure" /\ copy.done < N
  /\ LET p == copy.list[copy.done + 1].parent IN
     \E l \in IF p \in up THEN cfg.lats ELSE {Penalty, latencyMax} :
       copy' = [list |-> [copy.list EXCEPT ![copy.done + 1] = Entry(p, l)],
                done |-> copy.done + 1]
  /\ UNCHANGED <<envVars, initVars, fail, list, updater, httpVars, probeVars,
                 req>>

\* The elements of s at the positions in K, in the order that R gives these.
Place(K, R, i) == Cardinality({j \in K : <<j, i>> \in R})
Arrange(s, K, R) ==
  [k \in 1 .. Cardinality(K) |-> s[CHOOSE i \in K : Place(K, R, i) = k - 1]]

\* sort.Stable: by latency, and by place where that is equal.
Before(s) == {x \in (DOMAIN s) \X (DOMAIN s) :
  \/ s[x[1]].latency < s[x[2]].latency
  \/ s[x[1]].latency = s[x[2]].latency /\ x[1] < x[2]}
Sorted(s) == Arrange(s, DOMAIN s, Before(s))

\* Mutant: the slice that calls of connect walk is sorted, not a copy.
UpdaterReplaceInPlace ==
  /\ updater = "measure" /\ copy.done = N
  /\ list' = Sorted(copy.list)
  /\ updater' = "sleep" /\ copy' = [list |-> <<>>, done |-> 0]
  /\ UNCHANGED <<envVars, initVars, fail, httpVars, probeVars, req>>

\* Calls that walk the old slice keep it.
UpdaterReplace ==
  /\ updater = "measure" /\ copy.done = N
  /\ list' = Sorted(copy.list)
  /\ updater' = "sleep" /\ copy' = [list |-> <<>>, done |-> 0]
  /\ req' = [r \in Requests |->
       IF req[r].own = <<>> /\ req[r].pc \notin {"idle", "failed", "connected"}
       THEN [req[r] EXCEPT !.own = list] ELSE req[r]]
  /\ UNCHANGED <<envVars, initVars, fail, httpVars, probeVars>>

-----------------------------------------------------------------------------
(* httpParentPool                                                          *)

\* The goroutines in updateAvailable.
Probing(g) == IF g = "prober" THEN prober = "probing" ELSE req[g].pc = "probe"

ProbeNode(g, n) ==
  /\ Probing(g) /\ probe[g][n] = -1
  /\ \E l \in IF n \in up THEN cfg.lats ELSE {latencyMax} :
       probe' = [probe EXCEPT ![g][n] = l]
  /\ UNCHANGED <<envVars, initVars, fail, latencyVars, httpVars, prober, req>>

\* Every result is applied under one lock, whatever happened since the nodes
\* were probed; ties keep the order in which the results came.
Apply(results) ==
  LET ok == {n \in cfg.http : results[n] < latencyMax} IN
  /\ lat' = results
  /\ flag' = ok
  /\ available' \in {s \in SetToSeqs(ok) :
       \A i, j \in DOMAIN s : i < j => results[s[i]] <= results[s[j]]}

ProbeEnd(g) ==
  /\ Probing(g) /\ \A n \in cfg.http : probe[g][n] # -1
  /\ Apply(probe[g])
  /\ probe' = [probe EXCEPT ![g] = NoResults]
  /\ prober' = IF g = "prober" THEN "sleep" ELSE prober
  /\ req' = IF g = "prober" THEN req ELSE [req EXCEPT ![g].pc = "snapshot2"]
  /\ UNCHANGED <<envVars, initVars, fail, latencyVars>>

\* Mutant: only the first round is made.
ProbeTickNever ==
  /\ prober = "sleep" /\ prober' = "off"
  /\ UNCHANGED <<envVars, initVars, fail, latencyVars, httpVars, probe, req>>

ProbeTick ==
  /\ prober = "sleep" /\ prober' = "probing"
  /\ UNCHANGED <<envVars, initVars, fail, latencyVars, httpVars, probe, req>>

\* The others, in the order in which they stand.
Without(s, n) ==
  LET kept == {i \in DOMAIN s : s[i] # n}
  IN Arrange(s, kept, {x \in kept \X kept : x[1] < x[2]})

\* Mutant: the node is not taken out of the list.
markUnavailableFlagOnly(n) ==
  /\ flag' = flag \ {n}
  /\ lat' = [lat EXCEPT ![n] = latencyMax]
  /\ UNCHANGED available

markUnavailable(n) ==
  /\ flag' = flag \ {n}
  /\ lat' = [lat EXCEPT ![n] = latencyMax]
  /\ available' = Without(available, n)

-----------------------------------------------------------------------------
(* connectInOrder and latencyParentPool.connect                            *)

Slice(r) == IF req[r].own = <<>> THEN list ELSE req[r].own

\* The parent that r is about to dial: in the first round the one at its
\* index, then the first of the skipped ones.
InRound(r) == req[r].i <= N
Current(r) == IF InRound(r) THEN Slice(r)[req[r].i].parent
              ELSE Head(req[r].skipped)

\* What r looks like when it turns to the next parent.
Advance(r) ==
  IF InRound(r) THEN [req[r] EXCEPT !.pc = "walk", !.i = @ + 1]
  ELSE [req[r] EXCEPT !.pc = "walk", !.skipped = Tail(@)]

callVars == <<envVars, initVars, probeVars>>

\* Backup starts with the first parent, hash with the one that the host's
\* checksum picks, latency with the slice as it is now.
Start(r) ==
  /\ req[r].pc = "idle" /\ main = "done" /\ req[r].calls < cfg.calls[r]
  /\ \E s \in IF pool = "hash" THEN 0 .. N - 1 ELSE {0} :
       req' = [req EXCEPT ![r] =
         [Idle(@.calls + 1) EXCEPT !.pc = "walk",
          !.own = IF pool = "latency" THEN <<>>
                  ELSE [i \in 1 .. N |-> AsConfigured[((i - 1 + s) % N) + 1]]]]
  /\ UNCHANGED <<callVars, fail, latencyVars, httpVars>>

\* The HTTP parents are tried as one, where the first of them stands.
WalkHTTP(r) ==
  /\ req[r].pc = "walk" /\ InRound(r) /\ Current(r) \in cfg.http
  /\ req' = [req EXCEPT ![r] =
       IF @.triedHTTP THEN Advance(r)
       ELSE [@ EXCEPT !.pc = "snapshot", !.triedHTTP = TRUE]]
  /\ UNCHANGED <<callVars, fail, latencyVars, httpVars>>

\* The values of the test that skips a parent; after failures it is random.
Skips(r) ==
  IF req[r].by = "latency" THEN {Slice(r)[req[r].i].latency >= latencyMax}
  ELSE IF fail[Current(r)] > 0 THEN BOOLEAN ELSE {FALSE}

WalkSkip(r) ==
  /\ req[r].pc = "walk" /\ InRound(r) /\ Current(r) \notin cfg.http
  /\ TRUE \in Skips(r)
  /\ req' = [req EXCEPT ![r] =
       [Advance(r) EXCEPT !.skipped = Append(@, Current(r))]]
  /\ UNCHANGED <<callVars, fail, latencyVars, httpVars>>

WalkDial(r) ==
  /\ req[r].pc = "walk"
  /\ IF InRound(r) THEN Current(r) \notin cfg.http /\ FALSE \in Skips(r)
     ELSE req[r].skipped # <<>>
  /\ req' = [req EXCEPT ![r].pc = "dial", ![r].tried = Append(@, Current(r))]
  /\ UNCHANGED <<callVars, fail, latencyVars, httpVars>>

DialOK(r) ==
  /\ req[r].pc = "dial" /\ Current(r) \in up
  /\ fail' = IF req[r].by = "latency" THEN fail
             ELSE [fail EXCEPT ![Current(r)] = 0]
  /\ req' = [req EXCEPT ![r].pc = "connected"]
  /\ UNCHANGED <<callVars, latencyVars, httpVars>>

\* A failure is counted up to maxFailCnt and not while the network is bad; the
\* latency pool notes it in its first round only.
Noted(r) ==
  IF req[r].by = "latency" THEN {InRound(r)}
  ELSE IF fail[Current(r)] < maxFailCnt THEN BOOLEAN ELSE {FALSE}

DialFails(r) ==
  /\ req[r].pc = "dial" /\ Current(r) \notin up
  /\ \E noted \in Noted(r) :
       req' = [req EXCEPT ![r] =
                 IF noted THEN [@ EXCEPT !.pc = "note"] ELSE Advance(r)]
  /\ UNCHANGED <<callVars, fail, latencyVars, httpVars>>

\* The increment is made without a lock after the test; setLatency looks the
\* parent up in the slice as it is now.
NoteFailure(r) ==
  /\ req[r].pc = "note"
  /\ fail' = IF req[r].by = "latency" THEN fail
             ELSE [fail EXCEPT ![Current(r)] = @ + 1]
  /\ list' = IF req[r].by # "latency" THEN list
             ELSE [i \in DOMAIN list |->
                     IF list[i].parent = Current(r)
                     THEN Entry(Current(r), latencyMax) ELSE list[i]]
  /\ req' = [req EXCEPT ![r] = Advance(r)]
  /\ UNCHANGED <<callVars, updater, copy, httpVars>>

\* httpParentPool.connect: a snapshot of the available nodes; when there is
\* none they are probed first.
Snapshot(r) ==
  /\ req[r].pc \in {"snapshot", "snapshot2"}
  /\ req' = [req EXCEPT ![r] =
       IF available # <<>> THEN [@ EXCEPT !.pc = "http", !.nodes = available]
       ELSE IF @.pc = "snapshot" THEN [@ EXCEPT !.pc = "probe"]
       ELSE Advance(r)]
  /\ UNCHANGED <<callVars, fail, latencyVars, httpVars>>

HTTPDial(r) ==
  /\ req[r].pc = "http"
  /\ req' = [req EXCEPT ![r].pc =
       IF Head(req[r].nodes) \in up THEN "connected" ELSE "mark"]
  /\ UNCHANGED <<callVars, fail, latencyVars, httpVars>>

HTTPMark(r) ==
  /\ req[r].pc = "mark"
  /\ markUnavailable(Head(req[r].nodes))
  /\ req' = [req EXCEPT ![r] =
       LET rest == Tail(@.nodes) IN
       IF rest = <<>> THEN [Advance(r) EXCEPT !.nodes = rest]
       ELSE [@ EXCEPT !.pc = "http", !.nodes = rest]]
  /\ UNCHANGED <<callVars, fail, latencyVars>>

GiveUp(r) ==
  /\ req[r].pc = "walk" /\ ~InRound(r) /\ req[r].skipped = <<>>
  /\ req' = [req EXCEPT ![r].pc = "failed"]
  /\ UNCHANGED <<callVars, fail, latencyVars, httpVars>>

Return(r) ==
  /\ req[r].pc \in {"connected", "failed"}
  /\ req' = [req EXCEPT ![r] = Idle(@.calls)]
  /\ UNCHANGED <<callVars, fail, latencyVars, httpVars>>

-----------------------------------------------------------------------------
InitPool == InitStart \/ InitAssign
Updater == UpdaterBegin \/ UpdaterCopy \/ UpdaterMeasure \/ UpdaterReplace
Probes(g) == ProbeEnd(g) \/ \E n \in cfg.http : ProbeNode(g, n)
Prober == ProbeTick \/ Probes("prober")
Call(r) ==
  \/ Start(r) \/ WalkHTTP(r) \/ WalkSkip(r) \/ WalkDial(r)
  \/ DialOK(r) \/ DialFails(r) \/ NoteFailure(r)
  \/ Snapshot(r) \/ Probes(r) \/ HTTPDial(r) \/ HTTPMark(r)
  \/ GiveUp(r) \/ Return(r)

\* Nothing more to do but for time to pass.
Quiet ==
  /\ \A r \in Requests : req[r].pc = "idle" /\ req[r].calls = cfg.calls[r]
  /\ UNCHANGED vars

Next == Flip \/ InitPool \/ Updater \/ Prober \/ Quiet
        \/ \E r \in Requests : Call(r)

Spec == Init /\ [][Next]_vars

\* Every goroutine runs and every dial returns.
FairSpec ==
  /\ Spec
  /\ WF_vars(InitPool) /\ WF_vars(Updater) /\ WF_vars(Prober)
  /\ \A r \in Requests : WF_vars(Call(r))

-----------------------------------------------------------------------------
(* Properties                                                              *)

Others == Parents \ cfg.http

\* Types.  The failure count is tested and incremented without a lock, so it
\* may pass maxFailCnt by one for each other request.
TypeOK ==
  /\ cfg \in Settings /\ up \subseteq Parents /\ flips \in 0 .. cfg.flips
  /\ pool \in {"backup", "hash", "latency"}
  /\ main \in {"start", "assign", "done"}
  /\ fail \in [Parents -> 0 .. maxFailCnt + Cardinality(Requests) - 1]
  /\ list \in Seq([parent : Parents, latency : 0 .. latencyMax])
  /\ updater \in {"off", "begin", "returned", "sleep", "measure"}
  /\ copy.done \in 0 .. N
  /\ lat \in [cfg.http -> 0 .. latencyMax]
  /\ flag \subseteq cfg.http /\ available \in Seq(cfg.http)
  /\ prober \in {"off", "sleep", "probing"}
  /\ \A g \in DOMAIN probe : probe[g] \in [cfg.http -> -1 .. latencyMax]
  /\ \A r \in Requests :
       /\ req[r].calls \in 0 .. cfg.calls[r] /\ req[r].i \in 1 .. N + 1
       /\ req[r].skipped \in Seq(Others) /\ req[r].nodes \in Seq(cfg.http)

\* "May try several proxies until one that succees, return nil and error if
\* all parent proxies fail": a call that fails has dialled every parent that
\* is not an HTTP one and has asked the HTTP pool, and no call dials a parent
\* twice, though failures and new measurements of other goroutines change the
\* order in the meantime.
TriesAll ==
  \A r \in Requests :
    /\ IsInjective(req[r].tried)
    /\ req[r].pc = "failed" =>
         /\ Range(req[r].tried) = Others
         /\ req[r].triedHTTP = (cfg.http # {})

\* The HTTP pool keeps the list, the flags and the latencies of its nodes in
\* agreement, through probes of several goroutines that overlap and nodes that
\* are marked meanwhile: the list holds the available nodes, once each, the
\* one with the lowest latency first.
ListAgrees ==
  /\ Range(available) = flag /\ IsInjective(available)
  /\ \A i, j \in DOMAIN available :
       i < j => lat[available[i]] <= lat[available[j]]
  /\ \A n \in cfg.http \ flag : lat[n] \in {0, latencyMax}

\* When the parents stop changing, both pools come in line with them: results
\* that were out of date when they were applied, a node marked after it came
\* back, or a measurement that undid what a failed call had noted, do not last.
\* The HTTP pool has exactly the nodes that answer, and the latency pool prefers
\* parents that do.
PoolsRecover ==
  /\ <>[](Range(available) = up \cap cfg.http)
  /\ <>[](updater \in {"sleep", "measure"} =>
          \A i, j \in 1 .. N :
            list[j].parent \in up /\ i < j => list[i].parent \in up)

\* "latency: use the parent proxy with lowest connection latency": when the
\* latency strategy is in use its latencies are measured.
UpdaterRuns == main = "done" /\ pool = "latency" => updater # "returned"
=============================================================================
