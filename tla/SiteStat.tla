------------------------------ MODULE SiteStat ------------------------------
(***************************************************************************)
(* What the proxy remembers of sites (sitestat.go): the map from hosts to  *)
(* VisitCnt objects, the visits that requests count on them without a      *)
(* lock, the domains with a blocked host, the list of direct sites for the *)
(* PAC file, and the file that all of this is saved to and loaded from,    *)
(* through crashes.  The timeouts that estimateTimeout adjusts             *)
(* (estimate_timeout.go) are here because visits do not count while they   *)
(* differ from the configured ones.                                        *)
(*                                                                         *)
(* A VisitCnt is named by its site and by who made it, so that two made    *)
(* for the same host can be told apart.  Counters are IntBits wide and     *)
(* wrap around; the dates are reduced to whether ten days have passed.     *)
(***************************************************************************)
EXTENDS Integers, FiniteSets

CONSTANTS
  Settings,  \* the sites, lists and bounds that are looked at
  Requests,  \* requests that are served at the same time
  maxCnt,    \* a counter is not counted beyond this
  IntMax     \* the largest value of vcntint

\* domain: the domain of each host (a domain is a host of its own domain)
\* direct, blocked: the sites that the built-in and the user's lists name
\* pac: is the list for the PAC file asked for
\* visits: bound, visits each request makes
\* stores, crashes: bounds, saves and ends of the process
\* troubles: bound, estimates that fail or are slow
ASSUME SiteStatAssumption ==
  /\ maxCnt \in Nat /\ IntMax \in Nat /\ 0 < maxCnt /\ maxCnt <= IntMax
  /\ "load" \notin Requests /\ "none" \notin Requests
  /\ \A c \in Settings :
       /\ c.domain \in [DOMAIN c.domain -> DOMAIN c.domain]
       /\ \A s \in DOMAIN c.domain : c.domain[c.domain[s]] = c.domain[s]
       /\ c.direct \cup c.blocked \subseteq DOMAIN c.domain
       /\ c.direct \cap c.blocked = {}
       /\ c.pac \in BOOLEAN
       /\ c.visits \in [Requests -> Nat]
       /\ {c.stores, c.crashes, c.troubles} \subseteq Nat

VARIABLES
  cfg,      \* the setting
  alive,    \* does the process run
  Vcnt,     \* SiteStat.Vcnt: the VisitCnt of each site, or None
  heap,     \* the VisitCnt objects: two counters and the temporary block
  hasBlockedHost, \* domains with a blocked host
  req,      \* the requests
  marked,   \* domains of the hosts for which TempBlocked has returned
  pac,      \* GetDirectList: the sites it has yet to look at, the list, and
            \* marked as it was when it began
  overrun,  \* a count of visits has run round to userCnt
  creates,  \* how often create has been called for a site
  old,      \* SiteStat.Update is more than ten days ago
  storing,  \* the call of storeSiteStat that holds storeLock
  fini,     \* siteStatFini
  stat, bak,  \* the files: the version and content saved, or NoFile
  saved,    \* version of the last save that was completed
  bare,     \* no save was completed since one began without a file to keep
  loaded,   \* version that was loaded, 0 for none
  versions, \* saves begun
  crashes,  \* ends of the process that may still happen
  dialTimeout, readTimeout, \* the timeouts, where 1 is the configured one
  estimate, \* where estimateTimeout is
  troubles  \* estimates that may still go wrong

Sites == DOMAIN cfg.domain
Listed == cfg.direct \cup cfg.blocked
userCnt == -1
None == <<"none", "none">>
NoFile == [version |-> 0, content |-> [s \in {} |-> 0]]

visitVars == <<req, creates, marked, pac, overrun>>
memory == <<Vcnt, heap, hasBlockedHost, old, fini>>
disk == <<stat, bak, saved, bare, loaded, versions>>
network == <<dialTimeout, readTimeout, estimate, troubles>>
vars == <<cfg, alive, visitVars, memory, storing, disk, crashes, network>>

-----------------------------------------------------------------------------
(* VisitCnt                                                                *)

newVisitCnt(d, b) == [direct |-> d, blocked |-> b, temp |-> FALSE]
userSpecified(v) == v.direct = userCnt \/ v.blocked = userCnt
AlwaysDirect(v) == v.direct = userCnt
AlwaysBlocked(v) == v.blocked = userCnt
OnceBlocked(v) == v.blocked > 0 \/ AlwaysBlocked(v) \/ v.temp

\* The difference of the counters decides once there were blocked visits;
\* directDelta and blockedDelta are 1 here.
AsDirect(v) == v.blocked = 0 \/ v.direct - v.blocked >= 1 \/ AlwaysDirect(v)

\* The values AsBlocked may return: there is some randomness in it.
AsBlocked(v) ==
  IF AlwaysBlocked(v) \/ v.temp THEN {TRUE}
  ELSE IF v.blocked - v.direct >= 1 THEN BOOLEAN ELSE {FALSE}

shouldNotSave(v) == userSpecified(v) \/ (v.blocked = 0 /\ v.direct = 0)

\* The built-in and user lists make these.
FromList(s) == IF s \in cfg.direct THEN newVisitCnt(userCnt, 0)
               ELSE newVisitCnt(0, userCnt)

networkBad == dialTimeout # 1 \/ readTimeout # 1

-----------------------------------------------------------------------------
(* Loading                                                                 *)

\* load: the records of the file, unless they have gone stale, and the lists,
\* which come last; then the records covered by a listed domain are dropped.
Load(file, stale) ==
  LET kept == {s \in DOMAIN file.content : ~stale \/ userSpecified(file.content[s])}
      all == kept \cup Listed
      rec == [s \in all |-> IF s \in Listed THEN FromList(s) ELSE file.content[s]]
      dropped == {s \in all : /\ ~userSpecified(rec[s])
                              /\ cfg.domain[s] # s /\ cfg.domain[s] \in all
                              /\ userSpecified(rec[cfg.domain[s]])}
  IN [s \in all \ dropped |-> rec[s]]

IDs == Sites \X (Requests \cup {"load"})

LoadInto(file, stale) ==
  LET rec == Load(file, stale) IN
  /\ Vcnt' = [s \in Sites |-> IF s \in DOMAIN rec THEN <<s, "load">> ELSE None]
  /\ heap' = [id \in {<<s, "load">> : s \in DOMAIN rec} |-> rec[id[1]]]
  /\ hasBlockedHost' = {cfg.domain[s] : s \in {t \in DOMAIN rec : OnceBlocked(rec[t])}}
  /\ old' = (stale /\ file.version # 0)
  /\ loaded' = file.version

NoList == [todo |-> {}, sites |-> {}, marked |-> {}]
NoVisit == [pc |-> "idle", host |-> "none", vc |-> None, kind |-> "none", n |-> 0]
NoStore == [pc |-> "none", kind |-> "cont", file |-> NoFile]

\* The first start, without a file.
Init ==
  /\ cfg \in Settings
  /\ alive = TRUE
  /\ Vcnt = [s \in Sites |-> IF s \in Listed THEN <<s, "load">> ELSE None]
  /\ heap = [id \in {<<s, "load">> : s \in Listed} |-> FromList(id[1])]
  /\ hasBlockedHost = {cfg.domain[s] : s \in cfg.blocked}
  /\ req = [r \in Requests |-> NoVisit]
  /\ marked = {} /\ pac = NoList /\ overrun = FALSE
  /\ creates = [s \in Sites |-> 0]
  /\ old = FALSE /\ fini = FALSE /\ storing = NoStore
  /\ stat = NoFile /\ bak = NoFile /\ saved = 0 /\ bare = FALSE /\ loaded = 0 /\ versions = 0
  /\ crashes = cfg.crashes
  /\ dialTimeout = 1 /\ readTimeout = 1 /\ estimate = "dial"
  /\ troubles = cfg.troubles

-----------------------------------------------------------------------------
(* A request                                                               *)

otherVars == <<cfg, alive, old, fini, storing, disk, crashes, network>>
V(r) == heap[req[r].vc]

\* Mutant: the domain's VisitCnt is used whether it is listed or not.
LookupAny(h) ==
  IF Vcnt[h] # None THEN Vcnt[h] ELSE Vcnt[cfg.domain[h]]

\* The host's own VisitCnt, or that of its domain if it is listed.  There is a
\* parent and the host has a domain: without them GetVisitCnt answers with one
\* constant, which no request changes.
Lookup(h) ==
  LET d == Vcnt[cfg.domain[h]] IN
  IF Vcnt[h] = None /\ d # None /\ userSpecified(heap[d]) THEN d ELSE Vcnt[h]

\* GetVisitCnt.
Get(r) ==
  /\ alive /\ req[r].pc = "idle" /\ req[r].n < cfg.visits[r]
  /\ \E h \in Sites :
       LET found == Lookup(h) IN
       req' = [req EXCEPT ![r] =
            [pc |-> IF found = None THEN "create" ELSE "connect",
             host |-> h, vc |-> found, kind |-> "none", n |-> @.n + 1]]
  /\ UNCHANGED <<otherVars, creates, marked, pac, overrun, Vcnt, heap, hasBlockedHost>>

\* It has released the lock in between: another request's VisitCnt for the
\* same host is replaced.  GetDirectList holds vcLock while it looks.
Create(r) ==
  /\ req[r].pc = "create" /\ pac.todo = {}
  /\ LET id == <<req[r].host, r>> IN
     /\ Vcnt' = [Vcnt EXCEPT ![req[r].host] = id]
     /\ heap' = [i \in DOMAIN heap \cup {id} |->
                   IF i = id THEN newVisitCnt(0, 0) ELSE heap[i]]
     /\ req' = [req EXCEPT ![r].pc = "connect", ![r].vc = id]
  /\ creates' = [creates EXCEPT ![req[r].host] = @ + 1]
  /\ UNCHANGED <<otherVars, marked, pac, overrun, hasBlockedHost>>

\* Only a direct connection to a site that is not always direct is taken as
\* blocked.
MayMark(r) == ~AlwaysDirect(V(r)) /\ ~AlwaysBlocked(V(r))

\* The request is served, directly or over a parent, and counted; or a direct
\* connection looks blocked and the site is marked before a parent is used; or
\* it fails and nothing is counted.
Connect(r) ==
  /\ req[r].pc = "connect"
  /\ \E b \in AsBlocked(V(r)) :
       req' = [req EXCEPT ![r] =
         [@ EXCEPT !.kind = IF b THEN "blocked" ELSE "direct", !.pc = "visit"]]
  /\ UNCHANGED <<otherVars, creates, marked, pac, overrun, Vcnt, heap, hasBlockedHost>>

ConnectBlocked(r) ==
  /\ req[r].pc = "connect"
  /\ FALSE \in AsBlocked(V(r)) /\ MayMark(r)
  /\ req' = [req EXCEPT ![r].kind = "blocked", ![r].pc = "mark"]
  /\ UNCHANGED <<otherVars, creates, marked, pac, overrun, Vcnt, heap, hasBlockedHost>>

ConnectFails(r) ==
  /\ req[r].pc = "connect"
  /\ req' = [req EXCEPT ![r] = [NoVisit EXCEPT !.n = req[r].n]]
  /\ UNCHANGED <<otherVars, creates, marked, pac, overrun, Vcnt, heap, hasBlockedHost>>

\* TempBlocked looks the host up again, in the map.
TempBlocked(r) ==
  /\ req[r].pc = "mark"
  /\ LET id == Vcnt[req[r].host] IN
     IF id = None
     THEN /\ req' = [req EXCEPT ![r].pc = "panic"]
          /\ UNCHANGED heap
     ELSE /\ heap' = [heap EXCEPT ![id].temp = TRUE]
          /\ req' = [req EXCEPT ![r].pc = "markDomain"]
  /\ UNCHANGED <<otherVars, creates, marked, pac, overrun, Vcnt, hasBlockedHost>>

MarkDomain(r) ==
  /\ req[r].pc = "markDomain"
  /\ hasBlockedHost' = hasBlockedHost \cup {cfg.domain[req[r].host]}
  /\ marked' = marked \cup {cfg.domain[req[r].host]}
  /\ req' = [req EXCEPT ![r].pc = "visit"]
  /\ UNCHANGED <<otherVars, creates, pac, overrun, Vcnt, heap>>

\* DirectVisit and BlockedVisit: the counter is tested, incremented, tested
\* again and the other one is cleared, without a lock.
Cnt(r) == IF req[r].kind = "direct" THEN V(r).direct ELSE V(r).blocked
SetCnt(r, n) ==
  heap' = [heap EXCEPT ![req[r].vc] =
    IF req[r].kind = "direct" THEN [@ EXCEPT !.direct = n]
    ELSE [@ EXCEPT !.blocked = n]]
Wrap(n) == IF n > IntMax THEN n - 2 * (IntMax + 1) ELSE n

Counts(r) == ~networkBad /\ ~userSpecified(V(r))

Visit(r) ==
  /\ req[r].pc = "visit"
  /\ req' = [req EXCEPT ![r] =
       IF ~Counts(r) THEN [NoVisit EXCEPT !.n = req[r].n]
       ELSE [@ EXCEPT !.pc = IF Cnt(r) < maxCnt THEN "inc" ELSE "clamp"]]
  /\ UNCHANGED <<otherVars, creates, marked, pac, overrun, Vcnt, heap, hasBlockedHost>>

Increment(r) ==
  /\ req[r].pc = "inc"
  /\ SetCnt(r, Wrap(Cnt(r) + 1))
  /\ overrun' = (overrun \/ Wrap(Cnt(r) + 1) = userCnt)
  /\ req' = [req EXCEPT ![r].pc = "clamp"]
  /\ UNCHANGED <<otherVars, creates, marked, pac, Vcnt, hasBlockedHost>>

\* Mutant: a counter that has overflowed is left alone.
OutOfRangeAbove(n) == n > maxCnt
OutOfRange(n) == n > maxCnt \/ n < 0

Clamp(r) ==
  /\ req[r].pc = "clamp"
  /\ IF OutOfRange(Cnt(r)) THEN SetCnt(r, maxCnt) ELSE UNCHANGED heap
  /\ req' = [req EXCEPT ![r].pc = "clear"]
  /\ UNCHANGED <<otherVars, creates, marked, pac, overrun, Vcnt, hasBlockedHost>>

ClearOther(r) ==
  /\ req[r].pc = "clear"
  /\ heap' = [heap EXCEPT ![req[r].vc] =
       IF req[r].kind = "direct" THEN [@ EXCEPT !.blocked = 0]
       ELSE [@ EXCEPT !.direct = 0]]
  /\ req' = [req EXCEPT ![r] = [NoVisit EXCEPT !.n = req[r].n]]
  /\ UNCHANGED <<otherVars, creates, marked, pac, overrun, Vcnt, hasBlockedHost>>

\* Two minutes after the last TempBlocked.
BlockExpires ==
  /\ alive
  /\ \E id \in DOMAIN heap :
       heap[id].temp /\ heap' = [heap EXCEPT ![id].temp = FALSE]
  /\ UNCHANGED <<otherVars, visitVars, Vcnt, hasBlockedHost>>

\* Does GetDirectList put the site into the list?
Listable(s) ==
  cfg.domain[s] \notin hasBlockedHost /\ AsDirect(heap[Vcnt[s]])

\* updateDirectList.  The list is made site by site, in any order, with vcLock
\* held but not hbhLock: TempBlocked goes on meanwhile.
UpdateDirectList ==
  /\ alive /\ cfg.pac /\ pac.todo = {}
  /\ pac' = [todo |-> {s \in Sites : Vcnt[s] # None}, sites |-> {}, marked |-> marked]
  /\ UNCHANGED <<otherVars, req, creates, marked, overrun, Vcnt, heap, hasBlockedHost>>

GetDirectList ==
  /\ \E s \in pac.todo :
       pac' = [pac EXCEPT !.todo = @ \ {s},
                          !.sites = IF Listable(s) THEN @ \cup {s} ELSE @]
  /\ UNCHANGED <<otherVars, req, creates, marked, overrun, Vcnt, heap, hasBlockedHost>>

UpdatePAC == UpdateDirectList \/ GetDirectList

-----------------------------------------------------------------------------
(* Saving                                                                  *)

\* Of what is not updated for a long time nothing is dropped, the listed sites
\* included.
Saved(late) ==
  LET keep == {s \in Sites : /\ Vcnt[s] # None
                             /\ late \/ ~shouldNotSave(heap[Vcnt[s]])}
  IN [s \in keep |-> [heap[Vcnt[s]] EXCEPT !.temp = FALSE]]

saveVars == <<cfg, alive, visitVars, Vcnt, heap, hasBlockedHost, crashes,
              network>>

MayStore == ~fini

\* storeSiteStat, called every five minutes and at exit; storeLock is held
\* until store returns.  Update is left as it was until it is ten days old, and
\* then brought forward, perhaps not far enough.
StoreBegin(kind) ==
  /\ alive /\ storing.pc = "none" /\ MayStore /\ versions < cfg.stores
  /\ versions' = versions + 1
  /\ \E late \in {old, TRUE} :
       /\ storing' = [pc |-> "tmp", kind |-> kind,
                      file |-> [version |-> versions + 1, content |-> Saved(late)]]
       /\ old' \in {FALSE, late}
  /\ UNCHANGED <<saveVars, fini, stat, bak, saved, bare, loaded>>

\* The temporary file is written, or cannot be.
StoreTmp ==
  /\ storing.pc = "tmp"
  /\ storing' = [storing EXCEPT !.pc = "remove"]
  /\ UNCHANGED <<saveVars, old, fini, disk>>

StoreTmpFails ==
  /\ storing.pc = "tmp"
  /\ storing' = [NoStore EXCEPT !.pc = "end", !.kind = storing.kind]
  /\ UNCHANGED <<saveVars, old, fini, disk>>

\* The errors of the removal and of the first renaming are not looked at.
StoreRemoveBak ==
  /\ storing.pc = "remove"
  /\ bak' \in {NoFile, bak}
  /\ bare' = (stat = NoFile)
  /\ storing' = [storing EXCEPT !.pc = "bak"]
  /\ UNCHANGED <<saveVars, old, fini, stat, saved, loaded, versions>>

\* Mutant: the file is removed, not renamed.
StoreRenameBakNot ==
  /\ storing.pc = "bak"
  /\ stat' = NoFile
  /\ storing' = [storing EXCEPT !.pc = "stat"]
  /\ UNCHANGED <<saveVars, old, fini, bak, saved, bare, loaded, versions>>

\* Nothing is renamed if there is no file.
StoreRenameBak ==
  /\ storing.pc = "bak"
  /\ \/ stat # NoFile /\ bak' = stat /\ stat' = NoFile
     \/ UNCHANGED <<stat, bak>>
  /\ storing' = [storing EXCEPT !.pc = "stat"]
  /\ UNCHANGED <<saveVars, old, fini, saved, bare, loaded, versions>>

StoreRename ==
  /\ storing.pc = "stat"
  /\ stat' = storing.file /\ saved' = storing.file.version /\ bare' = FALSE
  /\ storing' = [NoStore EXCEPT !.pc = "end", !.kind = storing.kind]
  /\ UNCHANGED <<saveVars, old, fini, bak, loaded, versions>>

\* The temporary file does not become the file, which is now missing or old.
StoreRenameFails ==
  /\ storing.pc = "stat"
  /\ storing' = [NoStore EXCEPT !.pc = "end", !.kind = storing.kind]
  /\ UNCHANGED <<saveVars, old, fini, disk>>

StoreEnd ==
  /\ storing.pc = "end"
  /\ fini' = (fini \/ storing.kind = "exit")
  /\ storing' = NoStore
  /\ UNCHANGED <<saveVars, old, disk>>

\* The process ends: after its last save, or at any moment.
Stop ==
  /\ alive /\ crashes > 0
  /\ alive' = FALSE /\ crashes' = crashes - 1
  /\ storing' = NoStore
  /\ req' = [r \in Requests |-> [NoVisit EXCEPT !.n = req[r].n]]
  /\ marked' = {} /\ pac' = NoList
  /\ creates' = [s \in Sites |-> 0]
  /\ UNCHANGED <<cfg, overrun, memory, disk, network>>

\* What the next process will find.
Loadable == IF stat # NoFile THEN stat ELSE bak

\* initSiteStat: the file, else the backup, else nothing but the lists.
Restart ==
  /\ ~alive /\ alive' = TRUE
  /\ fini' = FALSE
  /\ \E stale \in BOOLEAN :
       LoadInto(Loadable, stale)
  /\ dialTimeout' = 1 /\ readTimeout' = 1 /\ estimate' = "dial"
  /\ UNCHANGED <<cfg, visitVars, storing, stat, bak, saved, bare, versions,
                 crashes, troubles>>

-----------------------------------------------------------------------------
(* estimateTimeout, once a minute                                          *)

estVars == <<cfg, alive, visitVars, memory, storing, disk, crashes>>

\* A slow answer raises the timeout, a fast one restores the configured one.
\* Mutant: it is only ever raised.
AdjustedUp(timeout, slow) == IF slow THEN 2 ELSE timeout
Adjusted(timeout, slow) == IF slow THEN 2 ELSE 1

EstimateDial ==
  /\ alive /\ estimate = "dial"
  /\ \E slow \in BOOLEAN :
       /\ slow => troubles > 0
       /\ dialTimeout' = Adjusted(dialTimeout, slow)
       /\ troubles' = troubles - (IF slow THEN 1 ELSE 0)
  /\ estimate' = "read"
  /\ UNCHANGED <<estVars, readTimeout>>

EstimateRead ==
  /\ alive /\ estimate = "read"
  /\ \E slow \in BOOLEAN :
       /\ slow => troubles > 0
       /\ readTimeout' = Adjusted(readTimeout, slow)
       /\ troubles' = troubles - (IF slow THEN 1 ELSE 0)
  /\ estimate' = "dial"
  /\ UNCHANGED <<estVars, dialTimeout>>

\* An error in either part raises both.
EstimateFails ==
  /\ alive /\ troubles > 0 /\ troubles' = troubles - 1
  /\ dialTimeout' = dialTimeout + 2 /\ readTimeout' = readTimeout + 2
  /\ estimate' = "dial"
  /\ UNCHANGED estVars

Estimate == EstimateDial \/ EstimateRead \/ EstimateFails

-----------------------------------------------------------------------------
Request(r) ==
  \/ Get(r) \/ Create(r) \/ Connect(r) \/ ConnectBlocked(r) \/ ConnectFails(r)
  \/ TempBlocked(r) \/ MarkDomain(r)
  \/ Visit(r) \/ Increment(r) \/ Clamp(r) \/ ClearOther(r)

Store ==
  \/ \E kind \in {"cont", "exit"} : StoreBegin(kind)
  \/ StoreTmp \/ StoreTmpFails
  \/ StoreRemoveBak \/ StoreRenameBak
  \/ StoreRename \/ StoreRenameFails \/ StoreEnd

Next ==
  \/ \E r \in Requests : Request(r)
  \/ BlockExpires \/ UpdatePAC \/ Store \/ Stop \/ Restart \/ Estimate

Spec == Init /\ [][Next]_vars

\* The loops of estimateTimeout and the process's starts go on.
FairSpec == Spec /\ WF_vars(EstimateDial \/ EstimateRead) /\ WF_vars(Restart)

-----------------------------------------------------------------------------
(* Properties                                                              *)

RequestSteps == {"idle", "create", "connect", "mark", "markDomain", "visit",
                 "inc", "clamp", "clear", "panic"}
Counters == -(IntMax + 1) .. IntMax

TypeOK ==
  /\ cfg \in Settings /\ {alive, old, fini, bare, overrun} \subseteq BOOLEAN
  /\ Vcnt \in [Sites -> IDs \cup {None}]
  /\ \A id \in DOMAIN heap :
       heap[id] \in [direct : Counters, blocked : Counters, temp : BOOLEAN]
  /\ \A s \in Sites : Vcnt[s] # None => Vcnt[s] \in DOMAIN heap
  /\ hasBlockedHost \subseteq Sites /\ marked \subseteq Sites
  /\ \A r \in Requests : /\ req[r].pc \in RequestSteps
                         /\ req[r].vc \in IDs \cup {None}
  /\ storing.pc \in {"none", "tmp", "remove", "bak", "stat", "end"}
  /\ {saved, loaded, versions} \subseteq 0 .. cfg.stores
  /\ troubles \in 0 .. cfg.troubles /\ crashes \in 0 .. cfg.crashes

\* Requests are counting on a VisitCnt, and have yet to look at the sum.
Counting(id) == \E r \in Requests :
  req[r].vc = id /\ req[r].pc \in {"inc", "clamp", "clear"}
Unclamped(id) == \E r \in Requests : req[r].vc = id /\ req[r].pc \in {"inc", "clamp"}

\* "possible for *inc to overflow and become negative": whatever the races,
\* the counters are in range once no visit is being counted, and the mark of a
\* site that the user lists, userCnt, neither appears nor disappears.  A record
\* that was saved while a visit was counted on it may be out of range in the
\* next process, until a visit has been counted there.
CountersRecover ==
  alive =>
    \A id \in DOMAIN heap :
      IF id[1] \in Listed /\ id[2] = "load"
      THEN heap[id].direct = FromList(id[1]).direct
           /\ heap[id].blocked = FromList(id[1]).blocked
      ELSE /\ id[2] # "load" /\ ~Counting(id) =>
                heap[id].direct \in 0 .. maxCnt /\ heap[id].blocked \in 0 .. maxCnt
           /\ \A r \in Requests :
                req[r].vc = id /\ req[r].pc = "clear" /\ ~Unclamped(id) =>
                  Cnt(r) \in 0 .. maxCnt

\* A mark is seen by those who ask afterwards.  "TempBlocked should always get
\* existing visitCnt": it finds one, and the one it marks, looked up by host, is
\* the one that the request itself goes on using and that later requests get,
\* though GetVisitCnt may return the domain's.  (Except after a second create,
\* of a request that had looked before the first one: it replaces a VisitCnt
\* that is in use; and except when so many visits were counted at once that a
\* counter ran round to userCnt, and a domain looked listed that is not.)
\* "Mistakenly consider a partial blocked domain as direct will make that
\* domain into PAC": a list that was begun after TempBlocked had returned names
\* no host of that domain, whatever is marked while it is made.
MarksSeen ==
  /\ ~overrun =>
       \A r \in Requests :
         /\ req[r].pc # "panic"
         /\ req[r].pc \in {"mark", "markDomain"} /\ creates[req[r].host] <= 1 =>
              Vcnt[req[r].host] = req[r].vc
  /\ \A s \in pac.sites : cfg.domain[s] \notin pac.marked

\* "Store stat into temp file first and then rename": at whatever moment the
\* process ends, and whatever step of a save fails, what the next process loads
\* is the last complete save, from the file or from its backup.  (Except when a
\* save begins while there is only the backup, because an earlier one ended
\* between the two renamings or its last one failed: it removes the backup
\* first, and until a save is complete there is nothing to load.)
\* "siteStatFini ensures no more calls after going to exit": what the exiting
\* process saved last stays.
SavedSurvives ==
  [][/\ ~alive /\ alive' /\ ~bare => loaded' = saved
     /\ fini /\ alive' => stat' = stat /\ bak' = bak]_vars

\* When the network works again, visits are counted again: the timeouts come
\* back to the configured values from whatever they were raised to.
NetworkRecovers == <>[](~networkBad)
=============================================================================
