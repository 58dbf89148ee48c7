--------------------------- MODULE SiteStatProofs ---------------------------
(***************************************************************************)
(* Proofs about SiteStat: what was saved survives the end of the process   *)
(* and the failures of a save, the counters recover from the races of the  *)
(* visits that are counted on them, and a mark is seen by those who ask    *)
(* afterwards.                                                             *)
(***************************************************************************)
EXTENDS SiteStat, TLAPS

Kinds == {"direct", "blocked"}
VisitCnts == [direct : Counters, blocked : Counters, temp : BOOLEAN]
Visits == [pc : RequestSteps, host : Sites \cup {"none"}, vc : IDs \cup {None},
           kind : Kinds \cup {"none"}, n : Nat]

IsFile(f) ==
  /\ f.version \in 0 .. cfg.stores
  /\ DOMAIN f.content \subseteq Sites
  /\ \A s \in DOMAIN f.content : f.content[s] \in VisitCnts

\* The parts of the type invariant, with all that the proofs need of the types.
TypeFlags ==
  /\ cfg \in Settings /\ alive \in BOOLEAN /\ old \in BOOLEAN /\ fini \in BOOLEAN
  /\ bare \in BOOLEAN /\ overrun \in BOOLEAN
  /\ troubles \in 0 .. cfg.troubles /\ crashes \in 0 .. cfg.crashes

TypeMap ==
  /\ Vcnt \in [Sites -> IDs \cup {None}]
  /\ \A s \in Sites : Vcnt[s] # None => Vcnt[s] \in DOMAIN heap /\ Vcnt[s][1] = s
  /\ hasBlockedHost \subseteq Sites /\ marked \subseteq Sites
  /\ creates \in [Sites -> Nat]

TypeHeap == DOMAIN heap \subseteq IDs /\ heap \in [DOMAIN heap -> VisitCnts]

TypeReq ==
  /\ req \in [Requests -> Visits]
  /\ \A r \in Requests :
       /\ req[r].pc \notin {"idle", "panic"} => req[r].host \in Sites
       /\ req[r].pc \notin {"idle", "panic", "create"} => req[r].vc \in DOMAIN heap
       /\ req[r].pc \notin {"idle", "panic", "create", "connect"} => req[r].kind \in Kinds
       /\ ~alive => req[r].pc = "idle"

TypeDisk ==
  /\ storing = [pc |-> storing.pc, kind |-> storing.kind, file |-> storing.file]
  /\ storing.pc \in {"none", "tmp", "remove", "bak", "stat", "end"}
  /\ IsFile(storing.file) /\ IsFile(stat) /\ IsFile(bak)
  /\ saved \in 0 .. cfg.stores /\ loaded \in 0 .. cfg.stores
  /\ versions \in 0 .. cfg.stores

Types == TypeFlags /\ TypeMap /\ TypeHeap /\ TypeReq /\ TypeDisk

\* The file is the last complete save, and the next process will find that,
\* unless a save has begun without a file; what a save writes is a file.
DiskInv ==
  /\ stat # NoFile => stat.version = saved
  /\ ~bare => Loadable.version = saved
  /\ storing.pc \in {"tmp", "remove", "bak", "stat"} => storing.file.version # 0
  /\ fini \/ ~alive => storing.pc = "none"

IsListed(id) == id[1] \in Listed /\ id[2] = "load"
CountOf(v, k) == IF k = "direct" THEN v.direct ELSE v.blocked
At(r, p, k, id) == req[r].pc = p /\ req[r].kind = k /\ req[r].vc = id

\* The mark of a listed site is there, and no visit is counted on it.
ListInv ==
  /\ \A id \in DOMAIN heap : IsListed(id) =>
       \A k \in Kinds : CountOf(heap[id], k) = CountOf(FromList(id[1]), k)
  /\ \A r \in Requests :
       req[r].pc \in {"inc", "clamp", "clear"} => ~IsListed(req[r].vc)

\* A counter is in range, or a request has yet to put it there.
Settled(k, id) ==
  \/ CountOf(heap[id], k) \in 0 .. maxCnt
  \/ \E r \in Requests : At(r, "clamp", k, id)

CountInv ==
  /\ alive => \A id \in DOMAIN heap : id[2] # "load" => \A k \in Kinds : Settled(k, id)
  /\ \A r \in Requests :
       req[r].pc = "clear" => Settled(req[r].kind, req[r].vc)

SiteStatInv == Types /\ DiskInv /\ ListInv /\ CountInv

\* While no count has run round to the user's mark, none but the record of a
\* listed site looks like one, in memory or in a file.
Plain(v) == \A k \in Kinds : CountOf(v, k) # userCnt
FilePlain(f) == \A s \in DOMAIN f.content \ Listed : Plain(f.content[s])
PlainInv ==
  ~overrun =>
    /\ \A id \in DOMAIN heap : ~IsListed(id) => Plain(heap[id])
    /\ FilePlain(storing.file) /\ FilePlain(stat) /\ FilePlain(bak)

\* A request uses the VisitCnt of its host, that of a listed domain, or one
\* that a second create has replaced.
Uses(r) ==
  \/ req[r].pc = "connect" /\ IsListed(req[r].vc)
  \/ /\ Vcnt[req[r].host] # None
     /\ Vcnt[req[r].host] = req[r].vc \/ creates[req[r].host] >= 2
Made(s) == Vcnt[s] # None /\ Vcnt[s][2] # "load"
ListOK ==
  /\ pac = [todo |-> pac.todo, sites |-> pac.sites, marked |-> pac.marked]
  /\ pac.marked \subseteq marked /\ marked \subseteq hasBlockedHost
  /\ \A s \in pac.sites : cfg.domain[s] \notin pac.marked
  /\ ~alive => marked = {}
SeenInv ==
  /\ ListOK
  /\ alive => \A s \in Sites : Made(s) => creates[s] >= 1
  /\ ~overrun =>
       \A r \in Requests :
         /\ req[r].pc # "panic"
         /\ req[r].pc = "create" => Vcnt[req[r].host] = None \/ Made(req[r].host)
         /\ req[r].pc \in {"connect", "mark", "markDomain"} => Uses(r)

-----------------------------------------------------------------------------
(* The types                                                               *)

\* The type invariant in terms of its parts.
LEMMA TypeParts == Types => TypeOK
<1> SUFFICES ASSUME Types PROVE TypeOK
  OBVIOUS
<1> USE DEF Types, TypeFlags, TypeMap, TypeHeap, TypeReq, TypeDisk
<1>1. {alive, old, fini, bare, overrun} \subseteq BOOLEAN
  OBVIOUS
<1>2. \A id \in DOMAIN heap :
        heap[id] \in [direct : Counters, blocked : Counters, temp : BOOLEAN]
  BY DEF VisitCnts
<1>3. \A r \in Requests : req[r].pc \in RequestSteps /\ req[r].vc \in IDs \cup {None}
  BY DEF Visits
<1>4. {saved, loaded, versions} \subseteq 0 .. cfg.stores
  OBVIOUS
<1> QED BY <1>1, <1>2, <1>3, <1>4 DEF TypeOK

\* The setting is chosen once, and what is made of it stays.
LEMMA SettingStays ==
  ASSUME [Next]_vars
  PROVE  cfg' = cfg
BY DEF Next, vars, Request, Store, Estimate, Get, Create, Connect, ConnectBlocked,
  ConnectFails, TempBlocked, MarkDomain, Visit, Increment, Clamp, ClearOther,
  BlockExpires, UpdatePAC, UpdateDirectList, GetDirectList, StoreBegin, StoreTmp, StoreTmpFails,
  StoreRemoveBak, StoreRenameBak, StoreRename, StoreRenameFails, StoreEnd, Stop, Restart, EstimateDial, EstimateRead,
  EstimateFails, otherVars, saveVars, estVars

\* The setting never changes, nor what is defined from it.
LEMMA SettingFixed ==
  ASSUME [Next]_vars
  PROVE  /\ cfg' = cfg /\ Sites' = Sites /\ Listed' = Listed /\ IDs' = IDs /\ Visits' = Visits
         /\ \A f : IsFile(f)' = IsFile(f)
         /\ \A id : IsListed(id)' = IsListed(id)
<1>1. cfg' = cfg
  BY SettingStays
<1>2. Sites' = Sites /\ Listed' = Listed
  BY <1>1 DEF Sites, Listed
<1>3. IDs' = IDs
  BY <1>2 DEF IDs
<1>4. Visits' = Visits
  BY <1>2, <1>3 DEF Visits
<1>5. \A f : IsFile(f)' = IsFile(f)
  BY <1>1, <1>2 DEF IsFile
<1>6. \A id : IsListed(id)' = IsListed(id)
  BY <1>2 DEF IsListed
<1> QED BY <1>1, <1>2, <1>3, <1>4, <1>5, <1>6

\* What the constants of a setting are.
LEMMA SettingTypes ==
  ASSUME cfg \in Settings
  PROVE  /\ cfg.domain \in [Sites -> Sites]
         /\ Listed \subseteq Sites /\ cfg.direct \cap cfg.blocked = {}
         /\ cfg.visits \in [Requests -> Nat]
         /\ cfg.stores \in Nat /\ cfg.crashes \in Nat /\ cfg.troubles \in Nat
<1>1. /\ cfg.domain \in [DOMAIN cfg.domain -> DOMAIN cfg.domain]
      /\ cfg.direct \cup cfg.blocked \subseteq DOMAIN cfg.domain
      /\ cfg.direct \cap cfg.blocked = {}
      /\ cfg.visits \in [Requests -> Nat]
      /\ {cfg.stores, cfg.crashes, cfg.troubles} \subseteq Nat
  BY SiteStatAssumption
<1> QED BY <1>1 DEF Sites, Listed

\* What SiteStatAssumption says of the limits, and that a count wraps within
\* its type.
LEMMA CounterFacts ==
  /\ maxCnt \in Nat /\ IntMax \in Nat /\ 0 < maxCnt /\ maxCnt <= IntMax
  /\ 0 \in Counters /\ -1 \in Counters /\ maxCnt \in Counters
  /\ \A n \in Counters : n \in Int /\ Wrap(n + 1) \in Counters
<1>1. maxCnt \in Nat /\ IntMax \in Nat /\ 0 < maxCnt /\ maxCnt <= IntMax
  BY SiteStatAssumption
<1>2. 0 \in Counters /\ -1 \in Counters /\ maxCnt \in Counters
  BY <1>1 DEF Counters
<1>3. ASSUME NEW n \in Counters PROVE n \in Int /\ Wrap(n + 1) \in Counters
  BY <1>1 DEF Counters, Wrap
<1> QED BY <1>1, <1>2, <1>3

\* The record that a list gives a site has the type of a VisitCnt.
LEMMA ListTypes ==
  ASSUME NEW s
  PROVE  FromList(s) \in VisitCnts
BY CounterFacts DEF FromList, newVisitCnt, userCnt, VisitCnts

\* A record that is made or found with a name is none of the placeholders.
LEMMA NamesAreNotNone ==
  ASSUME NEW s, NEW w \in Requests \cup {"load"}
  PROVE  <<s, w>> # None /\ <<s, w>>[1] = s /\ <<s, w>>[2] = w
BY SiteStatAssumption DEF None

\* Every step keeps the types of the flags.
LEMMA FlagsStep ==
  ASSUME Types, [Next]_vars
  PROVE  TypeFlags'
<1> USE SettingStays DEF Types, TypeFlags
<1>1. cfg.crashes \in Nat /\ cfg.troubles \in Nat
  BY SettingTypes
<1>2. ASSUME NEW r \in Requests, Request(r) PROVE TypeFlags'
  BY <1>2 DEF Request, Get, Create, Connect, ConnectBlocked, ConnectFails, TempBlocked,
    MarkDomain, Visit, Increment, Clamp, ClearOther, otherVars, network, disk
<1>3. CASE BlockExpires \/ UpdatePAC
  BY <1>3 DEF BlockExpires, UpdatePAC, UpdateDirectList, GetDirectList, otherVars, visitVars,
    network, disk
<1>4. ASSUME NEW kind \in {"cont", "exit"}, StoreBegin(kind) PROVE TypeFlags'
  BY <1>4 DEF StoreBegin, saveVars, visitVars, network
<1>5. CASE StoreTmp \/ StoreTmpFails \/ StoreRemoveBak \/ StoreRenameBak \/ StoreRename
             \/ StoreRenameFails
  BY <1>5 DEF StoreTmp, StoreTmpFails, StoreRemoveBak, StoreRenameBak, StoreRename,
    StoreRenameFails, saveVars, visitVars, network, disk
<1>6. CASE StoreEnd
  BY <1>6 DEF StoreEnd, saveVars, visitVars, network, disk
<1>7. CASE Stop
  <2>1. crashes' = crashes - 1 /\ crashes > 0 /\ crashes \in 0 .. cfg.crashes
    BY <1>7 DEF Stop
  <2>2. crashes' \in 0 .. cfg.crashes
    BY <1>1, <2>1
  <2>3. alive' = FALSE /\ UNCHANGED <<cfg, old, fini, bare, overrun, troubles>>
    BY <1>7 DEF Stop, memory, network, disk
  <2> QED BY <2>2, <2>3
<1>8. CASE Restart
  BY <1>8 DEF Restart, LoadInto, visitVars
<1>9. CASE Estimate
  BY <1>1, <1>9 DEF Estimate, EstimateDial, EstimateRead, EstimateFails, estVars, visitVars,
    memory, disk
<1>10. CASE UNCHANGED vars
  BY <1>10 DEF vars, visitVars, memory, network, disk
<1> QED BY <1>2, <1>3, <1>4, <1>5, <1>6, <1>7, <1>8, <1>9, <1>10 DEF Next, Store

\* What is loaded: the lists as they are, and else what the file says.
LEMMA LoadFacts ==
  ASSUME cfg \in Settings, NEW file, IsFile(file), NEW stale \in BOOLEAN
  PROVE  /\ DOMAIN Load(file, stale) \subseteq Sites
         /\ \A s \in DOMAIN Load(file, stale) :
              /\ Load(file, stale)[s] \in VisitCnts
              /\ s \in Listed => Load(file, stale)[s] = FromList(s)
              /\ s \notin Listed => /\ s \in DOMAIN file.content
                                    /\ Load(file, stale)[s] = file.content[s]
<1> DEFINE kept == {s \in DOMAIN file.content : ~stale \/ userSpecified(file.content[s])}
           all == kept \cup Listed
           rec == [s \in all |-> IF s \in Listed THEN FromList(s) ELSE file.content[s]]
           dropped == {s \in all : /\ ~userSpecified(rec[s])
                                   /\ cfg.domain[s] # s /\ cfg.domain[s] \in all
                                   /\ userSpecified(rec[cfg.domain[s]])}
<1>1. Load(file, stale) = [s \in all \ dropped |-> rec[s]]
  BY DEF Load
<1>2. /\ all \subseteq Sites
      /\ \A s \in all : /\ s \in Listed => rec[s] = FromList(s)
                        /\ s \notin Listed => /\ s \in DOMAIN file.content
                                              /\ rec[s] = file.content[s]
  BY SettingTypes DEF IsFile
<1>3. \A s \in all : rec[s] \in VisitCnts
  BY <1>2, ListTypes DEF IsFile
<1> HIDE DEF kept, all, rec, dropped
<1> QED BY <1>1, <1>2, <1>3

\* A restart loads the file or its backup.
LEMMA RestartFacts ==
  ASSUME Types, Restart
  PROVE  \E file : \E stale \in BOOLEAN :
           /\ IsFile(file) /\ file = Loadable
           /\ LoadInto(file, stale)
<1>1. PICK stale \in BOOLEAN : LoadInto(Loadable, stale)
  BY DEF Restart
<1>2. PICK file : file = Loadable
  OBVIOUS
<1>3. IsFile(file)
  BY <1>2 DEF Loadable, Types, TypeDisk
<1>4. LoadInto(file, stale)
  BY <1>1, <1>2
<1> QED BY <1>2, <1>3, <1>4

\* The records in memory after a restart are the loaded ones.
LEMMA RestartHeap ==
  ASSUME Types, Restart
  PROVE  \E file :
           /\ file = stat \/ file = bak
           /\ DOMAIN heap' \subseteq IDs
           /\ heap' \in [DOMAIN heap' -> VisitCnts]
           /\ \A id \in DOMAIN heap' :
                /\ id[2] = "load"
                /\ id[1] \in Listed => heap'[id] = FromList(id[1])
                /\ id[1] \notin Listed => /\ id[1] \in DOMAIN file.content
                                          /\ heap'[id] = file.content[id[1]]
<1>1. PICK file : \E stale \in BOOLEAN :
           /\ IsFile(file) /\ file = Loadable
           /\ LoadInto(file, stale)
  BY RestartFacts
<1>2. PICK stale \in BOOLEAN : LoadInto(file, stale)
  BY <1>1
<1> DEFINE rec == Load(file, stale)
<1>3. /\ DOMAIN rec \subseteq Sites
      /\ \A s \in DOMAIN rec :
           /\ rec[s] \in VisitCnts
           /\ s \in Listed => rec[s] = FromList(s)
           /\ s \notin Listed => s \in DOMAIN file.content /\ rec[s] = file.content[s]
  BY <1>1, <1>2, LoadFacts DEF Types, TypeFlags
<1>4. heap' = [id \in {<<s, "load">> : s \in DOMAIN rec} |-> rec[id[1]]]
  BY <1>2 DEF LoadInto
<1> HIDE DEF rec
<1>5. \A id \in DOMAIN heap' : id \in IDs /\ id[2] = "load" /\ id[1] \in DOMAIN rec
                               /\ heap'[id] = rec[id[1]]
  BY <1>3, <1>4 DEF IDs
<1>6. heap' = [id \in DOMAIN heap' |-> heap'[id]]
  BY <1>4
<1>7. heap' \in [DOMAIN heap' -> VisitCnts]
  BY <1>3, <1>5, <1>6
<1>8. file = stat \/ file = bak
  BY <1>1 DEF Loadable
<1> QED BY <1>3, <1>5, <1>7, <1>8

\* What each group of actions leaves alone.
LEMMA RequestLeaves ==
  ASSUME NEW r \in Requests, Request(r)
  PROVE  UNCHANGED <<cfg, alive, old, fini, storing, stat, bak, saved, bare, loaded, versions,
                     crashes, pac>>
BY DEF Request, Get, Create, Connect, ConnectBlocked, ConnectFails, TempBlocked,
    MarkDomain, Visit, Increment, Clamp, ClearOther, otherVars, disk

\* Lookups, connecting and the look at a counter leave map, records and marks
\* alone.
LEMMA QuietLeaves ==
  ASSUME NEW r \in Requests,
         Get(r) \/ Connect(r) \/ ConnectBlocked(r) \/ ConnectFails(r) \/ Visit(r)
  PROVE  UNCHANGED <<creates, marked, overrun, Vcnt, heap, hasBlockedHost>>
BY DEF Get, Connect, ConnectBlocked, ConnectFails, Visit

\* Saving leaves everything but the disk alone.
LEMMA StoreLeaves ==
  ASSUME Store
  PROVE  UNCHANGED <<alive, req, creates, marked, pac, overrun, Vcnt, heap, hasBlockedHost,
                     crashes, loaded>>
BY DEF Store, StoreBegin, StoreTmp, StoreTmpFails, StoreRemoveBak, StoreRenameBak,
    StoreRename, StoreRenameFails, StoreEnd, saveVars, visitVars, disk

\* The network estimate leaves the statistics alone.
LEMMA EstimateLeaves ==
  ASSUME Estimate
  PROVE  UNCHANGED <<alive, req, creates, marked, pac, overrun, Vcnt, heap, hasBlockedHost, crashes,
                     fini, storing, stat, bak, saved, bare, loaded, versions>>
BY DEF Estimate, EstimateDial, EstimateRead, EstimateFails, estVars, visitVars, memory, disk

\* What a block that runs out, the PAC list, the end and the start of the
\* process leave alone.
LEMMA OtherLeaves ==
  /\ BlockExpires => UNCHANGED <<alive, req, creates, marked, pac, overrun, Vcnt, hasBlockedHost,
                                 crashes, fini, storing, stat, bak, saved, bare, loaded, versions>>
  /\ UpdatePAC => UNCHANGED <<alive, req, creates, marked, overrun, Vcnt, heap, hasBlockedHost,
                              crashes, fini, storing, stat, bak, saved, bare, loaded, versions>>
  /\ Stop => UNCHANGED <<overrun, Vcnt, heap, hasBlockedHost, fini, stat, bak, saved, bare, loaded,
                         versions>>
  /\ Restart => UNCHANGED <<req, creates, marked, pac, overrun, crashes, storing, stat, bak, saved,
                            bare, versions>>
BY DEF BlockExpires, UpdatePAC, UpdateDirectList, GetDirectList, Stop, Restart, otherVars,
  visitVars, memory, disk

\* A stuttering step leaves everything alone.
LEMMA StutterLeaves ==
  ASSUME UNCHANGED vars
  PROVE  UNCHANGED <<alive, req, creates, marked, pac, overrun, Vcnt, heap, hasBlockedHost, crashes,
                     fini, storing, stat, bak, saved, bare, loaded, versions>>
BY DEF vars, visitVars, memory, disk

\* A new VisitCnt: the others stay as they are.
LEMMA CreateFacts ==
  ASSUME Types, NEW r \in Requests, Create(r)
  PROVE  /\ req[r].host \in Sites /\ <<req[r].host, r>> \in IDs
         /\ DOMAIN heap' = DOMAIN heap \cup {<<req[r].host, r>>}
         /\ heap' = [i \in DOMAIN heap' |-> heap'[i]]
         /\ heap'[<<req[r].host, r>>] = newVisitCnt(0, 0)
         /\ \A id \in DOMAIN heap : id # <<req[r].host, r>> => heap'[id] = heap[id]
         /\ UNCHANGED <<marked, hasBlockedHost>>
<1>1. req[r].host \in Sites
  BY DEF Create, Types, TypeReq
<1>2. <<req[r].host, r>> \in IDs
  BY <1>1 DEF IDs
<1> QED BY <1>1, <1>2 DEF Create

\* A record is only ever given other contents.
SameCounts ==
  /\ DOMAIN heap' = DOMAIN heap
  /\ \A id \in DOMAIN heap : /\ heap'[id].direct = heap[id].direct
                             /\ heap'[id].blocked = heap[id].blocked

\* A mark, made or run out, changes no counter.
LEMMA MarkFacts ==
  ASSUME Types, (\E r \in Requests : TempBlocked(r)) \/ BlockExpires
  PROVE  SameCounts /\ TypeHeap'
<1> USE DEF Types, TypeHeap, TypeMap
<1>1. ASSUME NEW r \in Requests, TempBlocked(r), Vcnt[req[r].host] # None
      PROVE  SameCounts /\ TypeHeap'
  <2>1. req[r].host \in Sites
    BY <1>1 DEF TempBlocked, TypeReq
  <2>2. PICK id \in DOMAIN heap : heap' = [heap EXCEPT ![id].temp = TRUE]
    BY <1>1, <2>1 DEF TempBlocked
  <2>3. cfg' = cfg /\ IDs' = IDs
    BY <1>1 DEF TempBlocked, otherVars, IDs, Sites
  <2> QED BY <2>2, <2>3 DEF SameCounts, VisitCnts
<1>2. CASE BlockExpires
  <2>1. PICK id \in DOMAIN heap : heap' = [heap EXCEPT ![id].temp = FALSE]
    BY <1>2 DEF BlockExpires
  <2>2. cfg' = cfg /\ IDs' = IDs
    BY <1>2 DEF BlockExpires, otherVars, IDs, Sites
  <2> QED BY <2>1, <2>2 DEF SameCounts, VisitCnts
<1>3. ASSUME NEW r \in Requests, TempBlocked(r), Vcnt[req[r].host] = None
      PROVE  SameCounts /\ TypeHeap'
  BY <1>3 DEF TempBlocked, otherVars, IDs, Sites, SameCounts
<1> QED BY <1>1, <1>2, <1>3

\* Counting changes one counter of one record: the request's own, or the other
\* one when it is cleared.
Other(k) == IF k = "direct" THEN "blocked" ELSE "direct"
OnlyCount(id, k, n) ==
  /\ DOMAIN heap' = DOMAIN heap
  /\ CountOf(heap'[id], k) = n
  /\ CountOf(heap'[id], Other(k)) = CountOf(heap[id], Other(k))
  /\ \A i \in DOMAIN heap : i # id => heap'[i] = heap[i]

\* Increment, Clamp and ClearOther change one counter of one record.
LEMMA CountFacts ==
  ASSUME Types, NEW r \in Requests
  PROVE  /\ Increment(r) => OnlyCount(req[r].vc, req[r].kind, Wrap(Cnt(r) + 1)) /\ TypeHeap'
         /\ Clamp(r) => IF OutOfRange(Cnt(r))
                        THEN OnlyCount(req[r].vc, req[r].kind, maxCnt) /\ TypeHeap'
                        ELSE UNCHANGED heap /\ TypeHeap'
         /\ ClearOther(r) => OnlyCount(req[r].vc, Other(req[r].kind), 0) /\ TypeHeap'
<1> USE DEF Types, TypeHeap
<1>1. ASSUME NEW n \in Counters, SetCnt(r, n), req[r].vc \in DOMAIN heap, req[r].kind \in Kinds,
             cfg' = cfg
      PROVE  OnlyCount(req[r].vc, req[r].kind, n) /\ TypeHeap'
  <2>1. PICK id \in DOMAIN heap : id = req[r].vc
    BY <1>1
  <2>2. CASE req[r].kind = "direct"
    <3>1. heap' = [heap EXCEPT ![id] = [@ EXCEPT !.direct = n]]
      BY <1>1, <2>1, <2>2 DEF SetCnt
    <3> QED BY <1>1, <2>1, <2>2, <3>1 DEF OnlyCount, CountOf, Other, VisitCnts, IDs, Sites
  <2>3. CASE req[r].kind = "blocked"
    <3>1. heap' = [heap EXCEPT ![id] = [@ EXCEPT !.blocked = n]]
      BY <1>1, <2>1, <2>3 DEF SetCnt
    <3> QED BY <1>1, <2>1, <2>3, <3>1 DEF OnlyCount, CountOf, Other, VisitCnts, IDs, Sites
  <2> QED BY <1>1, <2>2, <2>3 DEF Kinds
<1>2. ASSUME req[r].pc \in {"inc", "clamp", "clear"}
      PROVE  req[r].vc \in DOMAIN heap /\ req[r].kind \in Kinds /\ Cnt(r) \in Counters
  BY <1>2 DEF TypeReq, Cnt, V, VisitCnts
<1>3. ASSUME Increment(r)
      PROVE  OnlyCount(req[r].vc, req[r].kind, Wrap(Cnt(r) + 1)) /\ TypeHeap'
  BY <1>1, <1>2, <1>3, CounterFacts DEF Increment, otherVars
<1>4. ASSUME Clamp(r)
      PROVE  IF OutOfRange(Cnt(r)) THEN OnlyCount(req[r].vc, req[r].kind, maxCnt) /\ TypeHeap'
             ELSE UNCHANGED heap /\ TypeHeap'
  <2>1. cfg' = cfg /\ IDs' = IDs
    BY <1>4 DEF Clamp, otherVars, IDs, Sites
  <2> QED BY <1>1, <1>2, <1>4, <2>1, CounterFacts DEF Clamp
<1>5. ASSUME ClearOther(r)
      PROVE  OnlyCount(req[r].vc, Other(req[r].kind), 0) /\ TypeHeap'
  <2>1. PICK id \in DOMAIN heap : id = req[r].vc
    BY <1>2, <1>5 DEF ClearOther
  <2>2. cfg' = cfg /\ IDs' = IDs
    BY <1>5 DEF ClearOther, otherVars, IDs, Sites
  <2>3. CASE req[r].kind = "direct"
    <3>1. heap' = [heap EXCEPT ![id] = [@ EXCEPT !.blocked = 0]]
      BY <1>5, <2>1, <2>3 DEF ClearOther
    <3> QED BY <2>1, <2>2, <2>3, <3>1, CounterFacts DEF OnlyCount, CountOf, Other, VisitCnts
  <2>4. CASE req[r].kind = "blocked"
    <3>1. heap' = [heap EXCEPT ![id] = [@ EXCEPT !.direct = 0]]
      BY <1>5, <2>1, <2>4 DEF ClearOther
    <3> QED BY <2>1, <2>2, <2>4, <3>1, CounterFacts DEF OnlyCount, CountOf, Other, VisitCnts
  <2> QED BY <1>2, <1>5, <2>3, <2>4 DEF Kinds, ClearOther
<1> QED BY <1>3, <1>4, <1>5

\* Every step keeps the types of the records, and only a restart loses one.
LEMMA HeapStep ==
  ASSUME Types, [Next]_vars
  PROVE  TypeHeap' /\ (DOMAIN heap \subseteq DOMAIN heap' \/ Restart)
<1> USE SettingFixed DEF Types
<1>1. ASSUME NEW r \in Requests, Create(r) PROVE TypeHeap' /\ DOMAIN heap \subseteq DOMAIN heap'
  <2>1. newVisitCnt(0, 0) \in VisitCnts
    BY CounterFacts DEF newVisitCnt, VisitCnts
  <2>2. \A id \in DOMAIN heap' : heap'[id] \in VisitCnts
    BY <1>1, <2>1, CreateFacts DEF TypeHeap
  <2> QED BY <1>1, <2>2, CreateFacts DEF TypeHeap
<1>2. ASSUME NEW r \in Requests, Increment(r) \/ Clamp(r) \/ ClearOther(r)
      PROVE  TypeHeap' /\ DOMAIN heap \subseteq DOMAIN heap'
  BY <1>2, CountFacts DEF OnlyCount
<1>3. CASE (\E r \in Requests : TempBlocked(r)) \/ BlockExpires
  BY <1>3, MarkFacts DEF SameCounts
<1>4. CASE UNCHANGED heap
  BY <1>4 DEF TypeHeap
<1>5. CASE Restart
  BY <1>5, RestartHeap DEF TypeHeap
<1>6. CASE Store \/ Estimate \/ UpdatePAC \/ Stop \/ UNCHANGED vars
  BY <1>4, <1>6, StoreLeaves, EstimateLeaves, OtherLeaves, StutterLeaves
<1>7. ASSUME NEW r \in Requests, MarkDomain(r) PROVE UNCHANGED heap
  BY <1>7 DEF MarkDomain
<1> QED BY <1>1, <1>2, <1>3, <1>4, <1>5, <1>6, <1>7, QuietLeaves DEF Next, Request

\* Every step keeps the types of the map.
LEMMA MapStep ==
  ASSUME Types, [Next]_vars
  PROVE  TypeMap'
<1> USE SettingFixed DEF Types, TypeMap
<1>1. cfg.domain \in [Sites -> Sites]
  BY SettingTypes DEF TypeFlags
<1>2. CASE UNCHANGED <<Vcnt, hasBlockedHost, marked, creates>> /\ ~Restart
  BY <1>2, HeapStep
<1>3. ASSUME NEW r \in Requests, Create(r) PROVE TypeMap'
  <2>1. PICK h \in Sites : h = req[r].host
    BY <1>3, CreateFacts
  <2>2. PICK id \in IDs : id = <<h, r>> /\ id # None /\ id[1] = h
    BY <1>3, <2>1, CreateFacts, NamesAreNotNone
  <2>3. Vcnt' = [Vcnt EXCEPT ![h] = id] /\ creates' = [creates EXCEPT ![h] = @ + 1]
    BY <1>3, <2>1, <2>2 DEF Create
  <2>4. id \in DOMAIN heap' /\ DOMAIN heap \subseteq DOMAIN heap'
    BY <1>3, <2>1, <2>2, CreateFacts
  <2>5. UNCHANGED <<marked, hasBlockedHost>>
    BY <1>3, CreateFacts
  <2> QED BY <2>2, <2>3, <2>4, <2>5
<1>4. ASSUME NEW r \in Requests, MarkDomain(r) PROVE TypeMap'
  <2>1. req[r].host \in Sites
    BY <1>4 DEF MarkDomain, TypeReq
  <2> QED BY <1>1, <1>4, <2>1 DEF MarkDomain
<1>5. CASE Stop
  BY <1>5 DEF Stop, memory
<1>6. CASE Restart
  <2>1. PICK file : \E stale \in BOOLEAN : IsFile(file) /\ LoadInto(file, stale)
    BY <1>6, RestartFacts
  <2>2. PICK stale \in BOOLEAN : LoadInto(file, stale)
    BY <2>1
  <2> DEFINE rec == Load(file, stale)
  <2>3. DOMAIN rec \subseteq Sites
    BY <2>1, LoadFacts DEF TypeFlags
  <2>4. /\ Vcnt' = [s \in Sites |-> IF s \in DOMAIN rec THEN <<s, "load">> ELSE None]
        /\ DOMAIN heap' = {<<s, "load">> : s \in DOMAIN rec}
        /\ hasBlockedHost' = {cfg.domain[s] : s \in {t \in DOMAIN rec : OnceBlocked(rec[t])}}
    BY <2>2 DEF LoadInto
  <2> HIDE DEF rec
  <2>5. hasBlockedHost' \subseteq Sites
    BY <1>1, <2>3, <2>4
  <2>6. Vcnt' \in [Sites -> IDs \cup {None}]
    BY <2>4 DEF IDs
  <2>7. \A s \in Sites : Vcnt'[s] # None => Vcnt'[s] \in DOMAIN heap' /\ Vcnt'[s][1] = s
    BY <2>4
  <2> QED BY <1>6, <2>5, <2>6, <2>7, OtherLeaves
<1>7. ASSUME NEW r \in Requests, TempBlocked(r) \/ Increment(r) \/ Clamp(r) \/ ClearOther(r)
      PROVE  UNCHANGED <<Vcnt, hasBlockedHost, marked, creates>>
  BY <1>7 DEF TempBlocked, Increment, Clamp, ClearOther
<1>8. CASE Store \/ Estimate \/ UpdatePAC \/ BlockExpires \/ UNCHANGED vars
  BY <1>2, <1>6, <1>8, StoreLeaves, EstimateLeaves, OtherLeaves, StutterLeaves
<1> QED BY <1>2, <1>3, <1>4, <1>5, <1>6, <1>7, <1>8, QuietLeaves DEF Next, Request

\* Every step keeps the types of the requests.
LEMMA ReqStep ==
  ASSUME Types, [Next]_vars
  PROVE  TypeReq'
<1> USE SettingFixed DEF Types
<1> DEFINE OneTyped(v, d) ==
      /\ v \in Visits
      /\ v.pc \notin {"idle", "panic"} => v.host \in Sites
      /\ v.pc \notin {"idle", "panic", "create"} => v.vc \in d
      /\ v.pc \notin {"idle", "panic", "create", "connect"} => v.kind \in Kinds
<1>1. \A r \in Requests : OneTyped(req[r], DOMAIN heap)
  BY DEF TypeReq
<1>2. ASSUME NEW r \in Requests, NEW v, req' = [req EXCEPT ![r] = v], OneTyped(v, DOMAIN heap'),
             DOMAIN heap \subseteq DOMAIN heap', alive' = alive, alive
      PROVE  TypeReq'
  <2>1. \A q \in Requests : OneTyped(req'[q], DOMAIN heap')
    BY <1>1, <1>2 DEF TypeReq
  <2> QED BY <1>2, <2>1 DEF TypeReq
<1>3. CASE UNCHANGED <<req, alive>> /\ ~Restart
  BY <1>3, HeapStep DEF TypeReq
<1>4. ASSUME NEW n \in Nat PROVE OneTyped([NoVisit EXCEPT !.n = n], DOMAIN heap')
  BY <1>4 DEF NoVisit, Visits, RequestSteps, Kinds
<1>5. ASSUME NEW r \in Requests, Request(r), ~Restart PROVE TypeReq'
  <2>1. alive /\ alive' = alive /\ DOMAIN heap \subseteq DOMAIN heap' /\ req[r].n \in Nat
    BY <1>5, HeapStep, RequestLeaves DEF TypeReq, TypeFlags, Visits, Request, Get, Create, Connect,
      ConnectBlocked, ConnectFails, TempBlocked, MarkDomain, Visit, Increment, Clamp, ClearOther
  <2>2. CASE Get(r)
    <3>1. PICK h \in Sites : LET found == Lookup(h) IN
            req' = [req EXCEPT ![r] =
              [pc |-> IF found = None THEN "create" ELSE "connect",
               host |-> h, vc |-> found, kind |-> "none", n |-> @.n + 1]]
      BY <2>2 DEF Get
    <3>2. PICK v : v = [pc |-> IF Lookup(h) = None THEN "create" ELSE "connect",
               host |-> h, vc |-> Lookup(h), kind |-> "none", n |-> req[r].n + 1]
      OBVIOUS
    <3>3. req' = [req EXCEPT ![r] = v]
      BY <3>1, <3>2 DEF TypeReq
    <3>4. Lookup(h) = None \/ Lookup(h) \in DOMAIN heap
      BY SettingTypes DEF Lookup, TypeMap, TypeFlags
    <3>5. OneTyped(v, DOMAIN heap')
      BY <2>1, <3>2, <3>4 DEF Visits, RequestSteps, TypeHeap
    <3> QED BY <1>2, <2>1, <3>3, <3>5
  <2>3. CASE Create(r)
    <3>1. PICK v : v = [req[r] EXCEPT !.pc = "connect", !.vc = <<req[r].host, r>>]
      OBVIOUS
    <3>2. req' = [req EXCEPT ![r] = v]
      BY <2>3, <3>1 DEF Create, TypeReq, Visits
    <3>3. OneTyped(v, DOMAIN heap')
      BY <2>3, <3>1, CreateFacts DEF TypeReq, Visits, RequestSteps
    <3> QED BY <1>2, <2>1, <3>2, <3>3
  <2>4. CASE Connect(r)
    <3>1. PICK k \in Kinds : req' = [req EXCEPT ![r] = [@ EXCEPT !.kind = k, !.pc = "visit"]]
      BY <2>4 DEF Connect, Kinds
    <3>2. OneTyped([req[r] EXCEPT !.kind = k, !.pc = "visit"], DOMAIN heap')
      BY <1>1, <2>1, <2>4 DEF Visits, RequestSteps, Connect
    <3> QED BY <1>2, <2>1, <3>1, <3>2 DEF TypeReq
  <2>5. CASE ConnectBlocked(r)
    <3>1. PICK v : v = [req[r] EXCEPT !.kind = "blocked", !.pc = "mark"]
      OBVIOUS
    <3>2. req' = [req EXCEPT ![r] = v]
      BY <2>5, <3>1 DEF ConnectBlocked, TypeReq, Visits
    <3>3. OneTyped(v, DOMAIN heap')
      BY <1>1, <2>1, <2>5, <3>1 DEF Visits, RequestSteps, ConnectBlocked, Kinds
    <3> QED BY <1>2, <2>1, <3>2, <3>3
  <2>6. CASE ConnectFails(r) \/ ClearOther(r) \/ (Visit(r) /\ ~Counts(r))
    <3>1. req' = [req EXCEPT ![r] = [NoVisit EXCEPT !.n = req[r].n]]
      BY <2>6 DEF ConnectFails, ClearOther, Visit
    <3> QED BY <1>2, <1>4, <2>1, <3>1
  <2>7. ASSUME NEW p \in {"panic", "markDomain", "visit", "inc", "clamp", "clear"},
               req' = [req EXCEPT ![r].pc = p],
               req[r].pc \in {"mark", "markDomain", "visit", "inc", "clamp"}
        PROVE  TypeReq'
    <3>1. PICK v : v = [req[r] EXCEPT !.pc = p]
      OBVIOUS
    <3>2. req' = [req EXCEPT ![r] = v]
      BY <2>7, <3>1 DEF TypeReq, Visits
    <3>3. OneTyped(v, DOMAIN heap')
      BY <1>1, <2>1, <2>7, <3>1 DEF Visits, RequestSteps
    <3> QED BY <1>2, <2>1, <3>2, <3>3
  <2>8. CASE TempBlocked(r) \/ MarkDomain(r) \/ Increment(r) \/ Clamp(r)
    BY <2>7, <2>8 DEF TempBlocked, MarkDomain, Increment, Clamp
  <2>9. CASE Visit(r) /\ Counts(r)
    <3>1. PICK p \in {"inc", "clamp"} : req' = [req EXCEPT ![r] = [@ EXCEPT !.pc = p]]
      BY <2>9 DEF Visit, TypeReq
    <3>2. req' = [req EXCEPT ![r].pc = p]
      BY <3>1
    <3> QED BY <2>7, <2>9, <3>2 DEF Visit
  <2> QED BY <1>5, <2>2, <2>3, <2>4, <2>5, <2>6, <2>8, <2>9 DEF Request
<1>6. CASE Stop
  <2>1. req' = [r \in Requests |-> [NoVisit EXCEPT !.n = req[r].n]]
    BY <1>6 DEF Stop
  <2>2. \A r \in Requests : req[r].n \in Nat
    BY DEF TypeReq, Visits
  <2> QED BY <1>4, <2>1, <2>2 DEF TypeReq, NoVisit
<1>7. CASE Restart
  BY <1>7, OtherLeaves DEF TypeReq, Restart
<1>8. CASE Store \/ Estimate \/ UpdatePAC \/ BlockExpires \/ UNCHANGED vars
  BY <1>3, <1>7, <1>8, StoreLeaves, EstimateLeaves, OtherLeaves, StutterLeaves
<1> QED BY <1>5, <1>6, <1>7, <1>8 DEF Next

\* What is saved: a record of the map for each site, without the block.
LEMMA SavedFacts ==
  ASSUME Types, NEW late
  PROVE  /\ DOMAIN Saved(late) \subseteq Sites
         /\ \A s \in DOMAIN Saved(late) :
              /\ Vcnt[s] # None /\ Vcnt[s] \in DOMAIN heap /\ Vcnt[s][1] = s
              /\ Saved(late)[s] \in VisitCnts
              /\ \A k \in Kinds : CountOf(Saved(late)[s], k) = CountOf(heap[Vcnt[s]], k)
<1> DEFINE keep == {s \in Sites : Vcnt[s] # None /\ (late \/ ~shouldNotSave(heap[Vcnt[s]]))}
<1>1. Saved(late) = [s \in keep |-> [heap[Vcnt[s]] EXCEPT !.temp = FALSE]]
  BY DEF Saved
<1>2. keep \subseteq Sites /\ \A s \in keep : Vcnt[s] # None
  OBVIOUS
<1> HIDE DEF keep
<1>3. \A s \in keep : Vcnt[s] \in DOMAIN heap /\ Vcnt[s][1] = s
  BY <1>2 DEF Types, TypeMap
<1>4. \A s \in keep : heap[Vcnt[s]] \in VisitCnts
  BY <1>3 DEF Types, TypeHeap
<1>5. ASSUME NEW v \in VisitCnts
      PROVE  /\ [v EXCEPT !.temp = FALSE] \in VisitCnts
             /\ \A k \in Kinds : CountOf([v EXCEPT !.temp = FALSE], k) = CountOf(v, k)
  BY DEF VisitCnts, CountOf
<1> QED BY <1>1, <1>2, <1>3, <1>4, <1>5

\* A missing file counts as a file of version 0.
LEMMA NoFileIsFile ==
  ASSUME cfg \in Settings
  PROVE  IsFile(NoFile) /\ NoFile.version = 0
BY SettingTypes DEF IsFile, NoFile

\* Every step keeps the types of the files.
LEMMA DiskTypeStep ==
  ASSUME Types, [Next]_vars
  PROVE  TypeDisk'
<1> USE SettingFixed DEF Types, TypeDisk
<1>0. cfg \in Settings /\ cfg.stores \in Nat
  BY SettingTypes DEF TypeFlags
<1>1. ASSUME NEW kind \in {"cont", "exit"}, StoreBegin(kind) PROVE TypeDisk'
  <2>1. versions + 1 \in 0 .. cfg.stores
    BY <1>0, <1>1 DEF StoreBegin
  <2>2. PICK late, file :
          /\ file = [version |-> versions + 1, content |-> Saved(late)]
          /\ storing' = [pc |-> "tmp", kind |-> kind, file |-> file]
    BY <1>1 DEF StoreBegin
  <2>3. IsFile(file)
    BY <2>1, <2>2, SavedFacts DEF IsFile
  <2>4. storing' = [pc |-> "tmp", kind |-> kind, file |-> file] /\ versions' = versions + 1
    BY <1>1, <2>2 DEF StoreBegin
  <2>5. UNCHANGED <<stat, bak, saved, loaded>>
    BY <1>1 DEF StoreBegin
  <2> QED BY <2>1, <2>3, <2>4, <2>5
<1>2. CASE StoreTmp
  BY <1>2 DEF StoreTmp, disk
<1>3. CASE StoreTmpFails \/ StoreRenameFails
  BY <1>0, <1>3, NoFileIsFile DEF StoreTmpFails, StoreRenameFails, disk, NoStore
<1>4. CASE StoreRemoveBak
  BY <1>0, <1>4, NoFileIsFile DEF StoreRemoveBak
<1>5. CASE StoreRenameBak
  BY <1>0, <1>5, NoFileIsFile DEF StoreRenameBak
<1>6. CASE StoreRename
  <2>1. storing.file.version \in 0 .. cfg.stores
    BY DEF IsFile
  <2> QED BY <1>0, <1>6, <2>1, NoFileIsFile DEF StoreRename, NoStore
<1>7. CASE StoreEnd
  BY <1>0, <1>7, NoFileIsFile DEF StoreEnd, disk, NoStore
<1>8. CASE Stop
  BY <1>0, <1>8, NoFileIsFile DEF Stop, disk, NoStore
<1>9. CASE Restart
  <2>1. PICK file : \E stale \in BOOLEAN : IsFile(file) /\ LoadInto(file, stale)
    BY <1>9, RestartFacts
  <2>2. loaded' \in 0 .. cfg.stores
    BY <2>1 DEF LoadInto, IsFile
  <2> QED BY <1>9, <2>2, OtherLeaves
<1>10. CASE UNCHANGED <<storing, stat, bak, saved, loaded, versions>>
  BY <1>10
<1>11. CASE (\E r \in Requests : Request(r)) \/ BlockExpires \/ UpdatePAC \/ Estimate \/ UNCHANGED vars
  BY <1>10, <1>11, RequestLeaves, OtherLeaves, EstimateLeaves, StutterLeaves
<1> QED BY <1>1, <1>2, <1>3, <1>4, <1>5, <1>6, <1>7, <1>8, <1>9, <1>11 DEF Next, Store

\* Every step keeps the types.
LEMMA TypesStep ==
  ASSUME Types, [Next]_vars
  PROVE  Types'
BY FlagsStep, MapStep, HeapStep, ReqStep, DiskTypeStep DEF Types

-----------------------------------------------------------------------------
(* Saving                                                                  *)

\* Every step keeps DiskInv.
LEMMA DiskStep ==
  ASSUME Types, DiskInv, [Next]_vars
  PROVE  DiskInv'
<1> USE DEF DiskInv
<1>0. NoFile.version = 0
  BY NoFileIsFile DEF Types, TypeFlags
<1>1. ASSUME NEW kind \in {"cont", "exit"}, StoreBegin(kind) PROVE DiskInv'
  <2>1. UNCHANGED <<alive, stat, bak, saved, bare>> /\ alive /\ ~fini /\ fini' = fini
    BY <1>1 DEF StoreBegin, MayStore, saveVars
  <2>2. storing'.pc = "tmp" /\ storing'.file.version = versions + 1
    BY <1>1 DEF StoreBegin
  <2>3. versions + 1 # 0
    BY SettingTypes DEF Types, TypeDisk, TypeFlags
  <2> QED BY <2>1, <2>2, <2>3 DEF Loadable
<1>2. CASE StoreTmp \/ StoreTmpFails \/ StoreRenameFails
  <2>1. /\ storing.pc \in {"tmp", "stat"} /\ storing'.pc \in {"remove", "end"}
        /\ storing'.pc = "remove" => storing'.file = storing.file
    BY <1>2 DEF StoreTmp, StoreTmpFails, StoreRenameFails, NoStore, Types, TypeDisk
  <2>2. UNCHANGED <<alive, fini, stat, bak, saved, bare>>
    BY <1>2 DEF StoreTmp, StoreTmpFails, StoreRenameFails, saveVars, disk
  <2> QED BY <2>1, <2>2 DEF Loadable
<1>3. CASE StoreRemoveBak
  <2>1. storing'.file = storing.file /\ storing'.pc = "bak" /\ storing.pc = "remove"
    BY <1>3 DEF StoreRemoveBak, Types, TypeDisk
  <2>2. UNCHANGED <<alive, fini, stat, saved>> /\ bare' = (stat = NoFile)
    BY <1>3 DEF StoreRemoveBak, saveVars
  <2>3. ~bare' => Loadable' = stat /\ stat.version = saved
    BY <2>2 DEF Loadable
  <2> QED BY <2>1, <2>2, <2>3
<1>4. CASE StoreRenameBak
  <2>1. storing'.file = storing.file /\ storing'.pc = "stat" /\ storing.pc = "bak"
    BY <1>4 DEF StoreRenameBak, Types, TypeDisk
  <2>2. UNCHANGED <<alive, fini, saved, bare>>
    BY <1>4 DEF StoreRenameBak, saveVars
  <2>3. Loadable' = Loadable /\ (stat' = stat \/ stat' = NoFile)
    BY <1>4 DEF StoreRenameBak, Loadable
  <2> QED BY <2>1, <2>2, <2>3
<1>5. CASE StoreRename
  <2>1. stat' = storing.file /\ saved' = storing.file.version /\ storing.file.version # 0
    BY <1>5 DEF StoreRename
  <2>2. Loadable' = storing.file
    BY <1>0, <2>1 DEF Loadable
  <2>3. storing'.pc = "end" /\ UNCHANGED <<alive, fini>> /\ storing.pc = "stat"
    BY <1>5 DEF StoreRename, NoStore, saveVars
  <2> QED BY <2>1, <2>2, <2>3
<1>6. CASE StoreEnd
  <2>1. storing'.pc = "none" /\ UNCHANGED <<stat, bak, saved, bare>>
    BY <1>6 DEF StoreEnd, disk, NoStore
  <2> QED BY <2>1 DEF Loadable
<1>7. CASE Stop
  <2>1. storing'.pc = "none" /\ UNCHANGED <<stat, bak, saved, bare>>
    BY <1>7 DEF Stop, disk, NoStore
  <2> QED BY <2>1 DEF Loadable
<1>8. CASE Restart
  BY <1>8, OtherLeaves DEF Restart, Loadable
<1>9. CASE UNCHANGED <<alive, fini, storing, stat, bak, saved, bare>>
  BY <1>9 DEF Loadable
<1>10. CASE (\E r \in Requests : Request(r)) \/ BlockExpires \/ UpdatePAC \/ Estimate \/ UNCHANGED vars
  BY <1>9, <1>10, RequestLeaves, OtherLeaves, EstimateLeaves, StutterLeaves
<1> QED BY <1>1, <1>2, <1>3, <1>4, <1>5, <1>6, <1>7, <1>8, <1>10 DEF Next, Store

-----------------------------------------------------------------------------
(* Counting                                                                *)

\* Where a request goes: the others stay, and it keeps what it has found.
Moves(r, p) == /\ req'[r].pc = p /\ req'[r].host = req[r].host
               /\ req'[r].vc = req[r].vc /\ req'[r].kind = req[r].kind
Returns(r) == req'[r].pc = "idle"

\* A step of one request moves no other.
LEMMA OthersStay ==
  ASSUME Types, NEW r \in Requests, Request(r)
  PROVE  \A q \in Requests : q # r => req'[q] = req[q]
BY DEF Request, Get, Create, Connect, ConnectBlocked, ConnectFails, TempBlocked, MarkDomain,
  Visit, Increment, Clamp, ClearOther, Types, TypeReq

\* Where each step of a mark or of a counted visit takes its request.
LEMMA RequestMoves ==
  ASSUME Types, NEW r \in Requests
  PROVE  /\ TempBlocked(r) => Moves(r, IF Vcnt[req[r].host] = None THEN "panic" ELSE "markDomain")
         /\ MarkDomain(r) => Moves(r, "visit")
         /\ Visit(r) => IF ~Counts(r) THEN Returns(r)
                        ELSE Moves(r, IF Cnt(r) < maxCnt THEN "inc" ELSE "clamp")
         /\ Increment(r) => Moves(r, "clamp")
         /\ Clamp(r) => Moves(r, "clear")
         /\ ClearOther(r) => Returns(r)
         /\ ConnectFails(r) => Returns(r)
<1> USE DEF Types, TypeReq
<1>1. ASSUME NEW p, req' = [req EXCEPT ![r].pc = p] PROVE Moves(r, p)
  BY <1>1 DEF Moves, Visits
<1>2. ASSUME req' = [req EXCEPT ![r] = [NoVisit EXCEPT !.n = req[r].n]] PROVE Returns(r)
  BY <1>2 DEF NoVisit, Returns
<1>3. TempBlocked(r) => Moves(r, IF Vcnt[req[r].host] = None THEN "panic" ELSE "markDomain")
  BY <1>1 DEF TempBlocked
<1>4. MarkDomain(r) => Moves(r, "visit")
  BY <1>1 DEF MarkDomain
<1>5. ASSUME Visit(r)
      PROVE  IF ~Counts(r) THEN Returns(r)
             ELSE Moves(r, IF Cnt(r) < maxCnt THEN "inc" ELSE "clamp")
  <2>1. PICK p : p = IF Cnt(r) < maxCnt THEN "inc" ELSE "clamp"
    OBVIOUS
  <2>2. CASE Counts(r)
    <3>1. req' = [req EXCEPT ![r] = [@ EXCEPT !.pc = p]]
      BY <1>5, <2>1, <2>2 DEF Visit
    <3>2. req' = [req EXCEPT ![r].pc = p]
      BY <3>1
    <3> QED BY <1>1, <2>1, <2>2, <3>2
  <2>3. CASE ~Counts(r)
    BY <1>2, <1>5, <2>3 DEF Visit
  <2> QED BY <2>2, <2>3
<1>6. Increment(r) => Moves(r, "clamp")
  BY <1>1 DEF Increment
<1>7. Clamp(r) => Moves(r, "clear")
  BY <1>1 DEF Clamp
<1>8. ClearOther(r) => Returns(r)
  BY <1>2 DEF ClearOther
<1>9. ConnectFails(r) => Returns(r)
  BY <1>2 DEF ConnectFails
<1> QED BY <1>3, <1>4, <1>5, <1>6, <1>7, <1>8, <1>9

\* Where GetVisitCnt and connecting take a request.
LEMMA RequestBegins ==
  ASSUME Types, NEW r \in Requests
  PROVE  /\ Get(r) => \E h \in Sites :
                        /\ req'[r].pc = (IF Lookup(h) = None THEN "create" ELSE "connect")
                        /\ req'[r].host = h /\ req'[r].vc = Lookup(h)
         /\ Create(r) => /\ req'[r].pc = "connect" /\ req'[r].host = req[r].host
                         /\ req'[r].vc = <<req[r].host, r>>
         /\ Connect(r) => req'[r].pc = "visit"
         /\ ConnectBlocked(r) => /\ req'[r].pc = "mark" /\ req'[r].host = req[r].host
                                 /\ req'[r].vc = req[r].vc
<1> USE DEF Types, TypeReq, Visits
<1>1. ASSUME Get(r)
      PROVE  \E h \in Sites :
               /\ req'[r].pc = (IF Lookup(h) = None THEN "create" ELSE "connect")
               /\ req'[r].host = h /\ req'[r].vc = Lookup(h)
  BY <1>1 DEF Get
<1>2. Create(r) => /\ req'[r].pc = "connect" /\ req'[r].host = req[r].host
                   /\ req'[r].vc = <<req[r].host, r>>
  BY DEF Create
<1>3. Connect(r) => req'[r].pc = "visit"
  BY DEF Connect
<1>4. ConnectBlocked(r) => /\ req'[r].pc = "mark" /\ req'[r].host = req[r].host
                           /\ req'[r].vc = req[r].vc
  BY DEF ConnectBlocked
<1> QED BY <1>1, <1>2, <1>3, <1>4

\* A user's mark stays, and is never counted on.
LEMMA ListStep ==
  ASSUME Types, ListInv, [Next]_vars
  PROVE  ListInv'
<1> USE SettingFixed DEF ListInv
<1> DEFINE Marks == \A id \in DOMAIN heap : IsListed(id) =>
             \A k \in Kinds : CountOf(heap[id], k) = CountOf(FromList(id[1]), k)
           Avoids(v) == v.pc \in {"inc", "clamp", "clear"} => ~IsListed(v.vc)
<1>0. \A s : FromList(s)' = FromList(s)
  BY DEF FromList
<1>1. Marks'
  <2> USE <1>0
  <2>1. CASE UNCHANGED heap
    BY <2>1
  <2>2. ASSUME NEW r \in Requests, Create(r) PROVE Marks'
    <3>1. ~IsListed(<<req[r].host, r>>)
      BY NamesAreNotNone, SiteStatAssumption DEF IsListed
    <3> QED BY <2>2, <3>1, CreateFacts
  <2>3. CASE (\E r \in Requests : TempBlocked(r)) \/ BlockExpires
    BY <2>3, MarkFacts DEF SameCounts, CountOf
  <2>4. ASSUME NEW r \in Requests, Increment(r) \/ Clamp(r) \/ ClearOther(r) PROVE Marks'
    <3>1. ~IsListed(req[r].vc)
      BY <2>4 DEF Increment, Clamp, ClearOther
    <3> QED BY <2>1, <2>4, <3>1, CountFacts DEF OnlyCount
  <2>5. CASE Restart
    BY <2>5, RestartHeap DEF IsListed
  <2>6. ASSUME NEW r \in Requests, MarkDomain(r) PROVE UNCHANGED heap
    BY <2>6 DEF MarkDomain
  <2>7. CASE Store \/ Estimate \/ UpdatePAC \/ Stop \/ UNCHANGED vars
    BY <2>1, <2>7, StoreLeaves, EstimateLeaves, OtherLeaves, StutterLeaves
  <2> QED BY <2>1, <2>2, <2>3, <2>4, <2>5, <2>6, <2>7, QuietLeaves DEF Next, Request
<1>2. ASSUME NEW q \in Requests PROVE Avoids(req'[q])
  <2>1. CASE UNCHANGED req
    BY <2>1
  <2>2. ASSUME NEW r \in Requests, Request(r), q # r PROVE Avoids(req'[q])
    BY <2>2, OthersStay
  <2>3. ASSUME Visit(q) PROVE Avoids(req'[q])
    <3>1. req[q].vc \in DOMAIN heap
      BY <2>3 DEF Visit, Types, TypeReq
    <3>2. Counts(q) => ~IsListed(req[q].vc)
      BY <3>1 DEF Counts, userSpecified, V, CountOf, FromList, newVisitCnt, Kinds
    <3> QED BY <2>3, <3>2, RequestMoves DEF Moves, Returns
  <2>4. ASSUME Request(q), ~Visit(q) PROVE Avoids(req'[q])
    BY <2>4, RequestMoves, RequestBegins DEF Moves, Returns, Request, Increment, Clamp
  <2>5. CASE Stop
    BY <2>5 DEF Stop, NoVisit
  <2>6. CASE Store \/ Estimate \/ UpdatePAC \/ BlockExpires \/ Restart \/ UNCHANGED vars
    BY <2>1, <2>6, StoreLeaves, EstimateLeaves, OtherLeaves, StutterLeaves
  <2> QED BY <2>2, <2>3, <2>4, <2>5, <2>6 DEF Next, Request
<1> QED BY <1>1, <1>2

\* Of one record and kind, a count changes or another's stays.
LEMMA CountStays ==
  ASSUME Types, NEW r \in Requests, NEW id \in DOMAIN heap, NEW k \in Kinds, NEW n,
         NEW j \in Kinds, OnlyCount(req[r].vc, j, n), id # req[r].vc \/ k # j
  PROVE  CountOf(heap'[id], k) = CountOf(heap[id], k)
BY DEF OnlyCount, Other, Kinds

\* A new record counts nothing.
LEMMA NewCountsNothing ==
  ASSUME NEW k
  PROVE  CountOf(newVisitCnt(0, 0), k) = 0 /\ 0 \in 0 .. maxCnt
BY CounterFacts DEF newVisitCnt, CountOf

\* Whatever is counted, a counter stays in range or somebody sees to it.
LEMMA SettledStays ==
  ASSUME Types, [Next]_vars, ~Stop, ~Restart, NEW k \in Kinds, NEW id \in DOMAIN heap,
         Settled(k, id)
  PROVE  Settled(k, id)'
<1> USE DEF Settled
<1>1. ASSUME NEW r \in Requests, Request(r), ~Clamp(r),
             CountOf(heap'[id], k) = CountOf(heap[id], k)
      PROVE  Settled(k, id)'
  <2>1. req[r].pc # "clamp"
    BY <1>1 DEF Request, Get, Create, Connect, ConnectBlocked, ConnectFails, TempBlocked,
      MarkDomain, Visit, Increment, ClearOther
  <2>2. ASSUME NEW q \in Requests, At(q, "clamp", k, id) PROVE At(q, "clamp", k, id)'
    BY <1>1, <2>1, <2>2, OthersStay DEF At
  <2> QED BY <1>1, <2>2
<1>2. ASSUME NEW r \in Requests, Create(r) PROVE Settled(k, id)'
  <2>1. CASE id = <<req[r].host, r>>
    BY <1>2, <2>1, CreateFacts, NewCountsNothing
  <2>2. CASE id # <<req[r].host, r>>
    <3>1. ~Clamp(r)
      BY <1>2 DEF Create, Clamp
    <3> QED BY <1>1, <1>2, <2>2, <3>1, CreateFacts DEF Request
  <2> QED BY <2>1, <2>2
<1>3. ASSUME NEW r \in Requests, TempBlocked(r) PROVE Settled(k, id)'
  <2>1. ~Clamp(r)
    BY <1>3 DEF TempBlocked, Clamp
  <2> QED BY <1>1, <1>3, <2>1, MarkFacts DEF SameCounts, CountOf, Request
<1>4. ASSUME NEW r \in Requests, Increment(r) PROVE Settled(k, id)'
  <2>1. ~Clamp(r)
    BY <1>4 DEF Increment, Clamp
  <2>2. req[r].kind \in Kinds
    BY <1>4 DEF Increment, Types, TypeReq
  <2>3. CASE id = req[r].vc /\ k = req[r].kind
    BY <1>4, <2>3, RequestMoves DEF Moves, At
  <2>4. CASE id # req[r].vc \/ k # req[r].kind
    <3>1. CountOf(heap'[id], k) = CountOf(heap[id], k)
      BY <1>4, <2>2, <2>4, CountFacts, CountStays
    <3> QED BY <1>1, <1>4, <2>1, <3>1 DEF Request
  <2> QED BY <2>3, <2>4
<1>5. ASSUME NEW r \in Requests, Clamp(r) PROVE Settled(k, id)'
  <2>1. req[r].kind \in Kinds /\ req[r].vc \in DOMAIN heap
    BY <1>5 DEF Clamp, Types, TypeReq
  <2>2. Cnt(r) = CountOf(heap[req[r].vc], req[r].kind) /\ Cnt(r) \in Int
    BY <2>1, CounterFacts DEF Cnt, V, CountOf, Types, TypeHeap, VisitCnts
  <2>3. CASE id = req[r].vc /\ k = req[r].kind
    <3>1. CASE OutOfRange(Cnt(r))
      <4>1. CountOf(heap'[id], k) = maxCnt
        BY <1>5, <2>3, <3>1, CountFacts DEF OnlyCount
      <4> QED BY <4>1, CounterFacts
    <3>2. CASE ~OutOfRange(Cnt(r))
      <4>1. CountOf(heap'[id], k) = Cnt(r)
        BY <1>5, <2>2, <2>3, <3>2, CountFacts
      <4>2. Cnt(r) \in 0 .. maxCnt
        BY <2>2, <3>2, CounterFacts DEF OutOfRange
      <4> QED BY <4>1, <4>2
    <3> QED BY <3>1, <3>2
  <2>4. CASE id # req[r].vc \/ k # req[r].kind
    <3>1. CountOf(heap'[id], k) = CountOf(heap[id], k)
      BY <1>5, <2>1, <2>4, CountFacts, CountStays
    <3>2. ASSUME NEW q \in Requests, At(q, "clamp", k, id) PROVE At(q, "clamp", k, id)'
      BY <1>5, <2>4, <3>2, OthersStay DEF At, Request
    <3> QED BY <3>1, <3>2
  <2> QED BY <2>3, <2>4
<1>6. ASSUME NEW r \in Requests, ClearOther(r) PROVE Settled(k, id)'
  <2>1. Other(req[r].kind) \in Kinds /\ ~Clamp(r)
    BY <1>6 DEF ClearOther, Clamp, Other, Kinds
  <2>2. CASE id = req[r].vc /\ k = Other(req[r].kind)
    <3>1. CountOf(heap'[id], k) = 0
      BY <1>6, <2>2, CountFacts DEF OnlyCount
    <3> QED BY <3>1, CounterFacts
  <2>3. CASE id # req[r].vc \/ k # Other(req[r].kind)
    <3>1. CountOf(heap'[id], k) = CountOf(heap[id], k)
      BY <1>6, <2>1, <2>3, CountFacts, CountStays
    <3> QED BY <1>1, <1>6, <2>1, <3>1 DEF Request
  <2> QED BY <2>2, <2>3
<1>7. ASSUME NEW r \in Requests, Request(r), UNCHANGED heap PROVE Settled(k, id)'
  BY <1>1, <1>5, <1>7
<1>8. ASSUME NEW r \in Requests, MarkDomain(r) PROVE UNCHANGED heap
  BY <1>8 DEF MarkDomain
<1>9. CASE BlockExpires
  BY <1>9, MarkFacts, OtherLeaves DEF SameCounts, CountOf, At
<1>10. CASE UNCHANGED <<heap, req>>
  BY <1>10 DEF At
<1>11. CASE Store \/ Estimate \/ UpdatePAC \/ UNCHANGED vars
  BY <1>10, <1>11, StoreLeaves, EstimateLeaves, OtherLeaves, StutterLeaves
<1>12. ASSUME NEW r \in Requests, Request(r) PROVE Settled(k, id)'
  BY <1>2, <1>3, <1>4, <1>5, <1>6, <1>7, <1>8, <1>12, QuietLeaves DEF Request
<1> QED BY <1>9, <1>11, <1>12 DEF Next

\* Every step keeps CountInv.
LEMMA CountStep ==
  ASSUME Types, ListInv, CountInv, [Next]_vars
  PROVE  CountInv'
<1>1. CASE Stop
  BY <1>1 DEF Stop, CountInv, NoVisit
<1>2. CASE Restart
  <2>1. \A id \in DOMAIN heap' : id[2] = "load"
    BY <1>2, RestartHeap
  <2>2. \A r \in Requests : req'[r].pc = "idle"
    BY <1>2, OtherLeaves DEF Restart, Types, TypeReq
  <2> QED BY <2>1, <2>2 DEF CountInv
<1>3. CASE ~Stop /\ ~Restart
  <2>1. ASSUME NEW r \in Requests, Create(r), NEW k \in Kinds, NEW id, id = <<req[r].host, r>>
        PROVE  Settled(k, id)'
    <3>1. CountOf(heap'[id], k) = 0
      BY <2>1, CreateFacts, NewCountsNothing
    <3> QED BY <3>1, NewCountsNothing DEF Settled
  <2>2. (\E r \in Requests : Create(r) /\ DOMAIN heap' = DOMAIN heap \cup {<<req[r].host, r>>})
          \/ DOMAIN heap' = DOMAIN heap
    <3>1. ASSUME NEW r \in Requests, Increment(r) \/ Clamp(r) \/ ClearOther(r)
          PROVE  DOMAIN heap' = DOMAIN heap
      BY <3>1, CountFacts DEF OnlyCount
    <3>2. CASE (\E r \in Requests : TempBlocked(r)) \/ BlockExpires
      BY <3>2, MarkFacts DEF SameCounts
    <3>3. ASSUME NEW r \in Requests, MarkDomain(r) PROVE UNCHANGED heap
      BY <3>3 DEF MarkDomain
    <3>4. CASE Store \/ Estimate \/ UpdatePAC \/ UNCHANGED vars
      BY <3>4, StoreLeaves, EstimateLeaves, OtherLeaves, StutterLeaves
    <3> QED BY <1>3, <3>1, <3>2, <3>3, <3>4, CreateFacts, QuietLeaves DEF Next, Request
  <2>3. alive' = alive
    BY <1>3, RequestLeaves, StoreLeaves, EstimateLeaves, OtherLeaves, StutterLeaves DEF Next
  <2>4. ASSUME alive', NEW id \in DOMAIN heap', id[2] # "load", NEW k \in Kinds
        PROVE  Settled(k, id)'
    <3>1. CASE id \in DOMAIN heap
      BY <1>3, <2>3, <2>4, <3>1, SettledStays DEF CountInv
    <3>2. CASE id \notin DOMAIN heap
      BY <2>1, <2>2, <2>4, <3>2
    <3> QED BY <3>1, <3>2
  <2>5. ASSUME NEW q \in Requests, req'[q].pc = "clear"
        PROVE  Settled(req[q].kind, req[q].vc)'
    <3>0. ASSUME req[q].kind \in Kinds, req[q].vc \in DOMAIN heap, Settled(req[q].kind, req[q].vc),
                 req'[q].kind = req[q].kind, req'[q].vc = req[q].vc
          PROVE  Settled(req[q].kind, req[q].vc)'
      <4>1. PICK k \in Kinds, id \in DOMAIN heap : k = req[q].kind /\ id = req[q].vc
        BY <3>0
      <4>2. Settled(k, id)'
        BY <1>3, <3>0, <4>1, SettledStays
      <4> QED BY <3>0, <4>1, <4>2 DEF Settled, At
    <3>1. CASE Clamp(q)
      <4>1. req[q].kind \in Kinds /\ req[q].vc \in DOMAIN heap
        BY <3>1 DEF Clamp, Types, TypeReq
      <4>2. Settled(req[q].kind, req[q].vc)
        BY <3>1 DEF Settled, At, Clamp
      <4> QED BY <3>0, <3>1, <4>1, <4>2, RequestMoves DEF Moves
    <3>2. CASE req'[q] = req[q]
      <4>1. req[q].kind \in Kinds /\ req[q].vc \in DOMAIN heap
        BY <2>5, <3>2 DEF Types, TypeReq
      <4>2. Settled(req[q].kind, req[q].vc)
        BY <2>5, <3>2 DEF CountInv
      <4> QED BY <3>0, <3>2, <4>1, <4>2
    <3>3. ASSUME Request(q), ~Clamp(q) PROVE FALSE
      BY <2>5, <3>3, RequestMoves, RequestBegins DEF Moves, Returns, Request
    <3>4. ASSUME NEW r \in Requests, Request(r), r # q PROVE req'[q] = req[q]
      BY <3>4, OthersStay
    <3>5. CASE Store \/ Estimate \/ UpdatePAC \/ BlockExpires \/ UNCHANGED vars
      BY <3>2, <3>5, StoreLeaves, EstimateLeaves, OtherLeaves, StutterLeaves
    <3> QED BY <1>3, <3>1, <3>2, <3>3, <3>4, <3>5 DEF Next
  <2> QED BY <2>4, <2>5 DEF CountInv
<1> QED BY <1>1, <1>2, <1>3

-----------------------------------------------------------------------------
(* The theorems                                                            *)

\* The process starts with the lists alone.
LEMMA SiteStatInit == Init => SiteStatInv
<1> SUFFICES ASSUME Init PROVE SiteStatInv
  OBVIOUS
<1>1. cfg \in Settings
  BY DEF Init
<1> USE <1>1, SettingTypes
<1>2. TypeFlags
  <2>1. /\ alive \in BOOLEAN /\ old \in BOOLEAN /\ fini \in BOOLEAN
        /\ bare \in BOOLEAN /\ overrun \in BOOLEAN
    BY DEF Init
  <2>2. troubles \in 0 .. cfg.troubles /\ crashes \in 0 .. cfg.crashes
    BY DEF Init
  <2> QED BY <2>1, <2>2 DEF TypeFlags
<1>3. TypeHeap
  <2>1. \A id \in DOMAIN heap : heap[id] \in VisitCnts
    BY ListTypes DEF Init
  <2>2. DOMAIN heap \subseteq IDs
    BY DEF Init, IDs
  <2>3. heap = [id \in DOMAIN heap |-> heap[id]]
    BY DEF Init
  <2> QED BY <2>1, <2>2, <2>3 DEF TypeHeap
<1>4. TypeMap
  <2>1. Vcnt \in [Sites -> IDs \cup {None}]
    BY DEF Init, IDs
  <2>2. \A s \in Sites : Vcnt[s] # None => Vcnt[s] \in DOMAIN heap /\ Vcnt[s][1] = s
    BY DEF Init
  <2>3. hasBlockedHost \subseteq Sites /\ marked \subseteq Sites /\ creates \in [Sites -> Nat]
    BY DEF Init, Listed
  <2> QED BY <2>1, <2>2, <2>3 DEF TypeMap
<1>5. TypeReq
  BY DEF Init, TypeReq, NoVisit, Visits, RequestSteps
<1>6. TypeDisk
  BY NoFileIsFile DEF Init, TypeDisk, NoStore
<1>7. DiskInv
  BY NoFileIsFile DEF Init, DiskInv, Loadable, NoStore
<1>8. ListInv
  BY DEF Init, ListInv, NoVisit
<1>9. CountInv
  BY DEF Init, CountInv, NoVisit
<1> QED BY <1>2, <1>3, <1>4, <1>5, <1>6, <1>7, <1>8, <1>9 DEF SiteStatInv, Types

\* The types, what the disk holds, and what the counters are.
THEOREM SiteStatInvHolds == Spec => [](SiteStatInv /\ TypeOK)
<1>1. SiteStatInv /\ [Next]_vars => SiteStatInv'
  BY TypesStep, DiskStep, ListStep, CountStep DEF SiteStatInv
<1>2. SiteStatInv => TypeOK
  BY TypeParts DEF SiteStatInv
<1> QED BY SiteStatInit, <1>1, <1>2, PTL DEF Spec

\* Whatever the races of the requests that count on a record without a lock,
\* its counters are in range once nobody counts, and the user's marks stay
\* (DirectVisit, BlockedVisit and visit, which say "possible for *inc to
\* overflow and become negative").
THEOREM CountersDoRecover == Spec => []CountersRecover
<1>1. SiteStatInv => CountersRecover
  <2> SUFFICES ASSUME SiteStatInv, alive, NEW id \in DOMAIN heap
               PROVE  IF IsListed(id)
                      THEN heap[id].direct = FromList(id[1]).direct
                           /\ heap[id].blocked = FromList(id[1]).blocked
                      ELSE /\ id[2] # "load" /\ ~Counting(id) =>
                                heap[id].direct \in 0 .. maxCnt /\ heap[id].blocked \in 0 .. maxCnt
                           /\ \A r \in Requests :
                                req[r].vc = id /\ req[r].pc = "clear" /\ ~Unclamped(id) =>
                                  Cnt(r) \in 0 .. maxCnt
    BY DEF CountersRecover, IsListed
  <2>1. /\ CountOf(heap[id], "direct") = heap[id].direct
        /\ CountOf(heap[id], "blocked") = heap[id].blocked
        /\ CountOf(FromList(id[1]), "direct") = FromList(id[1]).direct
        /\ CountOf(FromList(id[1]), "blocked") = FromList(id[1]).blocked
    BY DEF CountOf
  <2>2. CASE IsListed(id)
    BY <2>1, <2>2 DEF SiteStatInv, ListInv, Kinds
  <2>3. ASSUME id[2] # "load", ~Counting(id)
        PROVE  heap[id].direct \in 0 .. maxCnt /\ heap[id].blocked \in 0 .. maxCnt
    <3>1. Settled("direct", id) /\ Settled("blocked", id)
      BY <2>3 DEF SiteStatInv, CountInv, Kinds
    <3> QED BY <2>1, <2>3, <3>1 DEF Settled, At, Counting
  <2>4. ASSUME NEW r \in Requests, req[r].vc = id, req[r].pc = "clear", ~Unclamped(id)
        PROVE  Cnt(r) \in 0 .. maxCnt
    <3>1. Settled(req[r].kind, id)
      BY <2>4 DEF SiteStatInv, CountInv
    <3>2. Cnt(r) = CountOf(heap[id], req[r].kind)
      BY <2>4 DEF Cnt, V, CountOf
    <3> QED BY <2>4, <3>1, <3>2 DEF Settled, At, Unclamped
  <2> QED BY <2>2, <2>3, <2>4
<1> QED BY <1>1, SiteStatInvHolds, PTL

\* The next process loads the last complete save, whatever step of a later save
\* the process ended in or failed at, unless one began without a file; and
\* nothing is saved after the save of a process that exits (store,
\* storeSiteStat and initSiteStat).
THEOREM SavesSurvive == Spec => SavedSurvives
<1> DEFINE A == /\ ~alive /\ alive' /\ ~bare => loaded' = saved
                /\ fini /\ alive' => stat' = stat /\ bak' = bak
<1>1. SiteStatInv /\ [Next]_vars => [A]_vars
  <2> SUFFICES ASSUME SiteStatInv, Next PROVE A
    OBVIOUS
  <2> USE DEF SiteStatInv
  <2>1. ASSUME ~alive, alive', ~bare PROVE loaded' = saved
    <3>1. Restart
      <4>1. alive' # alive
        BY <2>1
      <4>2. ~Stop
        BY <2>1 DEF Stop
      <4> QED BY <4>1, <4>2, RequestLeaves, StoreLeaves, EstimateLeaves, OtherLeaves DEF Next
    <3>2. loaded' = Loadable.version
      BY <3>1 DEF Restart, LoadInto
    <3> QED BY <2>1, <3>2 DEF DiskInv
  <2>2. ASSUME fini, alive' PROVE stat' = stat /\ bak' = bak
    <3>1. storing.pc = "none"
      BY <2>2 DEF DiskInv
    <3>2. CASE Store
      BY <3>1, <3>2 DEF Store, StoreBegin, StoreTmp, StoreTmpFails, StoreRemoveBak,
        StoreRenameBak, StoreRename, StoreRenameFails, StoreEnd, disk
    <3> QED BY <3>2, RequestLeaves, EstimateLeaves, OtherLeaves DEF Next
  <2> QED BY <2>1, <2>2
<1> QED BY <1>1, SiteStatInvHolds, PTL DEF Spec, SavedSurvives

-----------------------------------------------------------------------------
(* Marks                                                                   *)

\* A count that has run round stays on record.
LEMMA OverrunStays ==
  ASSUME [Next]_vars, ~overrun'
  PROVE  ~overrun
<1>1. ASSUME NEW r \in Requests, Request(r) PROVE overrun' = overrun \/ Increment(r)
  BY <1>1, QuietLeaves DEF Request, Create, TempBlocked, MarkDomain, Clamp, ClearOther
<1>2. ASSUME NEW r \in Requests, Increment(r) PROVE ~overrun
  BY <1>2 DEF Increment
<1>3. CASE Store \/ Estimate \/ BlockExpires \/ UpdatePAC \/ Stop \/ Restart \/ UNCHANGED vars
  BY <1>3, StoreLeaves, EstimateLeaves, OtherLeaves, StutterLeaves
<1> QED BY <1>1, <1>2, <1>3 DEF Next

\* No step but an overrun makes a counter look like the user's mark.
LEMMA PlainHeapStep ==
  ASSUME Types, ListInv, PlainInv, [Next]_vars, ~overrun',
         NEW id \in DOMAIN heap', ~IsListed(id)
  PROVE  Plain(heap'[id])
<1>0. /\ \A i \in DOMAIN heap : ~IsListed(i) => Plain(heap[i])
      /\ FilePlain(stat) /\ FilePlain(bak)
  BY OverrunStays DEF PlainInv
<1>1. CASE UNCHANGED heap
  BY <1>0, <1>1
<1>2. ASSUME NEW r \in Requests, Create(r) PROVE Plain(heap'[id])
  <2>1. CASE id = <<req[r].host, r>>
    <3>1. heap'[id] = newVisitCnt(0, 0)
      BY <1>2, <2>1, CreateFacts
    <3>2. 0 # userCnt
      BY DEF userCnt
    <3> QED BY <3>1, <3>2, NewCountsNothing DEF Plain
  <2>2. CASE id # <<req[r].host, r>>
    BY <1>0, <1>2, <2>2, CreateFacts
  <2> QED BY <2>1, <2>2
<1>3. CASE (\E r \in Requests : TempBlocked(r)) \/ BlockExpires
  BY <1>0, <1>3, MarkFacts DEF SameCounts, CountOf, Plain
<1>4. ASSUME NEW r \in Requests, NEW j \in Kinds, NEW n, OnlyCount(req[r].vc, j, n), n # userCnt
      PROVE  Plain(heap'[id])
  <2>1. id \in DOMAIN heap
    BY <1>4 DEF OnlyCount
  <2>2. ASSUME NEW k \in Kinds PROVE CountOf(heap'[id], k) # userCnt
    <3>1. CASE id = req[r].vc /\ k = j
      BY <1>4, <3>1 DEF OnlyCount
    <3>2. CASE id # req[r].vc \/ k # j
      <4>1. CountOf(heap'[id], k) = CountOf(heap[id], k)
        BY <1>4, <2>1, <3>2, CountStays
      <4> QED BY <1>0, <2>1, <4>1 DEF Plain
    <3> QED BY <3>1, <3>2
  <2> QED BY <2>2 DEF Plain
<1>5. ASSUME NEW r \in Requests, Increment(r) \/ Clamp(r) \/ ClearOther(r) PROVE Plain(heap'[id])
  <2>1. req[r].kind \in Kinds /\ Other(req[r].kind) \in Kinds
    BY <1>5 DEF Increment, Clamp, ClearOther, Types, TypeReq, Other, Kinds
  <2>2. maxCnt # userCnt /\ 0 # userCnt
    BY CounterFacts DEF userCnt
  <2>3. Increment(r) => Wrap(Cnt(r) + 1) # userCnt
    BY DEF Increment
  <2> QED BY <1>1, <1>4, <1>5, <2>1, <2>2, <2>3, CountFacts
<1>6. CASE Restart
  <2>1. PICK file : /\ file = stat \/ file = bak
                    /\ \A i \in DOMAIN heap' :
                         /\ i[2] = "load"
                         /\ i[1] \notin Listed => /\ i[1] \in DOMAIN file.content
                                                  /\ heap'[i] = file.content[i[1]]
    BY <1>6, RestartHeap
  <2>2. id[1] \notin Listed
    BY <2>1 DEF IsListed
  <2> QED BY <1>0, <2>1, <2>2 DEF FilePlain
<1>7. ASSUME NEW r \in Requests, MarkDomain(r) PROVE UNCHANGED heap
  BY <1>7 DEF MarkDomain
<1>8. CASE Store \/ Estimate \/ UpdatePAC \/ Stop \/ UNCHANGED vars
  BY <1>1, <1>8, StoreLeaves, EstimateLeaves, OtherLeaves, StutterLeaves
<1> QED BY <1>1, <1>2, <1>3, <1>5, <1>6, <1>7, <1>8, QuietLeaves DEF Next, Request

\* Nor does one put such a counter into a file.
LEMMA PlainFileStep ==
  ASSUME Types, PlainInv, [Next]_vars, ~overrun'
  PROVE  FilePlain(storing'.file) /\ FilePlain(stat') /\ FilePlain(bak')
<1>0. /\ \A i \in DOMAIN heap : ~IsListed(i) => Plain(heap[i])
      /\ FilePlain(storing.file) /\ FilePlain(stat) /\ FilePlain(bak)
  BY OverrunStays DEF PlainInv
<1>1. FilePlain(NoFile)
  BY DEF FilePlain, NoFile
<1>2. ASSUME NEW kind \in {"cont", "exit"}, StoreBegin(kind) PROVE FilePlain(storing'.file)
  <2>1. PICK late : storing'.file.content = Saved(late)
    BY <1>2 DEF StoreBegin
  <2>2. PICK content : content = Saved(late)
    OBVIOUS
  <2>3. ASSUME NEW s \in DOMAIN content, s \notin Listed PROVE Plain(content[s])
    <3>1. PICK id : id = Vcnt[s]
      OBVIOUS
    <3>2. /\ id \in DOMAIN heap /\ id[1] = s
          /\ \A k \in Kinds : CountOf(content[s], k) = CountOf(heap[id], k)
      BY <2>2, <2>3, <3>1, SavedFacts
    <3>3. Plain(heap[id])
      BY <1>0, <2>3, <3>2 DEF IsListed
    <3> QED BY <3>2, <3>3 DEF Plain
  <2> QED BY <2>1, <2>2, <2>3 DEF FilePlain
<1>3. FilePlain(storing'.file)
  <2>1. CASE StoreTmp \/ StoreRemoveBak \/ StoreRenameBak
    BY <1>0, <2>1 DEF StoreTmp, StoreRemoveBak, StoreRenameBak, Types, TypeDisk
  <2>2. CASE StoreTmpFails \/ StoreRename \/ StoreRenameFails \/ StoreEnd \/ Stop
    <3>1. storing' = [NoStore EXCEPT !.pc = "end", !.kind = storing.kind] \/ storing' = NoStore
      BY <2>2 DEF StoreTmpFails, StoreRename, StoreRenameFails, StoreEnd, Stop
    <3>2. NoStore.file = NoFile /\ \A k : [NoStore EXCEPT !.pc = "end", !.kind = k].file = NoFile
      BY DEF NoStore
    <3> QED BY <1>1, <3>1, <3>2
  <2>3. CASE UNCHANGED storing
    BY <1>0, <2>3
  <2> QED BY <1>2, <2>1, <2>2, <2>3, RequestLeaves, EstimateLeaves, OtherLeaves, StutterLeaves
          DEF Next, Store
<1>4. FilePlain(stat') /\ FilePlain(bak')
  <2>1. CASE StoreRemoveBak \/ StoreRenameBak \/ StoreRename
    BY <1>0, <1>1, <2>1 DEF StoreRemoveBak, StoreRenameBak, StoreRename
  <2>2. ASSUME NEW kind \in {"cont", "exit"},
               StoreBegin(kind) \/ StoreTmp \/ StoreTmpFails \/ StoreRenameFails \/ StoreEnd
        PROVE  UNCHANGED <<stat, bak>>
    BY <2>2 DEF StoreBegin, StoreTmp, StoreTmpFails, StoreRenameFails, StoreEnd, disk
  <2>3. CASE UNCHANGED <<stat, bak>>
    BY <1>0, <2>3
  <2> QED BY <2>1, <2>2, <2>3, RequestLeaves, EstimateLeaves, OtherLeaves, StutterLeaves
          DEF Next, Store
<1> QED BY <1>3, <1>4

\* Every step keeps PlainInv.
LEMMA PlainStep ==
  ASSUME Types, ListInv, PlainInv, [Next]_vars
  PROVE  PlainInv'
<1> USE SettingFixed
<1>1. \A v : Plain(v)' = Plain(v)
  BY DEF Plain, CountOf
<1>2. \A f : FilePlain(f)' = FilePlain(f)
  BY DEF FilePlain, Plain, CountOf
<1>3. ASSUME ~overrun', NEW id \in DOMAIN heap', ~IsListed(id)' PROVE Plain(heap'[id])
  BY <1>3, PlainHeapStep
<1> QED BY <1>2, <1>3, PlainFileStep DEF PlainInv, Plain

\* Until then a mark of the user's is one of the lists.
LEMMA MarksAreListed ==
  ASSUME Types, ListInv, PlainInv, ~overrun, NEW id \in DOMAIN heap
  PROVE  userSpecified(heap[id]) <=> IsListed(id)
<1>1. CASE IsListed(id)
  BY <1>1 DEF ListInv, CountOf, Kinds, FromList, newVisitCnt, userSpecified
<1>2. CASE ~IsListed(id)
  BY <1>2 DEF PlainInv, Plain, Kinds, CountOf, userSpecified
<1> QED BY <1>1, <1>2

\* The list for the PAC file has no host of a domain marked before.
LEMMA PacStep ==
  ASSUME Types, SeenInv, [Next]_vars
  PROVE  ListOK'
<1> USE SettingFixed DEF SeenInv, ListOK
<1>1. CASE UNCHANGED <<marked, hasBlockedHost, pac, alive>>
  BY <1>1
<1>2. ASSUME NEW r \in Requests, MarkDomain(r) PROVE ListOK'
  <2>1. alive /\ alive' = alive /\ pac' = pac
    BY <1>2, RequestLeaves DEF MarkDomain, Request, Types, TypeReq, TypeFlags
  <2>2. marked \subseteq marked' /\ marked' \subseteq hasBlockedHost'
    BY <1>2 DEF MarkDomain
  <2> QED BY <2>1, <2>2
<1>3. CASE UpdateDirectList
  <2>1. UNCHANGED <<marked, hasBlockedHost, alive>>
    BY <1>3, OtherLeaves DEF UpdatePAC
  <2>2. pac' = [todo |-> pac'.todo, sites |-> {}, marked |-> marked]
    BY <1>3 DEF UpdateDirectList
  <2> QED BY <2>1, <2>2
<1>4. CASE GetDirectList
  <2>1. UNCHANGED <<marked, hasBlockedHost, alive>>
    BY <1>4, OtherLeaves DEF UpdatePAC
  <2>2. PICK s : pac' = [pac EXCEPT !.todo = @ \ {s},
                                    !.sites = IF Listable(s) THEN @ \cup {s} ELSE @]
    BY <1>4 DEF GetDirectList
  <2>3. /\ pac' = [todo |-> pac'.todo, sites |-> pac'.sites, marked |-> pac'.marked]
        /\ pac'.marked = pac.marked
        /\ pac'.sites = IF Listable(s) THEN pac.sites \cup {s} ELSE pac.sites
    BY <2>2
  <2>4. Listable(s) => cfg.domain[s] \notin pac.marked
    BY DEF Listable
  <2> QED BY <2>1, <2>3, <2>4
<1>5. CASE Stop
  BY <1>5 DEF Stop, NoList
<1>6. CASE Restart
  <2>1. UNCHANGED <<marked, pac>> /\ marked = {} /\ alive'
    BY <1>6, OtherLeaves DEF Restart
  <2> QED BY <2>1
<1>7. ASSUME NEW r \in Requests, Create(r) \/ TempBlocked(r) \/ Increment(r) \/ Clamp(r) \/ ClearOther(r)
      PROVE  UNCHANGED <<marked, hasBlockedHost>>
  BY <1>7 DEF Create, TempBlocked, Increment, Clamp, ClearOther
<1>8. CASE Store \/ Estimate \/ BlockExpires \/ UNCHANGED vars
  BY <1>1, <1>8, StoreLeaves, EstimateLeaves, OtherLeaves, StutterLeaves
<1>9. ASSUME NEW r \in Requests, Request(r), ~MarkDomain(r)
      PROVE  UNCHANGED <<marked, hasBlockedHost, pac, alive>>
  BY <1>7, <1>9, RequestLeaves, QuietLeaves DEF Request
<1> QED BY <1>1, <1>2, <1>3, <1>4, <1>5, <1>6, <1>8, <1>9 DEF Next, UpdatePAC

\* A VisitCnt that was made counts as a create, and is not replaced unseen.
LEMMA MadeStep ==
  ASSUME Types, SeenInv, [Next]_vars
  PROVE  alive' => \A s \in Sites : Made(s)' => creates'[s] >= 1
<1> USE DEF SeenInv
<1>1. CASE UNCHANGED <<Vcnt, creates, alive>>
  BY <1>1 DEF Made
<1>2. ASSUME NEW r \in Requests, Create(r)
      PROVE  alive' => \A s \in Sites : Made(s)' => creates'[s] >= 1
  <2>1. PICK h \in Sites : h = req[r].host
    BY <1>2, CreateFacts
  <2>2. /\ Vcnt' = [Vcnt EXCEPT ![h] = <<h, r>>] /\ creates' = [creates EXCEPT ![h] = @ + 1]
        /\ alive' = alive
    BY <1>2, <2>1, RequestLeaves DEF Create, Request
  <2>3. creates'[h] >= 1 /\ \A s \in Sites : s # h => Vcnt'[s] = Vcnt[s] /\ creates'[s] = creates[s]
    BY <2>2 DEF Types, TypeMap
  <2> QED BY <2>2, <2>3 DEF Made
<1>3. CASE Stop
  BY <1>3 DEF Stop
<1>4. CASE Restart
  <2>1. PICK file : \E stale \in BOOLEAN : LoadInto(file, stale)
    BY <1>4, RestartFacts
  <2>2. \A s \in Sites : Vcnt'[s] = None \/ Vcnt'[s] = <<s, "load">>
    BY <2>1 DEF LoadInto
  <2> QED BY <2>2, NamesAreNotNone DEF Made
<1>5. ASSUME NEW r \in Requests,
             MarkDomain(r) \/ TempBlocked(r) \/ Increment(r) \/ Clamp(r) \/ ClearOther(r)
      PROVE  UNCHANGED <<Vcnt, creates>>
  BY <1>5 DEF MarkDomain, TempBlocked, Increment, Clamp, ClearOther
<1>6. ASSUME NEW r \in Requests, Request(r), ~Create(r) PROVE UNCHANGED <<Vcnt, creates, alive>>
  BY <1>5, <1>6, RequestLeaves, QuietLeaves DEF Request
<1>7. CASE Store \/ Estimate \/ UpdatePAC \/ BlockExpires \/ UNCHANGED vars
  BY <1>1, <1>7, StoreLeaves, EstimateLeaves, OtherLeaves, StutterLeaves
<1> QED BY <1>1, <1>2, <1>3, <1>4, <1>6, <1>7 DEF Next

\* What a request knows of the map, once another has changed it.
Knows(v) ==
  /\ v.pc # "panic"
  /\ v.pc = "create" => Vcnt[v.host] = None \/ Made(v.host)
  /\ v.pc \in {"connect", "mark", "markDomain"} =>
       \/ v.pc = "connect" /\ IsListed(v.vc)
       \/ Vcnt[v.host] # None /\ (Vcnt[v.host] = v.vc \/ creates[v.host] >= 2)

\* What a request knows of its record stays true while the process runs.
LEMMA KnowsStays ==
  ASSUME Types, SeenInv, ~overrun, [Next]_vars, ~Stop, ~Restart, alive, NEW v, Knows(v),
         v.pc \notin {"idle", "panic"} => v.host \in Sites
  PROVE  Knows(v)'
<1> USE SettingFixed
<1>1. CASE UNCHANGED <<Vcnt, creates>>
  BY <1>1 DEF Knows, Made
<1>2. ASSUME NEW r \in Requests, Create(r) PROVE Knows(v)'
  <2>1. PICK h \in Sites : h = req[r].host
    BY <1>2, CreateFacts
  <2>2. Vcnt' = [Vcnt EXCEPT ![h] = <<h, r>>] /\ creates' = [creates EXCEPT ![h] = @ + 1]
    BY <1>2, <2>1 DEF Create
  <2>3. \A s \in Sites : s # h => Vcnt'[s] = Vcnt[s] /\ creates'[s] = creates[s]
    BY <2>2 DEF Types, TypeMap
  <2>4. Vcnt'[h] = <<h, r>> /\ creates'[h] = creates[h] + 1 /\ creates[h] \in Nat
    BY <2>2 DEF Types, TypeMap
  <2>5. Vcnt'[h] # None /\ Vcnt'[h][2] # "load"
    BY <2>4, NamesAreNotNone, SiteStatAssumption
  <2>6. Vcnt[h] = None \/ creates[h] >= 1
    BY <1>2, <2>1 DEF SeenInv, Create
  <2>7. CASE v.host # h
    BY <2>3, <2>7 DEF Knows, Made
  <2>8. CASE v.host = h
    <3>1. CASE v.pc = "create"
      BY <2>5, <2>8, <3>1 DEF Knows, Made
    <3>2. CASE v.pc \in {"connect", "mark", "markDomain"}
      <4>1. CASE v.pc = "connect" /\ IsListed(v.vc)
        BY <4>1 DEF Knows
      <4>2. CASE Vcnt[h] # None
        <5>1. creates'[h] >= 2
          BY <2>4, <2>6, <4>2
        <5> QED BY <2>5, <2>8, <3>2, <5>1 DEF Knows
      <4> QED BY <2>8, <3>2, <4>1, <4>2 DEF Knows
    <3>3. CASE v.pc \notin {"create", "connect", "mark", "markDomain"}
      BY <3>3 DEF Knows
    <3> QED BY <3>1, <3>2, <3>3
  <2> QED BY <2>7, <2>8
<1>3. ASSUME NEW r \in Requests,
             MarkDomain(r) \/ TempBlocked(r) \/ Increment(r) \/ Clamp(r) \/ ClearOther(r)
      PROVE  UNCHANGED <<Vcnt, creates>>
  BY <1>3 DEF MarkDomain, TempBlocked, Increment, Clamp, ClearOther
<1>4. CASE Store \/ Estimate \/ UpdatePAC \/ BlockExpires \/ UNCHANGED vars
  BY <1>1, <1>4, StoreLeaves, EstimateLeaves, OtherLeaves, StutterLeaves
<1> QED BY <1>1, <1>2, <1>3, <1>4, QuietLeaves DEF Next, Request

\* Every step keeps what each request knows.
LEMMA KnowsStep ==
  ASSUME Types, ListInv, PlainInv, SeenInv, ~overrun, [Next]_vars, NEW q \in Requests
  PROVE  Knows(req[q])'
<1> USE SettingFixed
<1>1. Knows(req[q]) /\ (req[q].pc \notin {"idle", "panic"} => req[q].host \in Sites)
  BY DEF SeenInv, Knows, Uses, Types, TypeReq
<1>2. CASE req'[q].pc = "idle"
  BY <1>2 DEF Knows
<1>3. CASE req'[q] = req[q] /\ ~Stop /\ ~Restart
  <2>1. CASE req[q].pc = "idle"
    BY <1>2, <1>3, <2>1
  <2>2. CASE req[q].pc # "idle"
    <3>1. alive
      BY <2>2 DEF Types, TypeReq, TypeFlags
    <3>2. PICK v : v = req[q]
      OBVIOUS
    <3>3. Knows(v)'
      BY <1>1, <1>3, <3>1, <3>2, KnowsStays
    <3> QED BY <1>3, <3>2, <3>3 DEF Knows
  <2> QED BY <2>1, <2>2
<1>4. CASE Get(q)
  <2>1. PICK h \in Sites : /\ req'[q].pc = (IF Lookup(h) = None THEN "create" ELSE "connect")
                           /\ req'[q].host = h /\ req'[q].vc = Lookup(h)
    BY <1>4, RequestBegins
  <2>2. UNCHANGED <<Vcnt, creates>>
    BY <1>4, QuietLeaves
  <2>3. PICK d : d = Vcnt[cfg.domain[h]]
    OBVIOUS
  <2>4. d # None => d \in DOMAIN heap
    BY <2>3, SettingTypes DEF Types, TypeMap, TypeFlags
  <2>5. CASE Vcnt[h] = None /\ d # None /\ userSpecified(heap[d])
    <3>1. IsListed(d) /\ Lookup(h) = d
      BY <2>3, <2>4, <2>5, MarksAreListed DEF Lookup
    <3> QED BY <2>1, <2>2, <2>5, <3>1 DEF Knows
  <2>6. CASE ~(Vcnt[h] = None /\ d # None /\ userSpecified(heap[d]))
    <3>1. Lookup(h) = Vcnt[h]
      BY <2>3, <2>6 DEF Lookup
    <3> QED BY <2>1, <2>2, <3>1 DEF Knows
  <2> QED BY <2>5, <2>6
<1>5. CASE Create(q)
  <2>1. req[q].host \in Sites
    BY <1>5, CreateFacts
  <2>2. PICK h, id : h = req[q].host /\ id = <<req[q].host, q>>
    OBVIOUS
  <2>3. Vcnt'[h] = id /\ id # None
    BY <1>5, <2>1, <2>2, NamesAreNotNone DEF Create, Types, TypeMap
  <2>4. req'[q].pc = "connect" /\ req'[q].host = h /\ req'[q].vc = id
    BY <1>5, <2>2, RequestBegins
  <2> QED BY <2>3, <2>4 DEF Knows
<1>6. CASE ConnectBlocked(q)
  <2>1. req[q].vc \in DOMAIN heap
    BY <1>6 DEF ConnectBlocked, Types, TypeReq
  <2>2. ~IsListed(req[q].vc)
    BY <1>6, <2>1, MarksAreListed DEF ConnectBlocked, MayMark, V, AlwaysDirect, AlwaysBlocked,
      userSpecified
  <2>3. UNCHANGED <<Vcnt, creates>>
    BY <1>6, QuietLeaves
  <2> QED BY <1>1, <1>6, <2>2, <2>3, RequestBegins DEF Knows, ConnectBlocked
<1>7. CASE TempBlocked(q)
  <2>1. UNCHANGED <<Vcnt, creates>> /\ req[q].pc = "mark"
    BY <1>7 DEF TempBlocked
  <2>2. Vcnt[req[q].host] # None
    BY <1>1, <2>1 DEF Knows
  <2>3. Moves(q, "markDomain")
    BY <1>7, <2>2, RequestMoves
  <2> QED BY <1>1, <2>1, <2>3 DEF Knows, Moves
<1>8. ASSUME Request(q), ~Get(q), ~Create(q), ~ConnectBlocked(q), ~TempBlocked(q)
      PROVE  Knows(req[q])'
  <2>1. req'[q].pc \in {"idle", "visit", "inc", "clamp", "clear"}
    BY <1>8, RequestMoves, RequestBegins DEF Request, Moves, Returns
  <2> QED BY <2>1 DEF Knows
<1>9. ASSUME NEW r \in Requests, Request(r), r # q, ~Stop, ~Restart PROVE Knows(req[q])'
  BY <1>3, <1>9, OthersStay
<1>10. CASE Stop
  BY <1>2, <1>10 DEF Stop, NoVisit
<1>11. CASE Restart
  BY <1>2, <1>11, OtherLeaves DEF Restart, Types, TypeReq
<1>12. CASE Store \/ Estimate \/ UpdatePAC \/ BlockExpires \/ UNCHANGED vars
  BY <1>3, <1>10, <1>11, <1>12, StoreLeaves, EstimateLeaves, OtherLeaves, StutterLeaves
<1> QED BY <1>4, <1>5, <1>6, <1>7, <1>8, <1>9, <1>10, <1>11, <1>12 DEF Next

\* Every step keeps SeenInv.
LEMMA SeenStep ==
  ASSUME Types, ListInv, PlainInv, SeenInv, [Next]_vars
  PROVE  SeenInv'
<1> USE SettingFixed
<1>1. ASSUME ~overrun', NEW q \in Requests PROVE Knows(req[q])'
  BY <1>1, OverrunStays, KnowsStep
<1>2. (~overrun => \A r \in Requests :
            /\ req[r].pc # "panic"
            /\ req[r].pc = "create" => Vcnt[req[r].host] = None \/ Made(req[r].host)
            /\ req[r].pc \in {"connect", "mark", "markDomain"} => Uses(r))'
  BY <1>1 DEF Knows, Uses
<1>3. ListOK'
  BY PacStep
<1>4. (alive => \A s \in Sites : Made(s) => creates[s] >= 1)'
  BY MadeStep
<1> QED BY <1>2, <1>3, <1>4 DEF SeenInv

\* A mark is seen by those who ask afterwards (TempBlocked, GetVisitCnt, create
\* and GetDirectList), until a count runs round to the user's mark; the list
\* for the PAC file leaves a marked domain out even then.
THEOREM MarksAreSeen == Spec => []MarksSeen
<1> DEFINE Inv == SiteStatInv /\ PlainInv /\ SeenInv
<1>1. Init => Inv
  <2> SUFFICES ASSUME Init PROVE Inv
    OBVIOUS
  <2>1. SiteStatInv
    BY SiteStatInit
  <2>2. \A id \in DOMAIN heap : IsListed(id)
    BY DEF Init, IsListed
  <2>3. FilePlain(NoFile)
    BY DEF FilePlain, NoFile
  <2>4. PlainInv
    BY <2>2, <2>3 DEF Init, PlainInv, NoStore
  <2>5. \A s \in Sites : ~Made(s)
    BY NamesAreNotNone DEF Init, Made
  <2>6. SeenInv
    BY <2>5 DEF Init, SeenInv, ListOK, NoList, NoVisit
  <2> QED BY <2>1, <2>4, <2>6
<1>2. Inv /\ [Next]_vars => Inv'
  BY TypesStep, DiskStep, ListStep, CountStep, PlainStep, SeenStep DEF SiteStatInv
<1>3. Inv => MarksSeen
  BY SettingTypes DEF MarksSeen, SeenInv, ListOK, Uses, SiteStatInv, Types, TypeReq, TypeMap
<1> QED BY <1>1, <1>2, <1>3, PTL DEF Spec

=============================================================================
