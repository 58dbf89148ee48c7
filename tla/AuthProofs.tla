----------------------------- MODULE AuthProofs -----------------------------
(***************************************************************************)
(* Proofs about Auth: nobody is let in without a proof, by whichever       *)
(* connection it came, and the cache never outlives the proof it is for.   *)
(***************************************************************************)
EXTENDS Auth, TLAPS

\* The proof from address i is at time t or later.
ProvenSince(i, t) == t # None /\ proof[i] # None /\ t <= proof[i]

Entitled(c) == IP(c) \in cfg.allowed \/ proof[IP(c)] # None

\* The set holds no time that is later than the last proof of the address.
EntryInv == \A i \in IPs : time[i] # None => ProvenSince(i, time[i])

\* What a goroutine that is half way has already established.
KnowsInv(c) ==
  /\ pc[c] \in {"judge", "add"} => ProvenSince(IP(c), saw[c])
  /\ pc[c] \in {"digest", "store", "compare"} => cfg.clients[c].portOK
  /\ pc[c] = "accept" => Credentials(c)
  /\ pc[c] = "nil" \/ authed[c] => Entitled(c)

GoroutineInv == \A c \in Clients : KnowsInv(c)

AuthInv == TypeOK /\ EntryInv /\ GoroutineInv

-----------------------------------------------------------------------------
(* The types                                                               *)

\* The setting is chosen once.
LEMMA SettingStays ==
  ASSUME [Next]_vars
  PROVE  /\ cfg' = cfg /\ Clients' = Clients /\ IPs' = IPs
         /\ \A c \in Clients : IP(c)' = IP(c) /\ IP(c) \in IPs
<1>1. cfg' = cfg
  BY DEF Next, vars, Tick, Crashed, Handle, Connect, Disconnect, Serve, HasRead,
         HasJudge, HasDel, Add, AuthIP, Check, InitHA1, StoreHA1, Compare, Accept,
         Challenge, BadRequest
<1> QED BY <1>1 DEF Clients, IPs, IP

\* Every goroutine starts outside, with nothing remembered.
LEMMA AuthInit == Init => AuthInv
<1> SUFFICES ASSUME Init PROVE AuthInv
  OBVIOUS
<1>1. cfg.maxTime \in Nat
  BY AuthAssumption DEF Init
<1>2. /\ cfg \in Settings /\ clock \in 0 .. cfg.maxTime
      /\ ha1 \in {"empty", "half", "set"} /\ served \subseteq Clients
  BY <1>1 DEF Init
<1>3. /\ crashed \in BOOLEAN /\ pc \in [Clients -> Places] /\ authed \in [Clients -> BOOLEAN]
      /\ header \in [Clients -> {"none", "basic", "digest", "malformed"}]
  BY DEF Init, Places
<1>4. /\ time \in [IPs -> {None} \cup 0 .. clock] /\ proof \in [IPs -> {None} \cup 0 .. clock]
      /\ nonce \in [Clients -> {None} \cup 0 .. clock]
      /\ saw \in [Clients -> {None} \cup 0 .. clock]
  BY DEF Init
<1>5. EntryInv /\ GoroutineInv
  BY DEF Init, EntryInv, GoroutineInv, KnowsInv
<1> QED BY <1>2, <1>3, <1>4, <1>5 DEF AuthInv, TypeOK

\* The types survive every step.
LEMMA TypeStep ==
  ASSUME AuthInv, [Next]_vars
  PROVE  TypeOK'
<1> USE SettingStays DEF AuthInv, None
<1>1. cfg.maxTime \in Nat /\ clock \in Nat
  BY AuthAssumption DEF TypeOK
<1>2. CASE Tick
  BY <1>1, <1>2 DEF Tick, TypeOK, shared
<1>3. ASSUME NEW c \in Clients, Connect(c) PROVE TypeOK'
  <2>1. HeaderOf(c) \in {"none", "basic", "digest", "malformed"}
    BY AuthAssumption DEF HeaderOf, TypeOK, Clients
  <2> QED BY <1>3, <2>1 DEF Connect, At, TypeOK, shared, Places
<1>4. ASSUME NEW c \in Clients, Disconnect(c) \/ Serve(c) PROVE TypeOK'
  BY <1>4 DEF Disconnect, Serve, At, TypeOK, shared, Places
<1>5. ASSUME NEW c \in Clients, HasRead(c) \/ HasJudge(c) \/ AuthIP(c) PROVE TypeOK'
  BY <1>5 DEF HasRead, HasJudge, AuthIP, At, TypeOK, shared, Places
<1>6. ASSUME NEW c \in Clients, HasDel(c) \/ Add(c) PROVE TypeOK'
  BY <1>6 DEF HasDel, Add, At, TypeOK, Places
<1>7. ASSUME NEW c \in Clients, Check(c) PROVE TypeOK'
  <2>1. Verdict(c) \in Places
    BY DEF Verdict, TypeOK, Places
  <2> QED BY <1>7, <2>1 DEF Check, At, TypeOK, shared
<1>8. ASSUME NEW c \in Clients, InitHA1(c) \/ StoreHA1(c) \/ Compare(c) PROVE TypeOK'
  BY <1>8 DEF InitHA1, StoreHA1, Compare, At, TypeOK, Places
<1>9. ASSUME NEW c \in Clients, Accept(c) PROVE TypeOK'
  BY <1>1, <1>9 DEF Accept, At, TypeOK, Places
<1>10. ASSUME NEW c \in Clients, Challenge(c) \/ BadRequest(c) PROVE TypeOK'
  BY <1>1, <1>10 DEF Challenge, BadRequest, At, TypeOK, shared, Places
<1>11. CASE UNCHANGED vars
  BY <1>11 DEF vars, shared, TypeOK
<1> QED
  BY <1>2, <1>3, <1>4, <1>5, <1>6, <1>7, <1>8, <1>9, <1>10, <1>11
  DEF Next, Handle, Crashed

-----------------------------------------------------------------------------
(* A proof is never taken back                                             *)

\* The last proof of an address only gets later, and is there before anything
\* rests on it.
LEMMA ProofGrows ==
  ASSUME AuthInv, [Next]_vars
  PROVE  \A i \in IPs : proof[i] # None => proof'[i] # None /\ proof[i] <= proof'[i]
<1> USE SettingStays DEF AuthInv, None, TypeOK
<1>1. ASSUME NEW c \in Clients, Accept(c)
      PROVE  \A i \in IPs : proof[i] # None => proof'[i] # None /\ proof[i] <= proof'[i]
  <2>1. clock \in Nat /\ \A i \in IPs : proof[i] = None \/ proof[i] \in 0 .. clock
    BY AuthAssumption
  <2> QED BY <1>1, <2>1 DEF Accept
<1>2. CASE UNCHANGED proof
  BY <1>2, AuthAssumption
<1> QED
  BY <1>1, <1>2
  DEF Next, Handle, vars, shared, Tick, Crashed, Connect, Disconnect, Serve, HasRead,
      HasJudge, HasDel, Add, AuthIP, Check, InitHA1, StoreHA1, Compare, Challenge,
      BadRequest

\* What rests on a proof goes on resting on it.
LEMMA ProvenStays ==
  ASSUME AuthInv, [Next]_vars, NEW i \in IPs, NEW t \in {None} \cup 0 .. clock,
         ProvenSince(i, t)
  PROVE  proof'[i] # None /\ t <= proof'[i]
<1>1. proof'[i] # None /\ proof[i] <= proof'[i]
  BY ProofGrows DEF ProvenSince
<1>2. /\ t \in Int /\ proof[i] \in Int /\ proof'[i] \in Int
  BY TypeStep, SettingStays, AuthAssumption DEF AuthInv, TypeOK, None
<1> QED BY <1>1, <1>2 DEF ProvenSince

\* An entry is made only by add, with the time of a proof.
LEMMA EntryStep ==
  ASSUME AuthInv, [Next]_vars
  PROVE  EntryInv'
<1>1. SUFFICES ASSUME NEW i \in IPs, time'[i] # None
               PROVE  proof'[i] # None /\ time'[i] <= proof'[i]
  BY SettingStays DEF EntryInv, ProvenSince
<1>2. /\ time[i] \in {None} \cup 0 .. clock
      /\ \A c \in Clients : saw[c] \in {None} \cup 0 .. clock
  BY DEF AuthInv, TypeOK
<1>3. CASE time'[i] = time[i]
  <2>1. ProvenSince(i, time[i])
    BY <1>1, <1>3 DEF AuthInv, EntryInv
  <2> QED BY <1>2, <1>3, <2>1, ProvenStays
<1>4. ASSUME NEW c \in Clients, Add(c) PROVE proof'[i] # None /\ time'[i] <= proof'[i]
  <2>1. CASE IP(c) = i
    <3>1. time'[i] = saw[c] /\ ProvenSince(i, saw[c])
      BY <1>4, <2>1 DEF Add, At, AuthInv, GoroutineInv, KnowsInv, TypeOK
    <3> QED BY <1>2, <3>1, ProvenStays
  <2>2. CASE IP(c) # i
    BY <1>3, <1>4, <2>2 DEF Add, AuthInv, TypeOK
  <2> QED BY <2>1, <2>2
<1>5. ASSUME NEW c \in Clients, HasDel(c) PROVE proof'[i] # None /\ time'[i] <= proof'[i]
  BY <1>1, <1>3, <1>5 DEF HasDel, AuthInv, TypeOK
<1> QED
  BY <1>3, <1>4, <1>5
  DEF Next, Handle, vars, shared, Tick, Crashed, Connect, Disconnect, Serve, HasRead,
      HasJudge, AuthIP, Check, InitHA1, StoreHA1, Compare, Accept, Challenge, BadRequest

-----------------------------------------------------------------------------
(* What a goroutine knows                                                  *)

\* A goroutine that does not move goes on knowing what it knows.
LEMMA KnowsStays ==
  ASSUME AuthInv, [Next]_vars, NEW c \in Clients,
         pc'[c] = pc[c], saw'[c] = saw[c], authed'[c] = authed[c]
  PROVE  KnowsInv(c)'
<1>1. cfg' = cfg /\ IP(c)' = IP(c) /\ IP(c) \in IPs
  BY SettingStays
<1>2. KnowsInv(c) /\ saw[c] \in {None} \cup 0 .. clock
  BY DEF AuthInv, GoroutineInv, KnowsInv, TypeOK
<1>3. ProvenSince(IP(c), saw[c]) => ProvenSince(IP(c), saw[c])'
  BY <1>1, <1>2, ProvenStays DEF ProvenSince
<1>4. Entitled(c) => Entitled(c)'
  BY <1>1, ProofGrows DEF Entitled
<1>5. Credentials(c)' = Credentials(c)
  BY <1>1 DEF Credentials
<1> QED BY <1>1, <1>2, <1>3, <1>4, <1>5 DEF KnowsInv

\* A goroutine that moves establishes what the next place asks for.
LEMMA KnowsMoves ==
  ASSUME AuthInv, [Next]_vars, NEW c \in Clients,
         Handle(c) \/ Connect(c) \/ Disconnect(c)
  PROVE  KnowsInv(c)'
<1>1. cfg' = cfg /\ IP(c)' = IP(c) /\ IP(c) \in IPs
  BY SettingStays
<1>2. /\ KnowsInv(c) /\ saw[c] \in {None} \cup 0 .. clock
      /\ time[IP(c)] \in {None} \cup 0 .. clock /\ clock \in Nat
      /\ time[IP(c)] # None => ProvenSince(IP(c), time[IP(c)])
  BY <1>1, AuthAssumption DEF AuthInv, GoroutineInv, EntryInv, KnowsInv, TypeOK
<1>3. /\ DOMAIN pc = Clients /\ DOMAIN saw = Clients /\ DOMAIN authed = Clients
      /\ DOMAIN proof = IPs
      /\ header[c] \in {"none", "basic", "digest", "malformed"}
  BY DEF AuthInv, TypeOK
<1>4. Entitled(c) => Entitled(c)'
  BY <1>1, ProofGrows DEF Entitled
<1>5. Credentials(c)' = Credentials(c)
  BY <1>1 DEF Credentials
<1> USE DEF At, KnowsInv
<1>6. CASE Connect(c) \/ Challenge(c) \/ BadRequest(c)
  BY <1>2, <1>3, <1>4, <1>6 DEF Connect, Challenge, BadRequest
<1>7. CASE Disconnect(c) \/ Serve(c)
  BY <1>2, <1>3, <1>4, <1>7 DEF Disconnect, Serve
<1>8. CASE HasRead(c)
  <2>1. proof' = proof /\ authed' = authed /\ saw'[c] = time[IP(c)]
        /\ pc'[c] = IF time[IP(c)] = None THEN "ip" ELSE "judge"
    BY <1>3, <1>8 DEF HasRead, shared
  <2> QED BY <1>1, <1>2, <1>4, <2>1 DEF ProvenSince
<1>9. CASE HasJudge(c)
  <2>1. Entitled(c)
    BY <1>2, <1>9 DEF HasJudge, ProvenSince, Entitled
  <2> QED BY <1>3, <1>4, <1>9, <2>1 DEF HasJudge
<1>10. CASE HasDel(c)
  BY <1>2, <1>3, <1>4, <1>10 DEF HasDel
<1>11. CASE Add(c)
  <2>1. Entitled(c)
    BY <1>2, <1>11 DEF Add, ProvenSince, Entitled
  <2> QED BY <1>3, <1>4, <1>11, <2>1 DEF Add
<1>12. CASE AuthIP(c)
  BY <1>1, <1>2, <1>3, <1>4, <1>12 DEF AuthIP, Entitled
<1>13. CASE Check(c)
  <2>1. /\ Verdict(c) \in {"challenge", "badRequest", "accept", "digest"}
        /\ Verdict(c) = "accept" => Credentials(c)
        /\ Verdict(c) = "digest" => cfg.clients[c].portOK
    BY <1>3, Zenon DEF Verdict
  <2>2. pc'[c] = Verdict(c) /\ authed' = authed
    BY <1>3, <1>13 DEF Check
  <2> QED BY <1>1, <1>2, <1>4, <1>5, <2>1, <2>2
<1>14. CASE InitHA1(c) \/ StoreHA1(c)
  BY <1>1, <1>2, <1>3, <1>4, <1>14 DEF InitHA1, StoreHA1
<1>15. CASE Compare(c)
  BY <1>1, <1>2, <1>3, <1>4, <1>5, <1>15 DEF Compare, Credentials
<1>16. CASE Accept(c)
  <2>1. Credentials(c) /\ pc'[c] = "add" /\ saw'[c] = clock /\ proof'[IP(c)] = clock
        /\ authed' = authed
    BY <1>1, <1>2, <1>3, <1>16 DEF Accept
  <2>2. ProvenSince(IP(c), saw[c])'
    BY <1>1, <1>2, <2>1 DEF ProvenSince, None
  <2> QED BY <1>1, <1>2, <1>4, <2>1, <2>2
<1> QED
  BY <1>6, <1>7, <1>8, <1>9, <1>10, <1>11, <1>12, <1>13, <1>14, <1>15, <1>16 DEF Handle

\* Another goroutine's step does not move this one.
LEMMA OthersStay ==
  ASSUME AuthInv, NEW c \in Clients, NEW d \in Clients, d # c,
         Handle(d) \/ Connect(d) \/ Disconnect(d)
  PROVE  pc'[c] = pc[c] /\ saw'[c] = saw[c] /\ authed'[c] = authed[c]
BY DEF AuthInv, TypeOK, Handle, At, Connect, Disconnect, Serve, HasRead, HasJudge, HasDel,
       Add, AuthIP, Check, InitHA1, StoreHA1, Compare, Accept, Challenge, BadRequest

\* The whole invariant survives every step.
LEMMA AuthStep == AuthInv /\ [Next]_vars => AuthInv'
<1> SUFFICES ASSUME AuthInv, [Next]_vars PROVE AuthInv'
  OBVIOUS
<1>1. ASSUME NEW c \in Clients PROVE KnowsInv(c)'
  <2>1. CASE Handle(c) \/ Connect(c) \/ Disconnect(c)
    BY <2>1, KnowsMoves
  <2>2. ASSUME NEW d \in Clients, d # c, Handle(d) \/ Connect(d) \/ Disconnect(d)
        PROVE  KnowsInv(c)'
    BY <2>2, OthersStay, KnowsStays
  <2>3. CASE Tick \/ UNCHANGED vars
    BY <2>3, KnowsStays DEF Tick, vars
  <2> QED BY <2>1, <2>2, <2>3 DEF Next, Crashed
<1>2. GoroutineInv'
  BY <1>1, SettingStays DEF GoroutineInv, KnowsInv
<1> QED BY <1>2, TypeStep, EntryStep DEF AuthInv

\* The invariant holds of every reachable state.
THEOREM AuthInvHolds == Spec => []AuthInv
<1> QED BY AuthInit, AuthStep, PTL DEF Spec

\* AuthedByProof for any configuration and any number of connections of any
\* addresses: Authenticate says yes only to an allowed address or to one from
\* which right credentials have been accepted.
THEOREM AuthedOnlyByProof == Spec => []AuthedByProof
<1>1. AuthInv => AuthedByProof
  BY DEF AuthInv, GoroutineInv, KnowsInv, AuthedByProof, Entitled
<1> QED BY <1>1, AuthInvHolds, PTL

\* CacheExpires for any configuration: in whatever order TimeoutSet.has, del and
\* add of several connections come, what has takes for young is no older than
\* the last proof from that address.
THEOREM CacheNeverOutlives == Spec => CacheExpires
<1>1. ASSUME AuthInv, [Next]_vars, NEW c \in Clients, pc[c] = "judge", pc'[c] = "nil"
      PROVE  clock - proof[IP(c)] <= cfg.timeout
  <2>1. HasJudge(c)
    <3>1. PICK d \in Clients : Handle(d) \/ Connect(d) \/ Disconnect(d)
      BY <1>1 DEF Next, Tick, Crashed, vars
    <3>2. d = c
      BY <1>1, <3>1, OthersStay
    <3> QED BY <1>1, <3>1, <3>2
        DEF Handle, At, Connect, Disconnect, Serve, HasRead, HasDel, Add, AuthIP, Check,
            InitHA1, StoreHA1, Compare, Accept, Challenge, BadRequest
  <2>2. ~ (clock - saw[c] > cfg.timeout)
    BY <1>1, <2>1 DEF HasJudge, At, AuthInv, TypeOK, Expired
  <2>3. saw[c] <= proof[IP(c)]
    BY <1>1 DEF AuthInv, GoroutineInv, KnowsInv, ProvenSince
  <2>4. clock \in Int /\ saw[c] \in Int /\ proof[IP(c)] \in Int /\ cfg.timeout \in Int
    BY <1>1, SettingStays, AuthAssumption DEF AuthInv, TypeOK, None
  <2> QED BY <2>2, <2>3, <2>4
<1>2. AuthInv /\ [Next]_vars =>
        [\A c \in Clients : pc[c] = "judge" /\ pc'[c] = "nil" =>
            clock - proof[IP(c)] <= cfg.timeout]_vars
  BY <1>1
<1> QED BY <1>2, AuthInvHolds, PTL DEF Spec, CacheExpires
=============================================================================
