------------------------- MODULE PluginQueueProofs -------------------------
(***************************************************************************)
(* Proofs about PluginQueue: who holds an exchange, the lock around close  *)
(* and what is left when the process ends.                                 *)
(***************************************************************************)
EXTENDS PluginQueue, FiniteSetTheorems, TLAPS

-----------------------------------------------------------------------------
(* What the queue holds after a send and after a receive                   *)

ElementsOf(q) == {q[i] : i \in DOMAIN q}
Distinct(q) == \A i, j \in DOMAIN q : q[i] = q[j] => i = j

\* A send adds the element at the end.
LEMMA SendElements ==
  ASSUME NEW S, NEW q \in Seq(S), NEW x \in S
  PROVE  /\ Append(q, x) \in Seq(S)
         /\ Len(Append(q, x)) = Len(q) + 1
         /\ ElementsOf(Append(q, x)) = ElementsOf(q) \cup {x}
<1> DEFINE r == Append(q, x)
<1>1. /\ r \in Seq(S) /\ Len(r) = Len(q) + 1 /\ Len(q) \in Nat
      /\ DOMAIN r = 1 .. Len(q) + 1 /\ DOMAIN q = 1 .. Len(q)
      /\ \A i \in 1 .. Len(q) : r[i] = q[i]
      /\ r[Len(q) + 1] = x
  OBVIOUS
<1>2. ElementsOf(r) \subseteq ElementsOf(q) \cup {x}
  BY <1>1 DEF ElementsOf
<1>3. ElementsOf(q) \subseteq ElementsOf(r)
  BY <1>1 DEF ElementsOf
<1>4. x \in ElementsOf(r)
  BY <1>1 DEF ElementsOf
<1> QED BY <1>1, <1>2, <1>3, <1>4

\* A send of something new keeps the elements distinct.
LEMMA SendDistinct ==
  ASSUME NEW S, NEW q \in Seq(S), NEW x \in S, Distinct(q), x \notin ElementsOf(q)
  PROVE  Distinct(Append(q, x))
<1> DEFINE r == Append(q, x)
<1>1. /\ Len(q) \in Nat
      /\ DOMAIN r = 1 .. Len(q) + 1 /\ DOMAIN q = 1 .. Len(q)
      /\ \A i \in 1 .. Len(q) : r[i] = q[i]
      /\ r[Len(q) + 1] = x
  OBVIOUS
<1>2. \A i \in 1 .. Len(q) : r[i] # x
  BY <1>1 DEF ElementsOf
<1> QED BY <1>1, <1>2 DEF Distinct

\* A receive takes the first element, and only that one, out.
LEMMA ReceiveElements ==
  ASSUME NEW S, NEW q \in Seq(S), q # <<>>, Distinct(q)
  PROVE  /\ Head(q) \in S
         /\ Tail(q) \in Seq(S)
         /\ Len(Tail(q)) = Len(q) - 1
         /\ Distinct(Tail(q))
         /\ Head(q) \notin ElementsOf(Tail(q))
         /\ ElementsOf(q) = ElementsOf(Tail(q)) \cup {Head(q)}
<1> DEFINE r == Tail(q)
<1>1. /\ Len(q) \in Nat \ {0} /\ Head(q) \in S /\ r \in Seq(S)
      /\ Len(r) = Len(q) - 1
      /\ DOMAIN r = 1 .. Len(q) - 1 /\ DOMAIN q = 1 .. Len(q)
      /\ Head(q) = q[1]
      /\ \A i \in 1 .. Len(q) - 1 : r[i] = q[i + 1]
  OBVIOUS
<1>2. Distinct(r)
  BY <1>1 DEF Distinct
<1>3. Head(q) \notin ElementsOf(r)
  BY <1>1 DEF Distinct, ElementsOf
<1>4. ElementsOf(r) \subseteq ElementsOf(q)
  BY <1>1 DEF ElementsOf
<1>5. Head(q) \in ElementsOf(q)
  BY <1>1 DEF ElementsOf
<1>6. ASSUME NEW i \in DOMAIN q PROVE q[i] \in ElementsOf(r) \cup {Head(q)}
  <2>1. CASE i = 1
    BY <1>1, <2>1
  <2>2. CASE i # 1
    <3>1. i - 1 \in DOMAIN r /\ r[i - 1] = q[i]
      BY <1>1, <2>2
    <3> QED BY <3>1 DEF ElementsOf
  <2> QED BY <2>1, <2>2
<1>7. ElementsOf(q) \subseteq ElementsOf(r) \cup {Head(q)}
  BY <1>6 DEF ElementsOf
<1> QED BY <1>1, <1>2, <1>3, <1>4, <1>5, <1>7

-----------------------------------------------------------------------------
(* Types, and where an exchange is in hand                                 *)

\* A server has no exchange before begin and one while it is in submit; the
\* worker has one between its receive and its discard.
HoldOK ==
  /\ \A s \in Servers : pc[s] = "idle" => plugin[s] = NoExchange
  /\ \A s \in Servers : pc[s] \in {"submit", "send", "drop"} => plugin[s] # NoExchange
  /\ worker \in {"wait", "stopped"} <=> job = NoExchange

TypeInv == TypeOK /\ HoldOK

\* discard gives one slot back or none, and releases nothing else.
LEMMA DiscardEffect ==
  ASSUME TypeOK, NEW e \in Exchanges \cup {NoExchange}, discard(e)
  PROVE  slots' \in 0 .. Limit /\ live' = live \ {e} /\ live' \subseteq Exchanges
BY PluginAssumption DEF discard, TypeOK

\* Init establishes the types.
LEMMA TypeInit == Init => TypeInv
<1> SUFFICES ASSUME Init PROVE TypeInv
  OBVIOUS
<1>1. slots \in 0 .. Limit /\ jobs \in Seq(Exchanges) /\ Len(jobs) <= Limit
  BY PluginAssumption DEF Init
<1>2. jobsOpen \in BOOLEAN /\ closed \in BOOLEAN
  BY DEF Init
<1>3. /\ live \subseteq Exchanges
      /\ plugin \in [Servers -> Exchanges \cup {NoExchange}]
      /\ pc \in [Servers -> ServerPC]
      /\ worker \in WorkerPC
      /\ job \in Exchanges \cup {NoExchange}
      /\ main \in MainPC
  BY DEF Init, ServerPC, WorkerPC, MainPC
<1>4. HoldOK
  BY DEF Init, HoldOK
<1> QED BY <1>1, <1>2, <1>3, <1>4 DEF TypeInv, TypeOK

\* Every step keeps the types.
LEMMA TypeStep == ASSUME TypeInv, [Next]_vars PROVE TypeInv'
<1> USE PluginAssumption DEF TypeInv, TypeOK, HoldOK
<1>1. ASSUME NEW s \in Servers, NEW e \in Exchanges, Begin(s, e) PROVE TypeInv'
  <2>1. e # NoExchange
    OBVIOUS
  <2> QED BY <1>1, <2>1 DEF Begin, ServerPC
<1>2. ASSUME NEW s \in Servers, BeginNil(s) \/ StartOver(s) \/ RequestOver(s)
      PROVE  TypeInv'
  BY <1>2 DEF BeginNil, StartOver, RequestOver, ServerPC
<1>3. ASSUME NEW s \in Servers, SubmitLock(s) \/ SubmitCheck(s) \/ SubmitRefuse(s)
      PROVE  TypeInv'
  BY <1>3 DEF SubmitLock, SubmitCheck, SubmitRefuse, ServerPC
<1>4. ASSUME NEW s \in Servers, HeadTooLarge(s) \/ Reset(s) \/ SubmitDrop(s)
      PROVE  TypeInv'
  <2>1. plugin[s] \in Exchanges \cup {NoExchange} /\ discard(plugin[s])
    BY <1>4 DEF HeadTooLarge, Reset, SubmitDrop
  <2>2. slots' \in 0 .. Limit /\ live' \subseteq Exchanges
    BY <2>1, DiscardEffect
  <2>3. /\ plugin' = [plugin EXCEPT ![s] = NoExchange]
        /\ pc' = [pc EXCEPT ![s] = "over"] \/ pc' = [pc EXCEPT ![s] = "idle"]
        /\ UNCHANGED <<jobs, jobsOpen, closed, worker, job, main>>
    BY <1>4 DEF HeadTooLarge, Reset, SubmitDrop
  <2> QED BY <2>2, <2>3 DEF ServerPC
<1>5. ASSUME NEW s \in Servers, SubmitSend(s) PROVE TypeInv'
  <2>1. plugin[s] \in Exchanges
    BY <1>5 DEF SubmitSend
  <2>2. /\ Append(jobs, plugin[s]) \in Seq(Exchanges)
        /\ Len(Append(jobs, plugin[s])) = Len(jobs) + 1
        /\ Len(jobs) \in Nat
    BY <2>1, SendElements
  <2>3. CASE Len(jobs) < Limit
    <3>a. jobs' = Append(jobs, plugin[s])
      BY <1>5, <2>3 DEF SubmitSend
    <3>b. Len(jobs) + 1 <= Limit
      BY <2>2, <2>3
    <3>1. jobs' \in Seq(Exchanges) /\ Len(jobs') <= Limit
      BY <2>2, <3>a, <3>b
    <3> QED BY <1>5, <2>3, <3>1 DEF SubmitSend, ServerPC
  <2>4. CASE ~(Len(jobs) < Limit)
    BY <1>5, <2>4 DEF SubmitSend, ServerPC
  <2> QED BY <2>3, <2>4
<1>6. CASE WorkerReceive
  <2>1. /\ Head(jobs) \in Exchanges /\ Tail(jobs) \in Seq(Exchanges)
        /\ Len(Tail(jobs)) <= Limit
    BY <1>6 DEF WorkerReceive
  <2> QED BY <1>6, <2>1 DEF WorkerReceive, WorkerPC
<1>7. CASE WorkerStore \/ WorkerStop
  BY <1>7 DEF WorkerStore, WorkerStop, WorkerPC
<1>8. CASE WorkerDiscard
  <2>1. slots' \in 0 .. Limit /\ live' \subseteq Exchanges
    BY <1>8, DiscardEffect DEF WorkerDiscard
  <2> QED BY <1>8, <2>1 DEF WorkerDiscard, WorkerPC
<1>9. CASE MainStep
  BY <1>9 DEF MainStep, CloseLock, CloseJobs, Exit, MainPC
<1>10. CASE UNCHANGED vars
  BY <1>10 DEF vars
<1> QED BY <1>1, <1>2, <1>3, <1>4, <1>5, <1>6, <1>7, <1>8, <1>9, <1>10
        DEF Next, ServerStep, WorkerStep, Ended

-----------------------------------------------------------------------------
(* Closing                                                                 *)

\* The channel is closed together with the flag, under the lock and so while
\* no server is between its look at the flag and its send; the worker stops
\* only after it has emptied the closed channel.
CloseOK ==
  /\ ~closed => jobsOpen
  /\ \A s \in Servers : pc[s] = "send" => jobsOpen
  /\ worker = "stopped" => ~jobsOpen /\ jobs = <<>>
  /\ main = "exit" => worker = "stopped"

\* Init establishes CloseOK.
LEMMA CloseInit == Init => CloseOK
BY DEF Init, CloseOK

\* Every step keeps CloseOK.
LEMMA CloseStep == ASSUME TypeInv, CloseOK, [Next]_vars PROVE CloseOK'
<1> USE DEF TypeInv, TypeOK, HoldOK, CloseOK
<1>1. ASSUME NEW s \in Servers, NEW e \in Exchanges, Begin(s, e) PROVE CloseOK'
  BY <1>1 DEF Begin
<1>2. ASSUME NEW s \in Servers, BeginNil(s) \/ StartOver(s) \/ RequestOver(s)
      PROVE  CloseOK'
  BY <1>2 DEF BeginNil, StartOver, RequestOver
<1>3. ASSUME NEW s \in Servers, SubmitLock(s) \/ SubmitCheck(s) \/ SubmitRefuse(s)
      PROVE  CloseOK'
  BY <1>3 DEF SubmitLock, SubmitCheck, SubmitRefuse
<1>4. ASSUME NEW s \in Servers, HeadTooLarge(s) \/ Reset(s) \/ SubmitDrop(s)
      PROVE  CloseOK'
  BY <1>4 DEF HeadTooLarge, Reset, SubmitDrop
<1>5. ASSUME NEW s \in Servers, SubmitSend(s) PROVE CloseOK'
  BY <1>5 DEF SubmitSend
<1>6. CASE WorkerReceive
  BY <1>6 DEF WorkerReceive
<1>7. CASE WorkerStore \/ WorkerStop \/ WorkerDiscard
  BY <1>7 DEF WorkerStore, WorkerStop, WorkerDiscard, Running
<1>8. CASE CloseLock \/ Exit
  BY <1>8 DEF CloseLock, Exit
<1>9. CASE CloseJobs
  <2>1. \A s \in Servers : pc[s] # "send"
    BY <1>9 DEF CloseJobs, Readers
  <2> QED BY <1>9, <2>1 DEF CloseJobs
<1>10. CASE UNCHANGED vars
  BY <1>10 DEF vars
<1> QED BY <1>1, <1>2, <1>3, <1>4, <1>5, <1>6, <1>7, <1>8, <1>9, <1>10
        DEF Next, ServerStep, WorkerStep, MainStep, Ended

\* For every number of servers and slots, no server sends to the closed jobs
\* channel (submit and close exclude each other by the lock).
THEOREM NeverSendsOnClosed == Spec => []NoSendOnClosed
<1>1. Init => TypeInv /\ CloseOK
  BY TypeInit, CloseInit
<1>2. TypeInv /\ CloseOK /\ [Next]_vars => (TypeInv /\ CloseOK)'
  BY TypeStep, CloseStep
<1>3. CloseOK => NoSendOnClosed
  BY DEF CloseOK, NoSendOnClosed
<1> QED BY <1>1, <1>2, <1>3, PTL DEF Spec

\* When close has returned, the worker has taken every record from the queue
\* and is done with it.
THEOREM DrainsBeforeExit == Spec => []DrainedAtExit
<1>1. Init => TypeInv /\ CloseOK
  BY TypeInit, CloseInit
<1>2. TypeInv /\ CloseOK /\ [Next]_vars => (TypeInv /\ CloseOK)'
  BY TypeStep, CloseStep
<1>3. TypeInv /\ CloseOK => DrainedAtExit
  BY DEF TypeInv, HoldOK, CloseOK, DrainedAtExit
<1> QED BY <1>1, <1>2, <1>3, PTL DEF Spec

\* The counters, queue and program counters keep their types.
THEOREM TypesKept == Spec => []TypeOK
<1>1. TypeInv /\ [Next]_vars => TypeInv'
  BY TypeStep
<1>2. TypeInv => TypeOK
  BY DEF TypeInv
<1> QED BY TypeInit, <1>1, <1>2, PTL DEF Spec

-----------------------------------------------------------------------------
(* One holder                                                              *)

Holds(q, p, j) ==
  (ElementsOf(q) \cup {j} \cup {p[s] : s \in Servers}) \ {NoExchange}

\* OneHolder for a queue q, servers' exchanges p and worker's exchange j, with
\* the exchanges l not released.
Owned(q, p, j, l) ==
  /\ Distinct(q)
  /\ \A s, t \in Servers : p[s] = p[t] /\ p[s] # NoExchange => s = t
  /\ \A s \in Servers : p[s] \notin ElementsOf(q)
  /\ j \notin ElementsOf(q)
  /\ \A s \in Servers : p[s] = j => j = NoExchange
  /\ l = Holds(q, p, j)

\* OneHolder is Owned of the variables.
LEMMA OwnedIsOneHolder == OneHolder <=> Owned(jobs, plugin, job, live)
BY DEF OneHolder, Owned, Holds, ElementsOf, Distinct, InQueue

\* A server gets an exchange that nothing refers to.
LEMMA OwnedBegin ==
  ASSUME TypeOK, Owned(jobs, plugin, job, live),
         NEW s \in Servers, NEW e \in Exchanges,
         plugin[s] = NoExchange, ~Referenced(e)
  PROVE  Owned(jobs, [plugin EXCEPT ![s] = e], job, live \cup {e})
<1> DEFINE p == [plugin EXCEPT ![s] = e]
<1>1. e \notin ElementsOf(jobs) /\ e # job /\ \A t \in Servers : plugin[t] # e
  BY DEF Referenced, InQueue, ElementsOf
<1>2. p[s] = e /\ \A t \in Servers \ {s} : p[t] = plugin[t]
  BY DEF TypeOK
<1>3. e # NoExchange
  BY PluginAssumption
<1>4. \A t, u \in Servers : p[t] = p[u] /\ p[t] # NoExchange => t = u
  BY <1>1, <1>2 DEF Owned
<1>5. \A t \in Servers : p[t] \notin ElementsOf(jobs) /\ (p[t] = job => job = NoExchange)
  BY <1>1, <1>2 DEF Owned
<1>6. Holds(jobs, p, job) = Holds(jobs, plugin, job) \cup {e}
  BY <1>2, <1>3 DEF Holds
<1> QED BY <1>4, <1>5, <1>6 DEF Owned

\* A server discards its exchange, if it has one.
LEMMA OwnedRelease ==
  ASSUME TypeOK, Owned(jobs, plugin, job, live), NEW s \in Servers
  PROVE  Owned(jobs, [plugin EXCEPT ![s] = NoExchange], job, live \ {plugin[s]})
<1> DEFINE p == [plugin EXCEPT ![s] = NoExchange]
<1>1. p[s] = NoExchange /\ \A t \in Servers \ {s} : p[t] = plugin[t]
  BY DEF TypeOK
<1>2. NoExchange \notin ElementsOf(jobs)
  BY PluginAssumption DEF TypeOK, ElementsOf
<1>3. \A t, u \in Servers : p[t] = p[u] /\ p[t] # NoExchange => t = u
  BY <1>1 DEF Owned
<1>4. \A t \in Servers : p[t] \notin ElementsOf(jobs) /\ (p[t] = job => job = NoExchange)
  BY <1>1, <1>2 DEF Owned
<1>5. Holds(jobs, p, job) = Holds(jobs, plugin, job) \ {plugin[s]}
  BY <1>1 DEF Holds, Owned
<1> QED BY <1>3, <1>4, <1>5 DEF Owned

\* A server's exchange goes into the queue.
LEMMA OwnedSend ==
  ASSUME TypeOK, Owned(jobs, plugin, job, live),
         NEW s \in Servers, plugin[s] # NoExchange
  PROVE  Owned(Append(jobs, plugin[s]), [plugin EXCEPT ![s] = NoExchange], job, live)
<1> DEFINE p == [plugin EXCEPT ![s] = NoExchange]
           e == plugin[s]
           q == Append(jobs, e)
<1>1. p[s] = NoExchange /\ \A t \in Servers \ {s} : p[t] = plugin[t]
  BY DEF TypeOK
<1>2. e \in Exchanges /\ e \notin ElementsOf(jobs) /\ e # job
  BY DEF TypeOK, Owned
<1>3. ElementsOf(q) = ElementsOf(jobs) \cup {e} /\ Distinct(q)
  BY <1>2, SendElements, SendDistinct DEF TypeOK, Owned
<1>4. NoExchange \notin ElementsOf(q)
  <2>1. NoExchange \notin ElementsOf(jobs)
    BY PluginAssumption DEF TypeOK, ElementsOf
  <2> QED BY <1>3, <2>1
<1>5. \A t, u \in Servers : p[t] = p[u] /\ p[t] # NoExchange => t = u
  BY <1>1 DEF Owned
<1>6. \A t \in Servers : p[t] \notin ElementsOf(q) /\ (p[t] = job => job = NoExchange)
  BY <1>1, <1>3, <1>4 DEF Owned
<1>7. job \notin ElementsOf(q)
  BY <1>2, <1>3 DEF Owned
<1>8. Holds(q, p, job) = Holds(jobs, plugin, job)
  BY <1>1, <1>3 DEF Holds
<1> HIDE DEF p, q
<1> QED BY <1>3, <1>5, <1>6, <1>7, <1>8 DEF Owned, p, q

\* The worker takes the first exchange of the queue.
LEMMA OwnedReceive ==
  ASSUME TypeOK, Owned(jobs, plugin, job, live), jobs # <<>>, job = NoExchange
  PROVE  Owned(Tail(jobs), plugin, Head(jobs), live)
<1>1. /\ Distinct(Tail(jobs))
      /\ Head(jobs) \notin ElementsOf(Tail(jobs))
      /\ ElementsOf(jobs) = ElementsOf(Tail(jobs)) \cup {Head(jobs)}
      /\ Head(jobs) \in Exchanges
  BY ReceiveElements DEF TypeOK, Owned
<1>2. Holds(Tail(jobs), plugin, Head(jobs)) = Holds(jobs, plugin, job)
  BY <1>1 DEF Holds
<1> QED BY <1>1, <1>2 DEF Owned

\* The worker discards its exchange.
LEMMA OwnedDone ==
  ASSUME TypeOK, Owned(jobs, plugin, job, live)
  PROVE  Owned(jobs, plugin, NoExchange, live \ {job})
<1>1. NoExchange \notin ElementsOf(jobs)
  BY PluginAssumption DEF TypeOK, ElementsOf
<1>2. Holds(jobs, plugin, NoExchange) = Holds(jobs, plugin, job) \ {job}
  BY DEF Holds, Owned
<1> QED BY <1>1, <1>2 DEF Owned

\* Every step keeps OneHolder.
LEMMA HolderStep == ASSUME TypeInv, OneHolder, [Next]_vars PROVE OneHolder'
<1> USE DEF TypeInv
<1> DEFINE O == Owned(jobs, plugin, job, live)
<1>0. O
  BY OwnedIsOneHolder
<1>a. OneHolder' <=> O'
  BY OwnedIsOneHolder, PTL
<1> SUFFICES O'
  BY <1>a
<1>1. ASSUME NEW s \in Servers, NEW e \in Exchanges, Begin(s, e) PROVE O'
  BY <1>0, <1>1, OwnedBegin DEF Begin, HoldOK
<1>2. ASSUME UNCHANGED <<jobs, plugin, job, live>> PROVE O'
  BY <1>0, <1>2
<1>3. ASSUME NEW s \in Servers, HeadTooLarge(s) \/ Reset(s) \/ SubmitDrop(s)
      PROVE  O'
  <2>1. /\ plugin[s] \in Exchanges \cup {NoExchange} /\ discard(plugin[s])
        /\ plugin' = [plugin EXCEPT ![s] = NoExchange]
        /\ jobs' = jobs /\ job' = job
    BY <1>3 DEF HeadTooLarge, Reset, SubmitDrop, TypeOK
  <2>2. live' = live \ {plugin[s]}
    BY <2>1, DiscardEffect
  <2> QED BY <1>0, <2>1, <2>2, OwnedRelease
<1>4. ASSUME NEW s \in Servers, SubmitSend(s) PROVE O'
  <2>1. CASE Len(jobs) < Limit
    BY <1>0, <1>4, <2>1, OwnedSend DEF SubmitSend, HoldOK
  <2>2. CASE ~(Len(jobs) < Limit)
    BY <1>2, <1>4, <2>2 DEF SubmitSend
  <2> QED BY <2>1, <2>2
<1>5. CASE WorkerReceive
  BY <1>0, <1>5, OwnedReceive DEF WorkerReceive, HoldOK
<1>6. CASE WorkerDiscard
  <2>1. live' = live \ {job}
    BY <1>6, DiscardEffect DEF WorkerDiscard, TypeOK
  <2> QED BY <1>0, <1>6, <2>1, OwnedDone DEF WorkerDiscard
<1>7. ASSUME NEW s \in Servers,
             BeginNil(s) \/ StartOver(s) \/ RequestOver(s) \/ SubmitLock(s)
               \/ SubmitCheck(s) \/ SubmitRefuse(s)
      PROVE  O'
  BY <1>2, <1>7 DEF BeginNil, StartOver, RequestOver, SubmitLock, SubmitCheck,
                    SubmitRefuse
<1>8. CASE WorkerStore \/ WorkerStop \/ MainStep \/ UNCHANGED vars
  BY <1>2, <1>8 DEF WorkerStore, WorkerStop, MainStep, CloseLock, CloseJobs,
                    Exit, vars
<1> HIDE DEF O
<1> QED BY <1>1, <1>3, <1>4, <1>5, <1>6, <1>7, <1>8
        DEF Next, ServerStep, WorkerStep, Ended

\* For every number of servers, exchanges and slots: an exchange that begin has
\* returned has one holder until it is discarded, once, by that holder.
THEOREM SingleHolder == Spec => []OneHolder
<1>1. Init => TypeInv /\ OneHolder
  <2> SUFFICES ASSUME Init PROVE OneHolder
    BY TypeInit
  <2> QED BY DEF Init, OneHolder, InQueue
<1>2. TypeInv /\ OneHolder /\ [Next]_vars => (TypeInv /\ OneHolder)'
  BY TypeStep, HolderStep
<1> QED BY <1>1, <1>2, PTL DEF Spec

-----------------------------------------------------------------------------
(* Slots                                                                   *)

Holding == {s \in Servers : plugin[s] # NoExchange}
InWork == IF job = NoExchange THEN 0 ELSE 1
SlotsOK == IsFiniteSet(Holding) /\ slots = Len(jobs) + Cardinality(Holding) + InWork

\* A server that gets an exchange is one more.
LEMMA HoldingMore ==
  ASSUME NEW s \in Servers, IsFiniteSet(Holding), s \notin Holding,
         Holding' = Holding \cup {s}
  PROVE  IsFiniteSet(Holding') /\ Cardinality(Holding') = Cardinality(Holding) + 1
BY FS_AddElement

\* A server that gives its exchange away is one less.
LEMMA HoldingLess ==
  ASSUME NEW s \in Servers, IsFiniteSet(Holding), s \in Holding,
         Holding' = Holding \ {s}
  PROVE  IsFiniteSet(Holding') /\ Cardinality(Holding') = Cardinality(Holding) - 1
BY FS_RemoveElement

\* Init establishes SlotsOK.
LEMMA SlotsInit == ASSUME Init PROVE SlotsOK
<1>1. Holding = {} /\ InWork = 0 /\ slots = 0 /\ Len(jobs) = 0
  BY DEF Init, Holding, InWork
<1>2. IsFiniteSet(Holding) /\ Cardinality(Holding) = 0
  BY <1>1, FS_EmptySet
<1> QED BY <1>1, <1>2 DEF SlotsOK

\* Every step keeps SlotsOK.
LEMMA SlotsStep == ASSUME TypeInv, OneHolder, SlotsOK, [Next]_vars PROVE SlotsOK'
<1> USE DEF TypeInv
<1>0. /\ Len(jobs) \in Nat /\ Cardinality(Holding) \in Nat /\ slots \in Nat
      /\ IsFiniteSet(Holding) /\ slots = Len(jobs) + Cardinality(Holding) + InWork
  BY FS_CardinalityType DEF SlotsOK, TypeOK
<1>1. ASSUME NEW s \in Servers, NEW e \in Exchanges, Begin(s, e) PROVE SlotsOK'
  <2>1. /\ slots' = slots + 1 /\ jobs' = jobs /\ job' = job
        /\ plugin' = [plugin EXCEPT ![s] = e] /\ plugin[s] = NoExchange
    BY <1>1 DEF Begin, HoldOK
  <2>2. s \notin Holding /\ Holding' = Holding \cup {s}
    BY <2>1, PluginAssumption DEF Holding, TypeOK
  <2>3. IsFiniteSet(Holding') /\ Cardinality(Holding') = Cardinality(Holding) + 1
    BY <1>0, <2>2, HoldingMore
  <2>4. Len(jobs') = Len(jobs) /\ InWork' = InWork /\ InWork \in Nat
    BY <2>1 DEF InWork
  <2> QED BY <1>0, <2>1, <2>3, <2>4 DEF SlotsOK
<1>2. ASSUME UNCHANGED <<slots, jobs, plugin, job>> PROVE SlotsOK'
  BY <1>2 DEF SlotsOK, Holding, InWork
<1>3. ASSUME NEW s \in Servers, HeadTooLarge(s) \/ Reset(s) \/ SubmitDrop(s)
      PROVE  SlotsOK'
  <2>1. /\ discard(plugin[s]) /\ jobs' = jobs /\ job' = job
        /\ plugin' = [plugin EXCEPT ![s] = NoExchange]
    BY <1>3 DEF HeadTooLarge, Reset, SubmitDrop
  <2>2. Len(jobs') = Len(jobs) /\ InWork' = InWork /\ InWork \in Nat
    BY <2>1 DEF InWork
  <2>3. CASE plugin[s] = NoExchange
    <3>1. plugin[s] \notin live
      BY <2>3, PluginAssumption DEF TypeOK
    <3>2. slots' = slots
      BY <2>1, <3>1 DEF discard
    <3>3. Holding' = Holding
      BY <2>1, <2>3 DEF Holding, TypeOK
    <3> QED BY <1>0, <2>2, <3>2, <3>3 DEF SlotsOK
  <2>4. CASE plugin[s] # NoExchange
    <3>1. plugin[s] \in live
      BY <2>4 DEF OneHolder
    <3>2. slots' = slots - 1
      BY <2>1, <3>1 DEF discard
    <3>3. s \in Holding /\ Holding' = Holding \ {s}
      BY <2>1, <2>4 DEF Holding, TypeOK
    <3>4. IsFiniteSet(Holding') /\ Cardinality(Holding') = Cardinality(Holding) - 1
      BY <1>0, <3>3, HoldingLess
    <3> QED BY <1>0, <2>2, <3>2, <3>4 DEF SlotsOK
  <2> QED BY <2>3, <2>4
<1>4. ASSUME NEW s \in Servers, SubmitSend(s) PROVE SlotsOK'
  <2>1. CASE Len(jobs) < Limit
    <3>1. /\ slots' = slots /\ jobs' = Append(jobs, plugin[s]) /\ job' = job
          /\ plugin' = [plugin EXCEPT ![s] = NoExchange] /\ plugin[s] # NoExchange
      BY <1>4, <2>1 DEF SubmitSend, HoldOK
    <3>2. Len(jobs') = Len(jobs) + 1
      BY <3>1, SendElements DEF TypeOK
    <3>3. s \in Holding /\ Holding' = Holding \ {s}
      BY <3>1 DEF Holding, TypeOK
    <3>4. IsFiniteSet(Holding') /\ Cardinality(Holding') = Cardinality(Holding) - 1
      BY <1>0, <3>3, HoldingLess
    <3>5. InWork' = InWork /\ InWork \in Nat
      BY <3>1 DEF InWork
    <3> QED BY <1>0, <3>1, <3>2, <3>4, <3>5 DEF SlotsOK
  <2>2. CASE ~(Len(jobs) < Limit)
    BY <1>2, <1>4, <2>2 DEF SubmitSend
  <2> QED BY <2>1, <2>2
<1>5. CASE WorkerReceive
  <2>1. /\ slots' = slots /\ plugin' = plugin /\ jobs # <<>>
        /\ job = NoExchange /\ job' = Head(jobs) /\ jobs' = Tail(jobs)
    BY <1>5 DEF WorkerReceive, HoldOK
  <2>2. Head(jobs) \in Exchanges /\ Len(Tail(jobs)) = Len(jobs) - 1
    BY <2>1 DEF TypeOK
  <2>3. InWork = 0 /\ InWork' = 1 /\ Holding' = Holding
    BY <2>1, <2>2, PluginAssumption DEF InWork, Holding
  <2> QED BY <1>0, <2>1, <2>2, <2>3 DEF SlotsOK
<1>6. CASE WorkerDiscard
  <2>1. /\ discard(job) /\ plugin' = plugin /\ jobs' = jobs
        /\ job # NoExchange /\ job' = NoExchange
    BY <1>6 DEF WorkerDiscard, HoldOK
  <2>2. job \in live
    BY <2>1 DEF OneHolder
  <2>3. slots' = slots - 1
    BY <2>1, <2>2 DEF discard
  <2>4. InWork = 1 /\ InWork' = 0 /\ Holding' = Holding /\ Len(jobs') = Len(jobs)
    BY <2>1 DEF InWork, Holding
  <2> QED BY <1>0, <2>3, <2>4 DEF SlotsOK
<1>7. ASSUME NEW s \in Servers,
             BeginNil(s) \/ StartOver(s) \/ RequestOver(s) \/ SubmitLock(s)
               \/ SubmitCheck(s) \/ SubmitRefuse(s)
      PROVE  SlotsOK'
  BY <1>2, <1>7 DEF BeginNil, StartOver, RequestOver, SubmitLock, SubmitCheck,
                    SubmitRefuse
<1>8. CASE WorkerStore \/ WorkerStop \/ MainStep \/ UNCHANGED vars
  BY <1>2, <1>8 DEF WorkerStore, WorkerStop, MainStep, CloseLock, CloseJobs,
                    Exit, vars
<1> QED BY <1>1, <1>3, <1>4, <1>5, <1>6, <1>7, <1>8
        DEF Next, ServerStep, WorkerStep, Ended

\* The invariant of the whole writer.
QueueInv == TypeInv /\ OneHolder /\ SlotsOK

\* QueueInv holds in every state.
LEMMA QueueInvHolds == Spec => []QueueInv
<1>1. Init => QueueInv
  <2> SUFFICES ASSUME Init PROVE QueueInv
    OBVIOUS
  <2>1. OneHolder
    BY DEF Init, OneHolder, InQueue
  <2> QED BY <2>1, TypeInit, SlotsInit DEF QueueInv
<1>2. QueueInv /\ [Next]_vars => QueueInv'
  BY TypeStep, HolderStep, SlotsStep DEF QueueInv
<1> QED BY <1>1, <1>2, PTL DEF Spec

\* For every number of servers and every limit: the taken slots are the
\* exchanges that a server, the queue or the worker still has to give back.
THEOREM SlotsBalance == Spec => []SlotsConserved
<1>1. QueueInv => SlotsConserved
  BY DEF QueueInv, SlotsOK, SlotsConserved, Holding, InWork
<1> QED BY <1>1, QueueInvHolds, PTL

\* A record that got a slot in begin always finds room in the jobs channel,
\* whose capacity is the number of slots.
THEOREM QueueNeverFull == Spec => []QueueHasRoom
<1>1. ASSUME QueueInv, NEW s \in Servers, pc[s] = "send" PROVE Len(jobs) < Limit
  <2>1. s \in Holding
    BY <1>1 DEF QueueInv, TypeInv, HoldOK, Holding
  <2>2. IsFiniteSet(Holding) /\ slots = Len(jobs) + Cardinality(Holding) + InWork
        /\ slots \in 0 .. Limit /\ Len(jobs) \in Nat
    BY <1>1 DEF QueueInv, SlotsOK, TypeInv, TypeOK
  <2>3. Cardinality(Holding) \in Nat /\ Cardinality(Holding) # 0
    BY <2>1, <2>2, FS_CardinalityType, FS_EmptySet
  <2>4. InWork \in Nat
    BY DEF InWork
  <2> QED BY <2>2, <2>3, <2>4, PluginAssumption
<1>2. QueueInv => QueueHasRoom
  BY <1>1 DEF QueueHasRoom
<1> QED BY <1>2, QueueInvHolds, PTL
=============================================================================
