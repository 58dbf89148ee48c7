---------------------------- MODULE PluginQueue ----------------------------
(***************************************************************************)
(* The writer of HTTP exchanges to a database, src/plugin.go, with the     *)
(* goroutines that serve clients (src/proxy.go, doRequest and              *)
(* readResponse), the worker that stores the records and main, which       *)
(* closes the writer before the process ends.                              *)
(*                                                                         *)
(* An exchange that is being recorded holds a slot from begin until it is  *)
(* discarded, by the goroutine that serves the request or by the worker.   *)
(* The slots are a channel used as a counting semaphore, so that a discard *)
(* too many would block for ever and one too few would use up the slots.   *)
(* The contents of an exchange are left out: whether a body is too large,  *)
(* or a record can be stored, is a choice.                                 *)
(***************************************************************************)
EXTENDS Naturals, Sequences, FiniteSets

CONSTANTS
  Servers,    \* goroutines that serve client connections
  Exchanges,  \* identities of pluginExchange objects
  Limit,      \* pluginPendingLimit
  NoExchange

ASSUME PluginAssumption ==
  /\ Limit \in Nat \ {0}
  /\ NoExchange \notin Exchanges
  /\ IsFiniteSet(Exchanges)

VARIABLES
  slots,     \* number of elements in the channel slots
  jobs,      \* contents of the channel jobs
  jobsOpen,  \* the channel jobs is not closed
  closed,    \* httpPluginWriter.closed
  live,      \* exchanges that begin has returned and nobody has released
  plugin,    \* Request.plugin of each server, or its local variable exchange
  pc,        \* where each server is
  worker,    \* where the worker is
  job,       \* the exchange that the worker has in hand
  main       \* where main is

vars == <<slots, jobs, jobsOpen, closed, live, plugin, pc, worker, job, main>>

ServerPC == {"idle", "serving", "over", "submit", "send", "drop"}
WorkerPC == {"wait", "store", "discard", "stopped"}
MainPC == {"serving", "lock", "wait", "exit"}

-----------------------------------------------------------------------------
\* The servers that hold the read lock; begin and discard take and release
\* theirs in one step.
Readers == {s \in Servers : pc[s] \in {"submit", "send", "drop"}}

\* A waiting Lock keeps new readers out.
CanRLock == main # "lock"

\* Nothing runs any more once main has returned.
Running == main # "exit"

\* pluginExchange.discard: nothing for nil or an exchange released before; the
\* receive from slots blocks while there is nothing to receive.
discard(e) ==
  \/ e \notin live /\ UNCHANGED <<slots, live>>
  \/ /\ e \in live /\ slots > 0
     /\ slots' = slots - 1
     /\ live' = live \ {e}

InQueue == {jobs[i] : i \in DOMAIN jobs}

\* An exchange that some goroutine or the queue still points to.
Referenced(e) == e \in InQueue \cup {job} \cup {plugin[s] : s \in Servers}

-----------------------------------------------------------------------------
(* The goroutines that serve clients                                       *)

\* Mutant: one slot too many.
BeginOneMore(s, e) ==
  /\ Running /\ CanRLock
  /\ pc[s] = "idle"
  /\ ~closed /\ slots <= Limit
  /\ e \notin live /\ ~Referenced(e)
  /\ slots' = slots + 1
  /\ live' = live \cup {e}
  /\ plugin' = [plugin EXCEPT ![s] = e]
  /\ pc' = [pc EXCEPT ![s] = "serving"]
  /\ UNCHANGED <<jobs, jobsOpen, closed, worker, job, main>>

\* begin, called by doRequest for a request that is not a retry: the exchange
\* is recorded if the writer is open and there is a free slot.
Begin(s, e) ==
  /\ Running /\ CanRLock
  /\ pc[s] = "idle"
  /\ ~closed /\ slots < Limit
  /\ e \notin live /\ ~Referenced(e)
  /\ slots' = slots + 1
  /\ live' = live \cup {e}
  /\ plugin' = [plugin EXCEPT ![s] = e]
  /\ pc' = [pc EXCEPT ![s] = "serving"]
  /\ UNCHANGED <<jobs, jobsOpen, closed, worker, job, main>>

\* begin returns nil: the path is another one, the request is too large, all
\* slots are taken or the writer is closed.
BeginNil(s) ==
  /\ Running
  /\ pc[s] = "idle"
  /\ pc' = [pc EXCEPT ![s] = "serving"]
  /\ UNCHANGED <<slots, jobs, jobsOpen, closed, live, plugin, worker, job, main>>

\* A retry that starts its count over calls begin again if nothing is recorded.
StartOver(s) ==
  /\ Running
  /\ pc[s] = "serving" /\ plugin[s] = NoExchange
  /\ pc' = [pc EXCEPT ![s] = "idle"]
  /\ UNCHANGED <<slots, jobs, jobsOpen, closed, live, plugin, worker, job, main>>

\* readResponse finds the response's header too large to record.
HeadTooLarge(s) ==
  /\ Running
  /\ pc[s] = "serving" /\ plugin[s] # NoExchange
  /\ discard(plugin[s])
  /\ plugin' = [plugin EXCEPT ![s] = NoExchange]
  /\ pc' = [pc EXCEPT ![s] = "over"]
  /\ UNCHANGED <<jobs, jobsOpen, closed, worker, job, main>>

\* The request ends without a complete response, or is not recorded.
RequestOver(s) ==
  /\ Running
  /\ pc[s] = "serving"
  /\ pc' = [pc EXCEPT ![s] = "over"]
  /\ UNCHANGED <<slots, jobs, jobsOpen, closed, live, plugin, worker, job, main>>

\* Request.reset for the next request, or the deferred discard of serve.
Reset(s) ==
  /\ Running
  /\ pc[s] = "over"
  /\ discard(plugin[s])
  /\ plugin' = [plugin EXCEPT ![s] = NoExchange]
  /\ pc' = [pc EXCEPT ![s] = "idle"]
  /\ UNCHANGED <<jobs, jobsOpen, closed, worker, job, main>>

\* readResponse gives the exchange away and calls submit, which takes the lock.
SubmitLock(s) ==
  /\ Running /\ CanRLock
  /\ pc[s] = "serving" /\ plugin[s] # NoExchange
  /\ pc' = [pc EXCEPT ![s] = "submit"]
  /\ UNCHANGED <<slots, jobs, jobsOpen, closed, live, plugin, worker, job, main>>

\* submit sees the writer open and both bodies small enough.
SubmitCheck(s) ==
  /\ Running
  /\ pc[s] = "submit" /\ ~closed
  /\ pc' = [pc EXCEPT ![s] = "send"]
  /\ UNCHANGED <<slots, jobs, jobsOpen, closed, live, plugin, worker, job, main>>

\* The exchange is sent to the worker, or discarded when the queue is full.
SubmitSend(s) ==
  /\ Running
  /\ pc[s] = "send" /\ jobsOpen
  /\ IF Len(jobs) < Limit
     THEN /\ jobs' = Append(jobs, plugin[s])
          /\ plugin' = [plugin EXCEPT ![s] = NoExchange]
          /\ pc' = [pc EXCEPT ![s] = "over"]
     ELSE /\ pc' = [pc EXCEPT ![s] = "drop"]
          /\ UNCHANGED <<jobs, plugin>>
  /\ UNCHANGED <<slots, jobsOpen, closed, live, worker, job, main>>

\* Mutant: an exchange that cannot be recorded is not discarded.
SubmitRefuseForgets(s) ==
  /\ Running
  /\ pc[s] = "submit"
  /\ pc' = [pc EXCEPT ![s] = "over"]
  /\ plugin' = [plugin EXCEPT ![s] = NoExchange]
  /\ UNCHANGED <<slots, jobs, jobsOpen, closed, live, worker, job, main>>

\* The writer is closed or a body is too large.
SubmitRefuse(s) ==
  /\ Running
  /\ pc[s] = "submit"
  /\ pc' = [pc EXCEPT ![s] = "drop"]
  /\ UNCHANGED <<slots, jobs, jobsOpen, closed, live, plugin, worker, job, main>>

SubmitDrop(s) ==
  /\ Running
  /\ pc[s] = "drop"
  /\ discard(plugin[s])
  /\ plugin' = [plugin EXCEPT ![s] = NoExchange]
  /\ pc' = [pc EXCEPT ![s] = "over"]
  /\ UNCHANGED <<jobs, jobsOpen, closed, worker, job, main>>

-----------------------------------------------------------------------------
(* The worker: httpPluginWriter.run                                        *)

WorkerReceive ==
  /\ Running
  /\ worker = "wait" /\ jobs # <<>>
  /\ job' = Head(jobs) /\ jobs' = Tail(jobs)
  /\ worker' = "store"
  /\ UNCHANGED <<slots, jobsOpen, closed, live, plugin, pc, main>>

\* store ends, whether the record was written, skipped or refused.
WorkerStore ==
  /\ Running
  /\ worker = "store"
  /\ worker' = "discard"
  /\ UNCHANGED <<slots, jobs, jobsOpen, closed, live, plugin, pc, job, main>>

\* Mutant: the worker forgets to give the slot back.
WorkerDiscardForgets ==
  /\ Running
  /\ worker = "discard"
  /\ worker' = "wait" /\ job' = NoExchange
  /\ UNCHANGED <<slots, jobs, jobsOpen, closed, live, plugin, pc, main>>

WorkerDiscard ==
  /\ Running
  /\ worker = "discard"
  /\ discard(job)
  /\ worker' = "wait" /\ job' = NoExchange
  /\ UNCHANGED <<jobs, jobsOpen, closed, plugin, pc, main>>

\* Mutant: the worker looks at the flag of the writer instead of the channel.
WorkerStopEarly ==
  /\ Running
  /\ worker = "wait" /\ closed
  /\ worker' = "stopped"
  /\ UNCHANGED <<slots, jobs, jobsOpen, closed, live, plugin, pc, job, main>>

\* A closed channel still gives what is in it.
WorkerStop ==
  /\ Running
  /\ worker = "wait" /\ jobs = <<>> /\ ~jobsOpen
  /\ worker' = "stopped"
  /\ UNCHANGED <<slots, jobs, jobsOpen, closed, live, plugin, pc, job, main>>

-----------------------------------------------------------------------------
(* main: the listeners have ended, but servers may still be at work        *)

CloseLock ==
  /\ main = "serving"
  /\ main' = "lock"
  /\ UNCHANGED <<slots, jobs, jobsOpen, closed, live, plugin, pc, worker, job>>

\* Mutant: close does not wait for the readers.
CloseJobsUnlocked ==
  /\ main = "lock"
  /\ jobsOpen' = FALSE
  /\ closed' = TRUE
  /\ main' = "wait"
  /\ UNCHANGED <<slots, jobs, live, plugin, pc, worker, job>>

\* Mutant: the channel is not closed.
CloseJobsOnlyFlag ==
  /\ main = "lock" /\ Readers = {}
  /\ closed' = TRUE
  /\ main' = "wait"
  /\ UNCHANGED <<slots, jobs, jobsOpen, live, plugin, pc, worker, job>>

\* With the write lock held.
CloseJobs ==
  /\ main = "lock" /\ Readers = {}
  /\ jobsOpen' = FALSE
  /\ closed' = TRUE
  /\ main' = "wait"
  /\ UNCHANGED <<slots, jobs, live, plugin, pc, worker, job>>

\* The worker has closed done; main relaunches or ends the process.
Exit ==
  /\ main = "wait" /\ worker = "stopped"
  /\ main' = "exit"
  /\ UNCHANGED <<slots, jobs, jobsOpen, closed, live, plugin, pc, worker, job>>

-----------------------------------------------------------------------------
Init ==
  /\ slots = 0 /\ jobs = <<>> /\ jobsOpen = TRUE /\ closed = FALSE
  /\ live = {}
  /\ plugin = [s \in Servers |-> NoExchange]
  /\ pc = [s \in Servers |-> "idle"]
  /\ worker = "wait" /\ job = NoExchange
  /\ main = "serving"

ServerStep(s) ==
  \/ \E e \in Exchanges : Begin(s, e)
  \/ BeginNil(s) \/ StartOver(s) \/ HeadTooLarge(s) \/ RequestOver(s)
  \/ Reset(s)
  \/ SubmitLock(s) \/ SubmitCheck(s) \/ SubmitSend(s)
  \/ SubmitRefuse(s) \/ SubmitDrop(s)
WorkerStep == WorkerReceive \/ WorkerStore \/ WorkerDiscard \/ WorkerStop
MainStep == CloseLock \/ CloseJobs \/ Exit
Ended == main = "exit" /\ UNCHANGED vars

Next == (\E s \in Servers : ServerStep(s)) \/ WorkerStep \/ MainStep \/ Ended

Spec == Init /\ [][Next]_vars

\* Goroutines that can run do so; nothing makes main quit.
FairSpec ==
  /\ Spec
  /\ \A s \in Servers : WF_vars(ServerStep(s))
  /\ WF_vars(WorkerStep)
  /\ WF_vars(CloseJobs \/ Exit)

-----------------------------------------------------------------------------
(* Properties                                                              *)

TypeOK ==
  /\ slots \in 0 .. Limit
  /\ jobs \in Seq(Exchanges) /\ Len(jobs) <= Limit
  /\ jobsOpen \in BOOLEAN /\ closed \in BOOLEAN
  /\ live \subseteq Exchanges
  /\ plugin \in [Servers -> Exchanges \cup {NoExchange}]
  /\ pc \in [Servers -> ServerPC]
  /\ worker \in WorkerPC
  /\ job \in Exchanges \cup {NoExchange}
  /\ main \in MainPC

\* As many slots are taken as exchanges are held by a server, wait in the queue
\* or are in the worker's hands: whatever path a request takes, no slot is lost
\* for good and none is given back twice, so that discard never blocks.
SlotsConserved ==
  slots = Len(jobs) + Cardinality({s \in Servers : plugin[s] # NoExchange})
            + (IF job = NoExchange THEN 0 ELSE 1)

\* "owned by the proxy until submit, then by the worker": one goroutine, or one
\* place of the queue, can release an exchange (released is not atomic), and
\* what they hold has not been released.
OneHolder ==
  /\ \A i, j \in DOMAIN jobs : jobs[i] = jobs[j] => i = j
  /\ \A s, t \in Servers :
       plugin[s] = plugin[t] /\ plugin[s] # NoExchange => s = t
  /\ \A s \in Servers : plugin[s] \notin InQueue
  /\ job \notin InQueue
  /\ \A s \in Servers : plugin[s] = job => job = NoExchange
  /\ live = (InQueue \cup {job} \cup {plugin[s] : s \in Servers}) \ {NoExchange}

\* The jobs channel has room for every exchange that is submitted: a record
\* that got a slot in begin is never dropped because the queue is full.
QueueHasRoom ==
  \A s \in Servers : pc[s] = "send" => Len(jobs) < Limit

\* No server sends to the closed channel, which would end the process: close
\* waits for the submits that have seen the writer open.
NoSendOnClosed == \A s \in Servers : pc[s] = "send" => jobsOpen

\* "stop admission and drain queued records before exit/relaunch": when main
\* goes on, no submitted record is waiting or half-written.
DrainedAtExit == main = "exit" => jobs = <<>> /\ job = NoExchange

\* close returns: the worker ends although servers are still at work.
CloseReturns == main = "lock" ~> main = "exit"

\* Every slot is given back while the process runs.
SlotsReturned ==
  \A e \in Exchanges : e \in live ~> (e \notin live \/ main = "exit")
=============================================================================
