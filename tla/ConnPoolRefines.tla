-------------------------- MODULE ConnPoolRefines --------------------------
(***************************************************************************)
(* ConnPool implements IdlePool: the pool's idle connections are those in  *)
(* channels that a goroutine looks after and those that a cleanup goroutine *)
(* has taken out to look at.                                               *)
(***************************************************************************)
EXTENDS ConnPool

CONSTANTS Closed, Idle, Lost

ASSUME OwnerAssumption == {Closed, Idle, Lost} \cap Clients = {}

\* An open connection in a channel that nobody looks after any more, or in no
\* place at all, is lost; IdlePool has no such state.
Owner(sv) ==
    IF \E c \in Clients : hand[c] = sv
      THEN IF sv \in open THEN CHOOSE c \in Clients : hand[c] = sv ELSE Lost
      ELSE IF sv \notin open THEN Closed
      ELSE IF \/ \E ch \in Chans : hand[ch] = sv
              \/ \E ch \in Chans : Supervised(ch) /\ \E i \in Slots(ch) : queue[ch][i] = sv
             THEN Idle
             ELSE Lost

\* A connection made for the request's hostPort, or one to a parent that takes
\* requests for every host, which direct sites use only with AlwaysProxy.
CanServe(sv, h, d) == HostPort[sv] = h \/ (IsMux(sv) /\ (d => AlwaysProxy))

Pool == INSTANCE IdlePool WITH owner <- [sv \in Conns |-> Owner(sv)]

\* Whatever the channels, the map, the cleanup goroutines and CloseAll do, a
\* client sees a set of idle connections: Get takes one that can serve the
\* request and that nobody else has, Put gives it back or closes it, and one
\* that is neither used nor idle is closed.
ImplementsIdlePool == Pool!Spec
=============================================================================
