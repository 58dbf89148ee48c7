------------------------------ MODULE IdlePool ------------------------------
(***************************************************************************)
(* What ConnPool promises to the goroutines that serve clients, without    *)
(* channels, cleanup goroutines or a map: a set of idle connections from   *)
(* which a request may be given one that can serve it, to which a client   *)
(* may give its connection back, and which may lose any idle connection at *)
(* any time, closed.  Nothing else ever happens to a connection.           *)
(***************************************************************************)
EXTENDS Naturals

CONSTANTS
    Hosts, Conns, Clients,
    Closed, Idle,             \* owners of a connection that are not clients
    NoHost,                   \* the client has no request
    CanServe(_, _, _)         \* connection, host, whether the site is direct

VARIABLES
    owner,    \* who has a connection: a client, the pool (Idle) or nobody (Closed)
    want,     \* host of each client's request
    asDirect  \* clients whose request must not go over a shared parent connection

vars == <<owner, want, asDirect>>

Holds(c) == \E sv \in Conns : owner[sv] = c
Move(sv, from, to) == owner[sv] = from /\ owner' = [owner EXCEPT ![sv] = to]
Over(c) == want' = [want EXCEPT ![c] = NoHost] /\ asDirect' = asDirect \ {c}

Init ==
    /\ owner = [sv \in Conns |-> Closed]
    /\ want = [c \in Clients |-> NoHost]
    /\ asDirect = {}

\* A request comes to a client goroutine that has nothing to do.
Ask(c, h, d) ==
    /\ want[c] = NoHost /\ ~Holds(c)
    /\ want' = [want EXCEPT ![c] = h]
    /\ asDirect' = IF d THEN asDirect \cup {c} ELSE asDirect \ {c}
    /\ UNCHANGED owner

\* Get returns an idle connection, one that can serve the request.
Take(c, sv) ==
    /\ want[c] # NoHost /\ ~Holds(c)
    /\ CanServe(sv, want[c], c \in asDirect)
    /\ Move(sv, Idle, c)
    /\ UNCHANGED <<want, asDirect>>

\* Get returns nothing, and a new connection is made or cannot be made.
Make(c, sv) ==
    /\ want[c] # NoHost /\ ~Holds(c)
    /\ CanServe(sv, want[c], FALSE)
    /\ Move(sv, Closed, c)
    /\ UNCHANGED <<want, asDirect>>

GiveUp(c) == want[c] # NoHost /\ ~Holds(c) /\ Over(c) /\ UNCHANGED owner

\* The request is over, and its connection is closed or given to Put.
Discard(c, sv) == want[c] # NoHost /\ Move(sv, c, Closed) /\ Over(c)
Finish(c) == want[c] # NoHost /\ Holds(c) /\ Over(c) /\ UNCHANGED owner

\* Put keeps the connection, or closes it when there are enough.
Put(c, sv) ==
    /\ want[c] = NoHost
    /\ Move(sv, c, Idle) \/ Move(sv, c, Closed)
    /\ UNCHANGED <<want, asDirect>>

\* The pool closes an idle connection, in a cleanup, in CloseAll or because Get
\* finds it too old.
Evict(sv) == Move(sv, Idle, Closed) /\ UNCHANGED <<want, asDirect>>

Next ==
    \/ \E c \in Clients :
         \/ \E h \in Hosts, d \in BOOLEAN : Ask(c, h, d)
         \/ \E sv \in Conns : Take(c, sv) \/ Make(c, sv) \/ Discard(c, sv) \/ Put(c, sv)
         \/ GiveUp(c) \/ Finish(c)
    \/ \E sv \in Conns : Evict(sv)

Spec == Init /\ [][Next]_vars
=============================================================================
