----------------------------- MODULE MCSiteStat -----------------------------
(* Settings for model checking SiteStat.                                   *)
EXTENDS SiteStat

CONSTANTS r1, r2, r3

Base == [domain |-> [s \in {"a"} |-> "a"], direct |-> {}, blocked |-> {},
         visits |-> [r \in Requests |-> 0], stores |-> 0, crashes |-> 0,
         troubles |-> 0, pac |-> FALSE]
TwoHosts == [s \in {"a", "b.a"} |-> "a"]
Visits(a, b, c) == [r \in Requests |-> CASE r = r1 -> a [] r = r2 -> b [] r = r3 -> c]

\* Three requests that count on one site; two hosts of a domain that is or is
\* not listed, with a PAC file; saves that fail and processes that end, also
\* while two requests count; a network in trouble.
AllSettings ==
  {[Base EXCEPT !.visits = Visits(1, 1, 1)],
   [Base EXCEPT !.domain = TwoHosts, !.visits = Visits(1, 1, 0), !.pac = TRUE],
   [Base EXCEPT !.domain = TwoHosts, !.visits = Visits(1, 1, 0), !.blocked = {"a"}],
   [Base EXCEPT !.domain = TwoHosts, !.visits = Visits(1, 1, 0), !.direct = {"a"},
                !.pac = TRUE],
   [Base EXCEPT !.visits = Visits(1, 0, 0), !.stores = 3, !.crashes = 2],
   [Base EXCEPT !.visits = Visits(1, 1, 0), !.stores = 1, !.crashes = 1],
   [Base EXCEPT !.domain = TwoHosts, !.direct = {"a"}, !.visits = Visits(1, 0, 0),
                !.stores = 2, !.crashes = 1],
   [Base EXCEPT !.visits = Visits(1, 1, 0), !.troubles = 2]}

=============================================================================
