---------------------------- MODULE MCParentPool ----------------------------
(* Settings for model checking ParentPool.                                 *)
EXTENDS ParentPool

Base == [strategy |-> "backup", parents |-> <<"s1", "s2">>, http |-> {},
         lats |-> {1}, flips |-> 1, calls |-> [r \in Requests |-> 1]]
Alone == [r \in Requests |-> IF r = CHOOSE q \in Requests : TRUE THEN 1 ELSE 0]

\* Every strategy with parents of one kind; HTTP parents around another one,
\* with latencies that differ and with two requests that probe at once; the
\* latency strategy with an HTTP parent; a single parent.
AllSettings ==
  {[Base EXCEPT !.calls = [r \in Requests |-> 2]],
   [Base EXCEPT !.strategy = "hash"],
   [Base EXCEPT !.strategy = "latency", !.lats = {1, 2}, !.calls = Alone],
   [Base EXCEPT !.parents = <<"h1", "s1", "h2">>, !.http = {"h1", "h2"},
                !.lats = {1, 2}, !.calls = Alone],
   [Base EXCEPT !.parents = <<"h1", "s1">>, !.http = {"h1"}],
   [Base EXCEPT !.strategy = "latency", !.parents = <<"s1", "h1">>,
                !.http = {"h1"}, !.calls = Alone, !.flips = 0],
   [Base EXCEPT !.strategy = "latency", !.parents = <<"s1">>]}

RaceSettings == {[Base EXCEPT !.strategy = "latency"]}
=============================================================================
