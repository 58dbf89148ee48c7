------------------------------ MODULE MCServe ------------------------------
(* Settings of Serve for TLC: what the client sends, what is known of the  *)
(* site, and what may fail.                                                *)
EXTENDS Serve

\* Two requests without a body, as GET has.
Gets == <<"head", "head">>
\* A request with a body of two units and one without.
PostGet == <<"head", "body", "body", "head">>
\* A request whose body overflows a buffer of two units.
LargePost == <<"head", "body", "body", "body", "head">>

\* The failures after which the client's stream is still in step.
MildFaults == FaultKinds \ {"dial", "serverWrite", "clientClose"}
\* The failures that are not answered by a retry for an always-direct site.
OnceFaults == FaultKinds \ {"serverWrite", "serverEOF"}

\* A site on no list, a parent proxy, an empty pool, and nothing fails.
Plain ==
  [stream |-> PostGet, chunked |-> FALSE, websocket |-> FALSE,
   parents |-> TRUE, alwaysProxy |-> FALSE, class |-> "dynamic",
   bufUnits |-> 2, faults |-> {}, maxHits |-> 0, maxExpire |-> 0]
NoParents == [Plain EXCEPT !.parents = FALSE]
Everything == [Plain EXCEPT !.faults = FaultKinds, !.maxHits = 1, !.maxExpire = 1]

\* Everything may fail; upgrades only where no retry comes before them.
AllSettings ==
  {[Everything EXCEPT !.stream = LargePost, !.maxHits = 2],
   [Everything EXCEPT !.chunked = TRUE, !.bufUnits = 1],
   [Everything EXCEPT !.class = "alwaysBlocked"],
   [Everything EXCEPT !.class = "alwaysDirect"],
   [Everything EXCEPT !.class = "alwaysDirect", !.stream = Gets,
                      !.websocket = TRUE, !.faults = OnceFaults],
   [Everything EXCEPT !.alwaysProxy = TRUE],
   [Everything EXCEPT !.stream = Gets, !.faults = FaultKinds \ {"cutBody"}]}

\* Everything goes through a parent, or the site is found to be blocked, with
\* all failures when no request has a body.
StepSettings ==
  {[Plain EXCEPT !.faults = MildFaults, !.alwaysProxy = TRUE, !.maxHits = 2],
   [Plain EXCEPT !.faults = MildFaults, !.alwaysProxy = TRUE, !.chunked = TRUE],
   [Plain EXCEPT !.faults = MildFaults \ {"serverEOF"}, !.maxExpire = 1, !.maxHits = 1],
   [Plain EXCEPT !.faults = MildFaults, !.alwaysProxy = TRUE, !.parents = FALSE,
                 !.maxHits = 1],
   [Plain EXCEPT !.faults = FaultKinds, !.stream = Gets, !.maxExpire = 2]}

\* A direct site that closes the connection every time.
RereadSettings == {[Plain EXCEPT !.faults = {"serverEOF"}]}
\* Both of them in one run.
ServeSettings == AllSettings \cup StepSettings
=============================================================================
