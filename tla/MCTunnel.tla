------------------------------ MODULE MCTunnel ------------------------------
(* Settings for model checking Tunnel.                                     *)
EXTENDS Tunnel

Base == [front |-> "http", parent |-> "raw", class |-> "dynamic", units |-> 2,
         early |-> 0, replies |-> 2, bufUnits |-> 2, watchdog |-> FALSE,
         detectSSL |-> FALSE, maxExpire |-> 0]

\* Both fronts and kinds of parent; a buffer that fills; units that come with
\* the request; a watchdog; a block that runs out between two tries.
AllSettings ==
  {[Base EXCEPT !.units = 3],
   [Base EXCEPT !.parent = "http", !.units = 1],
   [Base EXCEPT !.parent = "http", !.units = 1, !.replies = 1, !.early = 1],
   [Base EXCEPT !.bufUnits = 1],
   [Base EXCEPT !.units = 1, !.replies = 1, !.watchdog = TRUE],
   [Base EXCEPT !.maxExpire = 3, !.units = 1, !.replies = 1],
   [Base EXCEPT !.maxExpire = 1, !.units = 1, !.replies = 1, !.early = 1],
   [Base EXCEPT !.front = "socks", !.detectSSL = TRUE],
   [Base EXCEPT !.front = "socks", !.parent = "http", !.class = "alwaysBlocked"],
   [Base EXCEPT !.parent = "none", !.watchdog = TRUE]}

LeakSettings == {Base}
=============================================================================
