----------------------------- MODULE MCConnPool -----------------------------
(***************************************************************************)
(* Instances of ConnPool for TLC.  A connection is a model value whose     *)
(* hostPort and type are fixed by the two tables below.                    *)
(***************************************************************************)
EXTENDS ConnPoolRefines, TLC

CONSTANTS h1, h2, d1, d2, e1, m1, w1

\* d1, d2: to h1; e1: to h2; m1: through an http parent; w1: through a cow.
HostPortTable == [sv \in Conns |-> IF sv = e1 THEN h2 ELSE h1]
KindTable == [sv \in Conns |->
    IF sv = m1 THEN "httpConn" ELSE IF sv = w1 THEN "cowConn" ELSE "directConn"]

ChanSymmetry == Permutations(SiteChans)
ClientSymmetry == Permutations(SiteChans) \cup Permutations(Clients)
=============================================================================
