------------------------------- MODULE MCSocks -------------------------------
(* Settings for model checking Socks.                                      *)
EXTENDS Socks

COW == [cow |-> TRUE, first |-> Version, methods |-> <<AuthNone>>,
        version |-> UserPassVersion, user |-> User, passwd |-> Passwd,
        cmd |-> CmdConnect, rsv |-> 0, host |-> "domain"]
COWUser == [COW EXCEPT !.methods = <<AuthUserPass>>, !.host = "ipv6"]
App == [COW EXCEPT !.cow = FALSE, !.methods = <<AuthNone, AuthUserPass>>]
UDP == [App EXCEPT !.methods = <<AuthNone>>, !.cmd = CmdUDPAssociate, !.host = "ipv4"]

Open == [required |-> FALSE, users |-> FALSE, ipAllowed |-> FALSE, portOK |-> TRUE,
         mixed |-> FALSE, local |-> "ipv4", timeout |-> 0, datagrams |-> 0,
         clients |-> <<COW>>]
Closed == [Open EXCEPT !.required = TRUE, !.users = TRUE, !.local = "ipv6"]

\* COW to COW with and without users, wrong credentials, hosts of every kind; the
\* cache of addresses over two connections; malformed requests; a mixed
\* listener; associations with and without an idle timeout.
AllSettings ==
  {Open, Closed,
   [Open EXCEPT !.clients = <<COWUser>>],
   [Open EXCEPT !.clients = <<[COW EXCEPT !.host = "none"]>>],
   [Closed EXCEPT !.ipAllowed = TRUE],
   [Closed EXCEPT !.clients = <<COWUser, COW>>],
   [Closed EXCEPT !.clients = <<[COWUser EXCEPT !.passwd = 81], App>>],
   [Closed EXCEPT !.clients = <<[COWUser EXCEPT !.user = 71], COW>>],
   [Closed EXCEPT !.portOK = FALSE, !.clients = <<COWUser>>],
   [Closed EXCEPT !.clients = <<[App EXCEPT !.version = 2], COW>>],
   [Open EXCEPT !.clients = <<[App EXCEPT !.cmd = 2], [App EXCEPT !.rsv = 1]>>],
   [Open EXCEPT !.clients = <<[App EXCEPT !.host = "other"], [App EXCEPT !.first = 4]>>],
   [Open EXCEPT !.mixed = TRUE, !.clients = <<[App EXCEPT !.first = 71], COW>>],
   [Open EXCEPT !.clients = <<UDP>>, !.datagrams = 3],
   [Open EXCEPT !.clients = <<UDP>>, !.datagrams = 2, !.timeout = 2, !.local = "ipv6"]}
=============================================================================
