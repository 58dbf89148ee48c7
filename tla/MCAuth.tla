------------------------------- MODULE MCAuth -------------------------------
(* Settings for model checking Auth.                                       *)
EXTENDS Auth

Digest == [ip |-> "x", method |-> "digest", right |-> TRUE, portOK |-> TRUE]
Basic == [Digest EXCEPT !.method = "basic"]

Base == [timeout |-> 1, nonceLife |-> 1, maxTime |-> 3, allowed |-> {},
         clients |-> <<Digest, Basic>>]

\* Two clients of one address, of which one may have nothing to offer; wrong
\* passwords, ports and headers; an address that is allowed.
AllSettings ==
  {Base,
   [Base EXCEPT !.clients = <<Digest, Digest>>],
   [Base EXCEPT !.clients = <<Basic, [Basic EXCEPT !.method = "none"]>>],
   [Base EXCEPT !.clients = <<[Digest EXCEPT !.right = FALSE],
                              [Digest EXCEPT !.ip = "y", !.portOK = FALSE]>>],
   [Base EXCEPT !.clients = <<[Basic EXCEPT !.right = FALSE],
                              [Basic EXCEPT !.ip = "y", !.portOK = FALSE]>>],
   [Base EXCEPT !.allowed = {"y"},
                !.clients = <<[Basic EXCEPT !.method = "malformed"],
                              [Basic EXCEPT !.ip = "y", !.method = "none"]>>]}
=============================================================================
