--------------------------- MODULE MCConnections ---------------------------
(* Instances of Connections for TLC.                                       *)
EXTENDS Connections

CONSTANTS c1, c2

MCConns == {c1, c2}

(* One client may do anything, the other one is after a TLS session.       *)
MCAsks == [c \in MCConns |->
  IF c = c1 THEN {"local", "plain", "tls", "upgrade"} ELSE {"tls"}]
=============================================================================
