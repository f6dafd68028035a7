-------------------------- MODULE MCWsConnections ---------------------------
(* A small instance of WsConnections: two sockets of one IP, which are also  *)
(* those of the remote store, and one of another.                            *)
EXTENDS WsConnections, TLC

CONSTANTS c1, c2, c3, ip1, ip2

MCIpOf == [c \in Conns |-> IF c = c3 THEN ip2 ELSE ip1]
Symmetry == Permutations(RemoteConns)
=============================================================================
