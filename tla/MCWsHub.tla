------------------------------ MODULE MCWsHub ------------------------------
(* Small instances of WsHub. A slab and a client are model values; any       *)
(* permutation of the clients is a symmetry of the safety runs.              *)
EXTENDS WsHub, TLC

CONSTANTS c1, c2, c3, s1, s2, s3

ClientSymmetry == Permutations(Clients)
=============================================================================
