---------------------------- MODULE MCRpcRoutes ----------------------------
(* A small instance of RpcRoutes: two requests, four slabs.                  *)
EXTENDS RpcRoutes

CONSTANTS r1, r2, A, B, C, D

Symmetry == Permutations(Requests) \union Permutations(Slabs \ Blocked)
=============================================================================
