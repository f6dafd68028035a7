--------------------------- MODULE MCCachedRoute ---------------------------
(* A small instance of CachedRoute: two URLs of one route, two requests.     *)
EXTENDS CachedRoute

CONSTANTS u1, u2, r1, r2
=============================================================================
