---------------------------- MODULE MCRateLimit ----------------------------
(* A small instance of RateLimit; what is alike is interchangeable.         *)
EXTENDS RateLimit, TLC

CONSTANTS ip1, ip2, ip3, r1, r2

Symmetry == Permutations(Ips \ RedisIps) \union Permutations(Requests)
=============================================================================
