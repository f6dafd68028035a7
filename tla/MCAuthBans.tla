----------------------------- MODULE MCAuthBans -----------------------------
(* A small instance of RemoteBans: two IPs, one of them with Redis.          *)
EXTENDS RemoteBans

CONSTANTS ip1, ip2
=============================================================================
