------------------------- MODULE MCServerLifecycle -------------------------
(* A small instance of ServerLifecycle: two signals, one client.             *)
EXTENDS ServerLifecycle

CONSTANTS sigterm, exception
=============================================================================
