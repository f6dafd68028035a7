--------------------------- MODULE MCOracleRouter ---------------------------
(* A small instance of OracleRouter: two mints, two concurrent requests.     *)
EXTENDS OracleRouter

CONSTANTS m1, m2, r1, r2
=============================================================================
