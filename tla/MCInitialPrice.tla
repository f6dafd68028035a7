--------------------------- MODULE MCInitialPrice ---------------------------
(* A small instance of InitialPrice: two subscribe messages.                 *)
EXTENDS InitialPrice, TLC

CONSTANTS h1, h2

Symmetry == Permutations(Handlers)
=============================================================================
