--------------------------- MODULE MCKeyRateLimit ---------------------------
(* A small instance of KeyRateLimit for TLC. *)
EXTENDS KeyRateLimit, TLC

CONSTANTS r1, r2, r3
=============================================================================
