--------------------------- MODULE MCNetworkUpdate ---------------------------
(* A workspace with a blueprint of class "user" and updates that ask for    *)
(* any class, other egress rules and other limits.                          *)
EXTENDS NetworkUpdate

CONSTANTS blue, other
=============================================================================
