---------------------------- MODULE MCIndexStore ----------------------------
(* An instance of IndexStore for TLC. *)
EXTENDS IndexStore

CONSTANTS b1, b2
=============================================================================
