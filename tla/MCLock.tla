------------------------------- MODULE MCLock -------------------------------
(* An instance of Lock for TLC: an absolute name for one directory, and ".".  *)
EXTENDS Lock

CONSTANTS p1, p2, d1, d2, abs, dot

Means == [n \in Name |-> [d \in Dir |-> IF n = dot THEN d ELSE d1]]
=============================================================================
