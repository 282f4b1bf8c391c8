----------------------------- MODULE MCTherver -----------------------------
(* Instance of Therver for TLC. *)
EXTENDS Therver

CONSTANTS c1, c2, f1, f2, e1, e2, w1, w2
=============================================================================
