----------------------------- MODULE MCEvQueue -----------------------------
(* Instance of EvQueue for TLC. *)
EXTENDS EvQueue

CONSTANTS q1, q2, e1, e2, e3, c1, c2
=============================================================================
