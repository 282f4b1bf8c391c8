---------------------------- MODULE MCObjStore ----------------------------
(***************************************************************************)
(* Instance of ObjStore and of its refinement mapping for TLC.             *)
(***************************************************************************)
EXTENDS ObjStoreKV, TLC

CONSTANTS k1, k2, w1, w2, a1, a2, a3, x1, b1

(* Keys, workers and addresses are interchangeable; every property
   of these runs is a safety property. *)
Symmetry == Permutations(Key) \cup Permutations(Worker) \cup Permutations(Addr)
=============================================================================
