------------------------------- MODULE MCDeps -------------------------------
(* Instances of Deps for TLC. *)
EXTENDS Deps

CONSTANTS k1, k2, c1, c2, c3, w1

(* No key, one key, several keys and the same key twice. *)
SomeKeyLists == {<<>>, <<k1>>, <<k1, k2, k1>>}
OneKeyLists == {<<k1>>, <<k2>>}
=============================================================================
