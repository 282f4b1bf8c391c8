---------------------------- MODULE ObjStoreKV ----------------------------
(***************************************************************************)
(* The object store seen from outside: the refinement mapping from the     *)
(* lists of obj.c to the stacks of KVStore.  A key's stack is made of the  *)
(* published entries with that key, in the order in which the walk of      *)
(* obj_get_ meets them.                                                    *)
(***************************************************************************)
EXTENDS ObjStore

(* How many of the positions in S are not behind i, and the n-th of them. *)
Rank(S, i) == Cardinality({j \in S : j <= i})
Nth(S, n) == CHOOSE i \in S : Rank(S, i) = n

Stack(k) ==
  LET at == Matches(k)
  IN  [n \in 1 .. Cardinality(at) |-> obj_root[Nth(at, n)]]

(* The R session has found something while C_get uses it. *)
KV == INSTANCE KVStore WITH
        Value <- Addr, None <- NULL,
        stack <- [k \in Key |-> Stack(k)],
        found <- IF main.pc = "got" THEN main.o ELSE NULL

(* The lists, the pool and the mutex of obj.c implement a stack per key: a
   removal takes away the newest value of its own key and nothing else, and
   o.clean and the bookkeeping of o.get cannot be seen from outside. *)
ImplementsKVStore == KV!Spec
=============================================================================
