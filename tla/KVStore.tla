------------------------------ MODULE KVStore ------------------------------
(***************************************************************************)
(* What the object store of obj.c promises its users, whatever lists,      *)
(* pools and locks implement it: every key has a stack of values, adding a *)
(* value covers the older ones, a lookup sees the newest value only, and   *)
(* removing takes the newest value away.  Cleaning up is invisible.        *)
(*                                                                         *)
(* The result of the last lookup the R session made is part of the         *)
(* promise: it is the top of the key's stack at one instant of the call.   *)
(***************************************************************************)
EXTENDS Sequences

CONSTANTS Key,      \* the keys
          Value,    \* the values; a value is stored at most once at a time
          None      \* "no such object", not a value

VARIABLES stack,    \* stack[k]: the values of key k, newest first
          found     \* what the R session's last lookup found

kvVars == <<stack, found>>

Top(k) == IF stack[k] = <<>> THEN None ELSE Head(stack[k])

Init ==
  /\ stack = [k \in Key |-> <<>>]
  /\ found = None

(* Any thread adds a value that is not in the store at present. *)
Add(k, v) ==
  /\ UNCHANGED found
  /\ stack' = [stack EXCEPT ![k] = <<v>> \o @]
  /\ \A l \in Key : \A i \in DOMAIN stack[l] : stack[l][i] # v

(* A worker thread removes the newest value of a key. *)
Remove(k) ==
  /\ UNCHANGED found
  /\ stack[k] # <<>>
  /\ stack' = [stack EXCEPT ![k] = Tail(@)]

(* The R session looks a key up and, if it asks for that, removes what it
   found. *)
Lookup(k, rm) ==
  /\ found' = Top(k)
  /\ IF rm /\ stack[k] # <<>>
     THEN stack' = [stack EXCEPT ![k] = Tail(@)]
     ELSE UNCHANGED stack

(* The R session is done with the result of its lookup. *)
Return ==
  /\ found' = None
  /\ UNCHANGED stack

Next ==
  \/ \E k \in Key, v \in Value : Add(k, v)
  \/ \E k \in Key : Remove(k)
  \/ \E k \in Key, rm \in BOOLEAN : Lookup(k, rm)
  \/ Return

Spec == Init /\ [][Next]_kvVars
=============================================================================
