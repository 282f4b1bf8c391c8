------------------------------- MODULE MCOsrv -------------------------------
(* Instances of Osrv for TLC. *)
EXTENDS Osrv

CONSTANTS c1, k1, x

Ask(cmd) == [cmd |-> cmd, key |-> k1, bare |-> FALSE, blank |-> FALSE, size |-> <<>>, bytes |-> <<>>]
Put(size, bytes) == [Ask("PUT") EXCEPT !.size = size, !.bytes = bytes]

(* Sizes: exact (two digits); behind a blank line and too small, with a word or
   more left over; zero, unknown, not a number, none at all. *)
SomeRequests ==
  {Ask("GET"), Ask("HAS"), Ask("DEL"), Ask("FOO"), [Ask("FOO") EXCEPT !.bare = TRUE],
   Put(<<"1", "0">>, <<x, End>>), [Put(<<"1">>, <<End, End, x>>) EXCEPT !.blank = TRUE],
   Put(<<"0">>, <<>>), Put(<<"?">>, <<>>), Put(<<"x">>, <<>>), Put(<<>>, <<>>)}

SomeBytes == {x, End, "0", "1", "?", "x", "\n"}

SomeValues == {[kind |-> "raw", bytes |-> <<x, x, End>>], [kind |-> "sfs", bytes |-> <<x, End>>]}
=============================================================================
