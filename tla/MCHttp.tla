------------------------------- MODULE MCHttp -------------------------------
(* Instances of Http for TLC. *)
EXTENDS Http

CONSTANTS b1, b2

Ask(method, path) ==
  [method |-> method, path |-> path, v10 |-> FALSE, host |-> TRUE, close |-> FALSE,
   length |-> -1, body |-> <<>>, pad |-> 0]
WithBody(r, n, bytes) == [r EXCEPT !.length = n, !.body = bytes]

(* Every method and path, bodies of no, one and two bytes and one that is longer
   than announced; HTTP/1.0, Connection: close and a missing Host; headers that
   need a second buffer, and one that does not fit into the line buffer. *)
SomeRequests ==
  {Ask("GET", "data"), Ask("HEAD", "data"), Ask("DELETE", "data"), Ask("PUT", "data"),
   Ask("OTHER", "data"), Ask("GET", "else"), Ask("PUT", "work"), Ask("POST", "work"),
   WithBody(Ask("PUT", "data"), 2, <<1, 2>>),
   WithBody(Ask("POST", "work"), 1, <<1>>),
   WithBody(Ask("PUT", "data"), 1, <<1, 2>>),
   WithBody(Ask("GET", "data"), 1, <<1>>),
   [Ask("GET", "data") EXCEPT !.v10 = TRUE, !.host = FALSE],
   [WithBody(Ask("PUT", "data"), 1, <<1>>) EXCEPT !.close = TRUE],
   [Ask("GET", "data") EXCEPT !.host = FALSE],
   [Ask("GET", "data") EXCEPT !.pad = 2],
   [WithBody(Ask("PUT", "data"), 1, <<1>>) EXCEPT !.pad = 5],
   [WithBody(Ask("PUT", "data"), 1, <<1>>) EXCEPT !.pad = LINE_BUF_SIZE]}
=============================================================================
