-------------------------------- MODULE Osrv --------------------------------
(***************************************************************************)
(* The object server's own protocol: do_process of osrv.c, which serves    *)
(* one connection, and C_ask of ocli.c, the client behind os.ask.  A       *)
(* connection carries two byte streams; recv returns any non-empty part of *)
(* what has arrived, so every way to cut a response or a payload is here.  *)
(* The store is what KVStore promises: per key, the objects from the       *)
(* newest to the oldest.                                                   *)
(*                                                                         *)
(* An element of a stream is a byte, except that a command word and a key  *)
(* are one element each.  Numbers have the digits of Radix, so that the    *)
(* short payloads of a model have lengths of more than one digit.  An SFS  *)
(* stream delimits itself: its last byte is End.  A request's header (the  *)
(* command line and, for PUT, the size line) is assumed to arrive in one   *)
(* piece; do_process depends on it (its FIXME says so).  A client sends    *)
(* its next request only after the response to the one before.  Bytes of a *)
(* payload that are taken for a request spell no command.  The store holds *)
(* what this protocol and the R session put there: an object without data, *)
(* as a PUT without body leaves it over HTTP, is no part of this module    *)
(* (do_process would call fd_store with NULL for it).                      *)
(***************************************************************************)
EXTENDS Integers, Sequences, FiniteSets, SequencesExt

CONSTANTS
  Client,     \* clients; a client has one connection
  Key,        \* keys
  Request,    \* the requests clients send
  Value,      \* the objects the R session stores
  Byte,       \* what payloads and size lines are made of
  Upper,      \* those that are upper-case letters
  BufSize,    \* sizeof(buf), the room of C_ask for a response line
  MaxObj,     \* bound on the objects under one key
  NULL

Command == {"GET", "HAS", "DEL", "PUT", "FOO"}

Object == [kind : {"raw", "sfs"}, bytes : Seq(Byte)]

(* The size line ends at its newline, no byte is a command or a key, and only
   PUT has a size and a payload.  A blank line before the size line is no size
   line, whatever the client meant by it; nothing follows where none comes. *)
ASSUME OsrvAssumption ==
  /\ \A r \in Request :
       /\ r.cmd \in Command /\ r.key \in Key /\ r.bare \in BOOLEAN /\ r.blank \in BOOLEAN
       /\ r.size \in Seq(Byte \ {"\n"}) /\ r.bytes \in Seq(Byte)
       /\ r.cmd # "PUT" => r.size = <<>>
       /\ r.size = <<>> => r.bytes = <<>>
  /\ Value \subseteq Object
  /\ "\n" \in Byte /\ Upper \subseteq Byte \ {"\n"}
  /\ Byte \cap Command = {} /\ Key \cap (Byte \cup Command) = {}
  /\ BufSize \in Nat /\ BufSize > 8
  /\ MaxObj \in Nat
  /\ NULL \notin Object

VARIABLES
  store,    \* store[k]: the objects under k, newest first
  up,       \* up[c]: bytes on their way to the server
  down,     \* down[c]: bytes on their way to the client
  srv,      \* srv[c]: where do_process is for the connection
  left,     \* left[c]: len - pos, the bytes of a payload still to be fetched
  cli,      \* cli[c]: where the client is
  req,      \* req[c]: the request and the sfs flag of os.ask
  buf,      \* buf[c]: what C_ask has received: buf or dst
  pl,       \* pl[c]: the payload length C_ask read from the response
  eagain,   \* eagain[c]: errno is EAGAIN since an earlier timeout
  result,   \* result[c]: what C_ask returns
  cand      \* auxiliary: what a lookup of the key of req[c] could have found
            \* between the request and now

srvVars == <<srv, left>>
cliVars == <<cli, req, buf, pl, eagain, result>>
vars == <<store, up, down, srvVars, cliVars, cand>>

-----------------------------------------------------------------------------
(* Streams.                                                                *)

End == "E"
Blank == " "
Digit == <<"0", "1">>
Radix == Len(Digit)

(* snprintf's %lu. *)
Decimal[n \in Nat] ==
  IF n < Radix THEN <<Digit[n + 1]>>
  ELSE Append(Decimal[n \div Radix], Digit[(n % Radix) + 1])

IsDigit(b) == b \in Range(Digit)

(* The number a sequence of digits stands for; value[i] is that of the first i. *)
Number(digits) ==
  LET value[i \in 0 .. Len(digits)] ==
        IF i = 0 THEN 0 ELSE value[i - 1] * Radix + (IF digits[i] = "0" THEN 0 ELSE 1)
  IN  value[Len(digits)]

(* atol: the number the leading digits of s stand for, 0 if there are none. *)
atol(s) ==
  LET ds == SelectInSeq(s, LAMBDA b : ~IsDigit(b))
  IN  Number(IF ds = 0 THEN s ELSE SubSeq(s, 1, ds - 1))

Line(s) == Append(s, "\n")
OK == Line(<<"O", "K">>)
NF == Line(<<"N", "F">>)
INV == Line(<<"I", "N", "V">>)
ERR == Line(<<"E", "R", "R">>)
UNSUPP == Line(<<"U", "N", "S", "U", "P", "P">>)

(* A request has a key unless it is a bare command, and a size line for PUT,
   perhaps behind a blank line. *)
Header(r) ==
  Line(IF r.bare THEN <<r.cmd>> ELSE <<r.cmd, r.key>>)
  \o (IF r.cmd = "PUT" THEN (IF r.blank THEN <<"\n">> ELSE <<>>) \o Line(r.size) ELSE <<>>)

Take(s, n) == SubSeq(s, 1, IF n < Len(s) THEN n ELSE Len(s))
Drop(s, n) == SubSeq(s, n + 1, Len(s))
Newest(s, k) == IF s[k] = <<>> THEN NULL ELSE Head(s[k])

Waiting(c) == cli[c] \in {"header", "payload", "sfs"}

(* The store becomes s: what lookups can find from now on. *)
StoreBecomes(s) ==
  /\ store' = s
  /\ cand' = [c \in Client |->
                IF Waiting(c) THEN cand[c] \cup {Newest(s, req[c].r.key)} ELSE cand[c]]

(* What a PUT stores, and everything that may be stored. *)
PutObject(r) == [kind |-> "raw", bytes |-> Take(r.bytes, atol(r.size))]
Storable == Value \cup {PutObject(r) : r \in {q \in Request : q.cmd = "PUT" /\ atol(q.size) > 0}}

(* What a client must be able to rely on for its answers: an object's bytes are
   one SFS stream, so that C_ask knows its end whichever way it asks; status
   lines are not longer than C_ask allows; GET, HAS and DEL name a key. *)
Answerable ==
  /\ \A v \in Storable : /\ v.bytes # <<>> /\ Last(v.bytes) = End
                         /\ \A i \in 1 .. Len(v.bytes) - 1 : v.bytes[i] # End
                         /\ 3 + Len(Decimal[Len(v.bytes)]) <= BufSize - 8
  /\ Len(UNSUPP) - 1 <= BufSize - 8
  /\ \A r \in Request : r.bare => r.cmd \notin {"GET", "HAS", "DEL"}

ASSUME AnswerAssumption == Answerable

Added(k, v) == [store EXCEPT ![k] = <<v>> \o @]
Removed(k) == [store EXCEPT ![k] = Tail(@)]
-----------------------------------------------------------------------------
(* do_process, from one recv to the next; f is what recv returned.         *)

(* send_buf: a send to a client that has closed its end may fail, and
   do_process then closes the connection. *)
send_buf(c, s, then) ==
  /\ down' = [down EXCEPT ![c] = IF cli[c] = "closed" THEN @ ELSE @ \o s]
  /\ \E st \in {then} \cup (IF cli[c] = "closed" THEN {"closed"} ELSE {}) :
       srv' = [srv EXCEPT ![c] = st]

(* The main recv returns the first n bytes, a whole header at least when a
   request comes next. *)
Received(c, n) ==
  /\ srv[c] = "recv"
  /\ n \in 1 .. Len(up[c])
  /\ up[c][1] \in Command => n >= Len(Header(req[c].r))
  /\ up' = [up EXCEPT ![c] = Drop(@, n)]
  /\ UNCHANGED cliVars

process_get(c, n) ==
  LET f == Take(up[c], n)
      o == Newest(store, f[2])
  IN /\ Received(c, n)
     /\ f[1] \in {"GET", "HAS"}
     /\ f[2] \in Key
     /\ \/ /\ o = NULL
           /\ send_buf(c, NF, "recv")
        \/ /\ o # NULL
           /\ f[1] = "HAS"
           /\ send_buf(c, OK, "recv")
        \/ /\ o # NULL
           /\ f[1] = "GET"
           /\ o.kind = "raw"
           /\ send_buf(c, Line(<<"O", "K", Blank>> \o Decimal[Len(o.bytes)]) \o o.bytes, "recv")
        \/ /\ o # NULL
           /\ f[1] = "GET"
           /\ o.kind = "sfs"
           /\ send_buf(c, Line(<<"O", "K", Blank, "?">>) \o o.bytes, "closed")
     /\ UNCHANGED <<store, cand, left>>

process_del(c, n) ==
  LET f == Take(up[c], n)
  IN /\ Received(c, n)
     /\ f[1] = "DEL"
     /\ f[2] \in Key
     /\ \/ /\ store[f[2]] = <<>>
           /\ send_buf(c, NF, "recv")
           /\ UNCHANGED <<store, cand>>
        \/ /\ store[f[2]] # <<>>
           /\ send_buf(c, OK, "recv")
           /\ StoreBecomes(Removed(f[2]))
     /\ UNCHANGED left

(* Mutant: after INV the PUT goes on as one of unknown size. *)
process_inv_Falls(c) == send_buf(c, INV \o UNSUPP, "recv")

process_inv(c) == send_buf(c, INV, "closed")

(* Mutant: all that arrived is stored. *)
Stored_All(p, len) == p

(* The bytes of the object, of those that arrived. *)
Stored(p, len) == Take(p, len)

(* Mutant: the size is not compared with what arrived. *)
Arrived_Any(p, len) == TRUE

(* buf did include the payload. *)
Arrived(p, len) == Len(p) >= len

(* Blank lines before the size line are skipped. *)
size_line(s) ==
  LET i == SelectInSeq(s, LAMBDA b : b # "\n")
  IN  IF i = 0 THEN <<>> ELSE Drop(s, i - 1)

(* The size line and the payload of a PUT in what follows its command line. *)
put_parts(s) ==
  LET t == size_line(s)
      nl == SelectInSeq(t, LAMBDA b : b = "\n")
  IN  [size |-> SubSeq(t, 1, nl - 1), bytes |-> Drop(t, nl)]

(* The size: -1 if it is bad; one that is unknown is treated like 0. *)
put_size(size) ==
  IF size = <<"?">> THEN 0
  ELSE IF size # <<>> /\ \A i \in DOMAIN size : IsDigit(size[i]) THEN atol(size)
  ELSE -1

(* PUT: a bad size ends the connection, an unknown or zero size is not
   supported, malloc may fail.  A payload that came with the header is stored
   (and more than that ends the connection); of any other the rest is fetched,
   and nothing else happens to it. *)
process_put(c, n) ==
  LET f == Take(up[c], n)
  IN /\ Received(c, n)
     /\ f[1] = "PUT"
     /\ f[2] \in Key
     /\ \E put \in {put_parts(Drop(f, 3))} : \E len \in {put_size(put.size)} :
          \/ /\ len = -1
             /\ process_inv(c)
             /\ UNCHANGED <<store, cand, left>>
          \/ /\ len = 0
             /\ send_buf(c, UNSUPP, "recv")
             /\ UNCHANGED <<store, cand, left>>
          \/ /\ len > 0
             /\ send_buf(c, ERR, "closed")
             /\ UNCHANGED <<store, cand, left>>
          \/ /\ len > 0
             /\ Arrived(put.bytes, len)
             /\ Len(store[f[2]]) < MaxObj
             /\ StoreBecomes(Added(f[2], [kind |-> "raw", bytes |-> Stored(put.bytes, len)]))
             /\ send_buf(c, OK, IF Len(put.bytes) > len THEN "closed" ELSE "recv")
             /\ UNCHANGED left
          \/ /\ len > 0
             /\ ~Arrived(put.bytes, len)
             /\ srv' = [srv EXCEPT ![c] = "fetch"]
             /\ left' = [left EXCEPT ![c] = len - Len(put.bytes)]
             /\ UNCHANGED <<store, cand, down>>

(* The first line of f is empty or one word of upper-case letters. *)
OneWord(f) ==
  \A i \in DOMAIN f : (\A j \in 1 .. i : f[j] # "\n") => f[i] \in Command \cup Upper

(* A command without argument ends the connection. *)
process_bare(c, n) ==
  LET f == Take(up[c], n)
  IN /\ Received(c, n)
     /\ OneWord(f)
     /\ srv' = [srv EXCEPT ![c] = "closed"]
     /\ UNCHANGED <<store, cand, left, down>>

(* All else is unsupported. *)
process_other(c, n) ==
  LET f == Take(up[c], n)
  IN /\ Received(c, n)
     /\ f[1] \notin Command \/ f[1] = "FOO"
     /\ ~OneWord(f)
     /\ send_buf(c, UNSUPP, "recv")
     /\ UNCHANGED <<store, cand, left>>

(* Mutant: a connection that ends does not end the loop. *)
process_fetch_NoEof(c, n) ==
  /\ srv[c] = "fetch"
  /\ n \in 1 .. Len(up[c])
  /\ n <= left[c]
  /\ up' = [up EXCEPT ![c] = Drop(@, n)]
  /\ left' = [left EXCEPT ![c] = @ - n]
  /\ srv' = [srv EXCEPT ![c] = IF left[c] = n THEN "recv" ELSE "fetch"]
  /\ UNCHANGED <<store, down, cliVars, cand>>

(* The loop that fetches the rest of a payload. *)
process_fetch(c, n) ==
  /\ srv[c] = "fetch"
  /\ \/ /\ n \in 1 .. Len(up[c])
        /\ n <= left[c]
        /\ up' = [up EXCEPT ![c] = Drop(@, n)]
        /\ left' = [left EXCEPT ![c] = @ - n]
        /\ srv' = [srv EXCEPT ![c] = IF left[c] = n THEN "recv" ELSE "fetch"]
     \/ /\ n = 0
        /\ up[c] = <<>>
        /\ cli[c] = "closed"
        /\ left' = [left EXCEPT ![c] = 0]
        /\ srv' = [srv EXCEPT ![c] = "recv"]
        /\ UNCHANGED up
  /\ UNCHANGED <<store, down, cliVars, cand>>

(* recv returns 0: the client has closed the connection. *)
process_eof(c) ==
  /\ srv[c] = "recv"
  /\ up[c] = <<>>
  /\ cli[c] = "closed"
  /\ srv' = [srv EXCEPT ![c] = "closed"]
  /\ UNCHANGED <<store, up, down, left, cliVars, cand>>

do_process(c) ==
  \/ process_eof(c)
  \/ \E n \in 0 .. Len(up[c]) :
       \/ process_get(c, n)
       \/ process_del(c, n)
       \/ process_put(c, n)
       \/ process_bare(c, n)
       \/ process_other(c, n)
       \/ process_fetch(c, n)

-----------------------------------------------------------------------------
(* C_ask.                                                                  *)

Client_sets(c, st, b, len, res) ==
  /\ cli' = [cli EXCEPT ![c] = st]
  /\ buf' = [buf EXCEPT ![c] = b]
  /\ pl' = [pl EXCEPT ![c] = len]
  /\ result' = [result EXCEPT ![c] = res]
  /\ UNCHANGED <<req, eagain>>

Status(line) == [status |-> line, bytes |-> <<>>]
Payload(b) == [status |-> <<>>, bytes |-> b]
Rf_error == Status(<<"error">>)

(* Send request r on the connection. *)
Sends(c, r, sfs) ==
  /\ req' = [req EXCEPT ![c] = [r |-> r, sfs |-> sfs]]
  /\ up' = [up EXCEPT ![c] = Header(r) \o r.bytes]
  /\ cli' = [cli EXCEPT ![c] = "header"]
  /\ buf' = [buf EXCEPT ![c] = <<>>]
  /\ pl' = [pl EXCEPT ![c] = 0]
  /\ result' = [result EXCEPT ![c] = NULL]
  /\ cand' = [cand EXCEPT ![c] = IF r.cmd = "PUT" THEN {} ELSE {Newest(store, r.key)}]

(* C_ask connects and sends its command; a worker takes the connection. *)
C_ask_send(c, r, sfs) ==
  /\ cli[c] = "closed"
  /\ srv[c] = "closed"
  /\ Sends(c, r, sfs)
  /\ srv' = [srv EXCEPT ![c] = "recv"]
  /\ UNCHANGED <<store, down, left, eagain>>

(* Another client of the protocol keeps the connection and sends its next
   request after the response to the last one (which sent no extra bytes). *)
client_sends_again(c, r) ==
  /\ cli[c] = "done"
  /\ srv[c] = "recv"
  /\ up[c] = <<>>
  /\ down[c] = <<>>
  /\ Sends(c, r, FALSE)
  /\ UNCHANGED <<store, down, srvVars, eagain>>

(* Mutant: with sfs the status line is read like without. *)
Need_Same(c) == BufSize - 1 - Len(buf[c])

(* How much of the response line C_ask asks recv for. *)
Need(c) ==
  IF ~req[c].sfs THEN BufSize - 1 - Len(buf[c])
  ELSE IF Len(buf[c]) < 5 THEN 5 - Len(buf[c]) ELSE 1

(* Mutant: what came with the status line is not counted. *)
HeaderRest_None(rest, len) == <<>>

(* Mutant: what came with the status line is taken for payload altogether. *)
HeaderRest_All(rest, len) == rest

(* What came with the status line is payload, but not more than its length. *)
HeaderRest(rest, len) == IF Len(rest) > len THEN Take(rest, len) ELSE rest

(* recv returns n bytes of the response line, and perhaps of what follows it.
   A line that fills the buffer but for seven bytes is an error. *)
C_ask_header(c, n) ==
  LET b == buf[c] \o Take(down[c], n)
      nl == SelectInSeq(b, LAMBDA x : x = "\n")
      line == Take(b, nl - 1)
      len == atol(Drop(line, 3))
      rest == HeaderRest(Drop(b, nl), len)
  IN /\ cli[c] = "header"
     /\ n <= Need(c)
     /\ down' = [down EXCEPT ![c] = Drop(@, n)]
     /\ \/ /\ nl = 0
           /\ IF Len(b) <= BufSize - 8
              THEN Client_sets(c, "header", b, 0, NULL)
              ELSE Client_sets(c, "done", <<>>, 0, Rf_error)
        \/ /\ nl > 0
           /\ Len(line) = 2 \/ Line(line) = UNSUPP
           /\ Client_sets(c, "done", <<>>, 0, Status(Line(line)))
        \/ /\ nl > 3
           /\ Take(line, 3) = <<"O", "K", Blank>>
           /\ req[c].sfs
           /\ Client_sets(c, "sfs", <<>>, 0, NULL)
        \/ /\ nl > 3
           /\ Take(line, 3) = <<"O", "K", Blank>>
           /\ ~req[c].sfs
           /\ IF Len(rest) = len
              THEN Client_sets(c, "done", <<>>, 0, Payload(rest))
              ELSE Client_sets(c, "payload", rest, len, NULL)
        \/ /\ nl > 3
           /\ Take(line, 3) # <<"O", "K", Blank>>
           /\ Line(line) # UNSUPP
           /\ Client_sets(c, "done", <<>>, 0, Rf_error)
     /\ UNCHANGED <<store, up, srvVars, cand>>

(* recv returns n more bytes of a payload of known length. *)
C_ask_payload(c, n) ==
  LET b == buf[c] \o Take(down[c], n)
  IN /\ cli[c] = "payload"
     /\ n <= pl[c] - Len(buf[c])
     /\ down' = [down EXCEPT ![c] = Drop(@, n)]
     /\ IF Len(b) = pl[c]
        THEN Client_sets(c, "done", <<>>, 0, Payload(b))
        ELSE Client_sets(c, "payload", b, pl[c], NULL)
     /\ UNCHANGED <<store, up, srvVars, cand>>

(* sock_restore: a fetch never asks for more than the stream still has. *)
sock_restore(c, n) ==
  LET b == buf[c] \o Take(down[c], n)
  IN /\ cli[c] = "sfs"
     /\ End \notin Range(Take(b, Len(b) - 1))
     /\ down' = [down EXCEPT ![c] = Drop(@, n)]
     /\ IF Last(b) = End
        THEN Client_sets(c, "done", <<>>, 0, Payload(b))
        ELSE Client_sets(c, "sfs", b, 0, NULL)
     /\ UNCHANGED <<store, up, srvVars, cand>>

(* recv returns 0: an error, except that in the loop for the status line an
   errno left from an earlier timeout makes C_ask try again. *)
C_ask_eof(c) ==
  /\ Waiting(c)
  /\ down[c] = <<>>
  /\ srv[c] = "closed"
  /\ cli[c] = "header" => ~eagain[c]
  /\ Client_sets(c, "done", <<>>, 0, Rf_error)
  /\ UNCHANGED <<store, up, down, srvVars, cand>>

(* recv times out. *)
C_ask_timeout(c) ==
  /\ Waiting(c)
  /\ down[c] = <<>>
  /\ srv[c] # "closed"
  /\ eagain' = [eagain EXCEPT ![c] = TRUE]
  /\ UNCHANGED <<store, up, down, srvVars, cli, req, buf, pl, result, cand>>

(* The user interrupts R while C_ask retries: the socket stays open. *)
C_ask_interrupt(c) ==
  /\ Waiting(c)
  /\ down[c] = <<>>
  /\ eagain[c]
  /\ Client_sets(c, "interrupted", <<>>, 0, NULL)
  /\ UNCHANGED <<store, up, down, srvVars, cand>>

(* The client's socket is closed: what was not read is lost. *)
Client_closes(c) ==
  /\ cli' = [cli EXCEPT ![c] = "closed"]
  /\ buf' = [buf EXCEPT ![c] = <<>>]
  /\ pl' = [pl EXCEPT ![c] = 0]
  /\ result' = [result EXCEPT ![c] = NULL]
  /\ eagain' = [eagain EXCEPT ![c] = FALSE]
  /\ down' = [down EXCEPT ![c] = <<>>]
  /\ cand' = [cand EXCEPT ![c] = {}]
  /\ UNCHANGED req

(* C_ask closes its socket and returns. *)
C_ask_return(c) ==
  /\ cli[c] = "done"
  /\ Client_closes(c)
  /\ UNCHANGED <<store, up, srvVars>>

(* The client's process ends and its socket is closed, perhaps with a part of
   the request's payload not sent. *)
client_exits(c, n) ==
  /\ Waiting(c) \/ cli[c] = "interrupted"
  /\ n \in 0 .. Len(up[c])
  /\ n > 0 /\ up[c][1] \in Command => n >= Len(Header(req[c].r))
  /\ up' = [up EXCEPT ![c] = Take(@, n)]
  /\ Client_closes(c)
  /\ UNCHANGED <<store, srvVars>>

C_ask(c) ==
  \/ \E n \in 1 .. Len(down[c]) :
       C_ask_header(c, n) \/ C_ask_payload(c, n) \/ sock_restore(c, n)
  \/ C_ask_eof(c)
  \/ C_ask_return(c)

-----------------------------------------------------------------------------
(* The R session of the server stores and removes objects, too.            *)

o_put(k, v) ==
  /\ Len(store[k]) < MaxObj
  /\ StoreBecomes(Added(k, v))
  /\ UNCHANGED <<up, down, srvVars, cliVars>>

o_get_remove(k) ==
  /\ store[k] # <<>>
  /\ StoreBecomes(Removed(k))
  /\ UNCHANGED <<up, down, srvVars, cliVars>>

Init ==
  /\ store = [k \in Key |-> <<>>]
  /\ up = [c \in Client |-> <<>>]
  /\ down = [c \in Client |-> <<>>]
  /\ srv = [c \in Client |-> "closed"]
  /\ left = [c \in Client |-> 0]
  /\ cli = [c \in Client |-> "closed"]
  /\ req = [c \in Client |-> NULL]
  /\ buf = [c \in Client |-> <<>>]
  /\ pl = [c \in Client |-> 0]
  /\ eagain = [c \in Client |-> FALSE]
  /\ result = [c \in Client |-> NULL]
  /\ cand = [c \in Client |-> {}]

Next ==
  \/ \E c \in Client : do_process(c) \/ C_ask(c) \/ C_ask_timeout(c) \/ C_ask_interrupt(c)
  \/ \E c \in Client : \E n \in 0 .. Len(up[c]) : client_exits(c, n)
  \/ \E c \in Client, r \in Request :
       (\E sfs \in BOOLEAN : C_ask_send(c, r, sfs)) \/ client_sends_again(c, r)
  \/ \E k \in Key : o_get_remove(k) \/ \E v \in Value : o_put(k, v)

(* The worker of a connection and its client go on while they can. *)
Fairness == \A c \in Client : WF_vars(do_process(c)) /\ WF_vars(C_ask(c))

Spec == Init /\ [][Next]_vars
FairSpec == Spec /\ Fairness

-----------------------------------------------------------------------------
(* Properties.                                                             *)

(* Type correctness, with the bounds of the buffers: C_ask never has more of a
   payload than its vector has room for, nor of a response line than its
   buffer. *)
TypeOK ==
  /\ \A k \in Key : \A o \in Range(store[k]) : o.kind \in {"raw", "sfs"}
  /\ srv \in [Client -> {"recv", "fetch", "closed"}]
  /\ left \in [Client -> Nat]
  /\ cli \in [Client -> {"header", "payload", "sfs", "done", "interrupted", "closed"}]
  /\ \A c \in Client : req[c] # NULL => req[c].r \in Request /\ req[c].sfs \in BOOLEAN
  /\ pl \in [Client -> Nat]
  /\ \A c \in Client : /\ cli[c] = "header" => Len(buf[c]) < BufSize
                      /\ cli[c] = "payload" => Len(buf[c]) < pl[c]
  /\ eagain \in [Client -> BOOLEAN]

Done(c) == cli[c] = "done"

(* An SFS object was sent to a client that did not ask for one: C_ask takes
   the "?" of the status line for length 0. *)
Mismatch(c) == ~req[c].sfs /\ result[c] = Payload(<<>>)

(* What os.ask returns for GET, HAS and DEL was true of the store at some
   moment between the request and the answer, to the byte, however the
   response was cut and whatever other clients and the R session did. *)
AnswerTrue ==
  \A c \in Client :
    Done(c) /\ req[c].r.cmd \in {"GET", "HAS", "DEL"} =>
      \/ result[c] = Status(NF) /\ NULL \in cand[c]
      \/ \E v \in cand[c] \ {NULL} :
           IF req[c].r.cmd = "GET"
           THEN result[c] = Payload(v.bytes) \/ (Mismatch(c) /\ v.kind = "sfs")
           ELSE result[c] = Status(OK)

(* A PUT that is answered with OK has stored the bytes it announced under its
   key, no part of them missing or left over; and no object in the store is a
   part of what a client or the R session meant to store, whenever a connection
   breaks. *)
PutStored ==
  /\ \A c \in Client :
       Done(c) /\ req[c].r.cmd = "PUT" /\ result[c] = Status(OK) =>
         \E v \in cand[c] \ {NULL} :
           /\ v.kind = "raw"
           /\ v.bytes = Take(req[c].r.bytes, atol(req[c].r.size))
  /\ \A k \in Key : \A i \in DOMAIN store[k] :
       \/ store[k][i] \in Value
       \/ \E r \in Request :
            /\ r.cmd = "PUT"
            /\ store[k][i].bytes = Take(r.bytes, atol(r.size))

(* Client and server agree where a response ends: when C_ask has one, nothing
   of it is left on the connection to be taken for part of the next. *)
InStep ==
  \A c \in Client :
    Done(c) /\ ~Mismatch(c) /\ up[c] = <<>> /\ srv[c] = "recv"
      /\ Len(req[c].r.bytes) <= atol(req[c].r.size) => down[c] = <<>>

(* os.ask returns (or is interrupted, or its process ends) for every request
   but PUT and those do_process does not answer. *)
AskReturns ==
  \A c \in Client :
    (Waiting(c) /\ req[c].r.cmd # "PUT" /\ ~req[c].r.bare) ~> ~Waiting(c)

(* When a client has closed its connection, the worker stops serving it. *)
WorkerFreed ==
  \A c \in Client : (cli[c] = "closed") ~> (srv[c] = "closed")

(* Every PUT is answered. *)
PutAnswered ==
  \A c \in Client : (Waiting(c) /\ req[c].r.cmd = "PUT") ~> ~Waiting(c)
=============================================================================
