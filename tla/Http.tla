-------------------------------- MODULE Http --------------------------------
(***************************************************************************)
(* The HTTP server: the connection loop and the parser of http.c, and the  *)
(* request handler http_process of ohsrv.c, for one connection.  Other     *)
(* connections and the R session appear through the store and the queue,   *)
(* which they change at any time.                                          *)
(*                                                                         *)
(* An element of the client's stream is a request line, a header line, a   *)
(* CR, an LF or a byte of a body; recv returns any non-empty part of what  *)
(* has arrived, and with CutCRLF it may end between a CR and its LF.       *)
(* http_input_iteration is cut where it calls recv and after each line, so *)
(* that a step is one line or one request.  A client sends its next        *)
(* request after the response to the one before.  Of the headers only      *)
(* those the server acts upon are here, Host, Content-length and           *)
(* Connection: close, and one it does not know, whose length is that of    *)
(* the line buffer or more where a request is to be too large.             *)
(*                                                                         *)
(* A request body is a malloc'd block whose owner is the request, then     *)
(* perhaps the store or the queue; block numbers stand for addresses.      *)
(* The code for a body without Content-length (its 411 responses) is not   *)
(* here: a request without one is processed before that code is reached.   *)
(***************************************************************************)
EXTENDS Integers, Sequences, FiniteSets, SequencesExt

CONSTANTS
  Request,    \* the requests clients send
  Block,      \* addresses malloc can return for a body
  MaxObj,     \* bound on the objects in the store
  MaxQueue,   \* bound on the entries in the queue
  CutCRLF,    \* TRUE if recv may separate CR from LF
  LINE_BUF_SIZE,   \* elements the line buffer holds, with its terminator
  HEADERS_SIZE,    \* elements the first buffer of recorded headers holds
  HEADERS_MORE,    \* and the least size of a further one
  NULL

Method == {"GET", "HEAD", "PUT", "POST", "DELETE", "OTHER"}
Path == {"data", "work", "else"}

ASSUME HttpAssumption ==
  /\ \A r \in Request :
       /\ r.method \in Method
       /\ r.path \in Path
       /\ r.v10 \in BOOLEAN /\ r.host \in BOOLEAN /\ r.close \in BOOLEAN
       /\ r.body \in Seq(Nat)
       /\ r.length \in -1 .. Len(r.body)
       /\ r.pad \in Nat
  /\ NULL \notin Block \cup Request
  /\ MaxObj \in Nat
  /\ MaxQueue \in Nat
  /\ CutCRLF \in BOOLEAN
  /\ LINE_BUF_SIZE \in Nat \ {0, 1, 2}
  /\ HEADERS_SIZE \in Nat \ {0, 1}
  /\ HEADERS_MORE \in Nat \ {0}

VARIABLES
  \* the client
  asked,     \* the request the client has sent, NULL before the first
  client,    \* "open", or "closed" when it has closed its end
  up,        \* the stream to the server
  out,       \* the responses to the request
  \* http_connection_t
  sock,      \* "open" or "closed"
  pc,        \* where http_input_iteration is
  part,      \* PART_REQUEST, PART_HEADER or PART_BODY
  line_buf,  \* the elements in the line buffer not yet looked at
  req,       \* http_request_t
  body,      \* what has been received of the body; its length is body_pos
  headers,   \* the list of buffers in which the headers are recorded
  \* what is shared with other threads
  free,      \* the blocks that are free
  store,     \* the objects under the key, newest first
  queue,     \* the blocks in the /work queue
  \* auxiliary
  handled    \* what http_process was called with since the client sent its
             \* request: the request as it saw it, the vector of headers,
             \* and what the buffers it was made from had recorded

clientVars == <<asked, client>>
connVars == <<sock, pc, part, line_buf, req, body, headers>>
heapVars == <<free, store, queue>>
vars == <<clientVars, up, out, connVars, heapVars, handled>>

-----------------------------------------------------------------------------
(* Streams and requests.                                                   *)

CR == [t |-> "cr"]
LF == [t |-> "lf"]
Text(e) == e.t \notin {"cr", "lf"}
CRLF == <<CR, LF>>
Take(s, n) == SubSeq(s, 1, n)
Drop(s, n) == SubSeq(s, n + 1, Len(s))

RequestLine(r) == [t |-> "request", method |-> r.method, path |-> r.path, v10 |-> r.v10]
HeaderLine(h, n) == [t |-> "header", name |-> h, n |-> n]
Filler == [t |-> "filler"]

(* The header lines of a request, each with its end: at most one of each, and one
   of pad elements that the server does not know. *)
HeaderLines(r, end) ==
  (IF r.pad > 0 THEN [i \in 1 .. r.pad |-> Filler] \o end ELSE <<>>)
  \o (IF r.host THEN <<HeaderLine("host", 0)>> \o end ELSE <<>>)
  \o (IF r.length >= 0 THEN <<HeaderLine("content-length", r.length)>> \o end ELSE <<>>)
  \o (IF r.close THEN <<HeaderLine("connection", 0)>> \o end ELSE <<>>)

(* What a client sends. *)
Encoded(r) ==
  <<RequestLine(r)>> \o CRLF \o HeaderLines(r, CRLF) \o CRLF
  \o [i \in DOMAIN r.body |-> [t |-> "byte", b |-> r.body[i]]]

(* http_request_t after clear_http_request: no method, no path, no attributes. *)
NoRequest ==
  [method |-> "none", path |-> NULL, v10 |-> FALSE, host |-> FALSE, close |-> FALSE,
   length |-> -1, body |-> NULL]

-----------------------------------------------------------------------------
(* Recorded headers: lines, each with its newline, in a list of buffers.   *)

NL == [t |-> "newline"]
MethodLine(m) == <<[t |-> "method", method |-> m], NL>>

alloc_buffer(size) == [size |-> size, data |-> <<>>]

(* The size of a further buffer: needs is doubled until n elements fit, which
   takes at most n rounds. *)
MoreSize(n) ==
  LET needs[k \in 0 .. n] ==
        IF k = 0 THEN HEADERS_MORE ELSE IF n >= needs[k - 1] THEN 2 * needs[k - 1] ELSE needs[k - 1]
  IN needs[n]

(* Mutant: the line is recorded from its start in the new buffer. *)
Record_Whole(bufs, line) ==
  LET b == Last(bufs)
      fits == b.size - Len(b.data)
  IN IF line = <<>> THEN bufs
     ELSE IF Len(b.data) + Len(line) + 1 > b.size
     THEN Front(bufs) \o
          << [b EXCEPT !.data = @ \o Take(line, fits)],
             [alloc_buffer(MoreSize(Len(line) + 1)) EXCEPT !.data = Append(line, NL)] >>
     ELSE Append(Front(bufs), [b EXCEPT !.data = @ \o Append(line, NL)])

(* A header line that is not empty is recorded; what has no room goes to a new
   buffer. *)
Record(bufs, line) ==
  LET b == Last(bufs)
      fits == b.size - Len(b.data)
  IN IF line = <<>> THEN bufs
     ELSE IF Len(b.data) + Len(line) + 1 > b.size
     THEN Front(bufs) \o
          << [b EXCEPT !.data = @ \o Take(line, fits)],
             [alloc_buffer(MoreSize(Len(line) + 1 - fits)) EXCEPT
                !.data = Append(Drop(line, fits), NL)] >>
     ELSE Append(Front(bufs), [b EXCEPT !.data = @ \o Append(line, NL)])

(* The method is recorded if it fits, first. *)
RecordMethod(m) ==
  LET b == alloc_buffer(HEADERS_SIZE)
  IN <<IF HEADERS_SIZE >= Len(MethodLine(m)) THEN [b EXCEPT !.data = MethodLine(m)] ELSE b>>

(* What the buffers hold together. *)
Recorded == FlattenSeq([i \in DOMAIN headers |-> headers[i].data])

(* collect_buffers: a vector with room for what the buffers hold, to which nothing
   is written: the copies go to the data of the first buffer (and past its end
   if there are more, see Overruns). *)
Uninitialized == [t |-> "uninitialized"]
collect_buffers == [i \in DOMAIN Recorded |-> Uninitialized]

-----------------------------------------------------------------------------
(* Responses and the end of a request.                                     *)

(* delim: how the client can tell the end of the response. *)
Response(code, delim) == [code |-> code, delim |-> delim]

Sends(r) == out' = IF client = "open" THEN Append(out, r) ELSE out

(* free of the body a request still owns, when blocks f are free. *)
Released(f, b) == f \cup ({b} \ {NULL})

(* http_close; http_connected then ends its loop and frees the request, which
   owns block b. *)
Closes(f, b) ==
  /\ sock' = "closed"
  /\ pc' = "end"
  /\ part' = "REQUEST"
  /\ line_buf' = <<>>
  /\ req' = NoRequest
  /\ body' = <<>>
  /\ headers' = <<>>
  /\ free' = Released(f, b)

(* Mutant: the attributes of the request are kept. *)
Cleared_KeepAttr == [NoRequest EXCEPT !.host = req.host, !.close = req.close]

Cleared == NoRequest

(* keep-alive: clear_http_request, then the next request; rest is what is left
   in the line buffer. *)
Resets(f, b, rest) ==
  /\ pc' = "recv"
  /\ part' = "REQUEST"
  /\ line_buf' = rest
  /\ req' = Cleared
  /\ body' = <<>>
  /\ headers' = <<>>
  /\ free' = Released(f, b)
  /\ UNCHANGED sock

-----------------------------------------------------------------------------
(* http_process, as the set of its outcomes for request r: the response, the
   store and the queue, and the body that the request still owns afterwards. *)

Outcome(r, resp) == [resp |-> resp, store |-> store, queue |-> queue, body |-> r.body]

process_get(r) ==
  LET o == IF store = <<>> THEN NULL ELSE Head(store)
  IN IF o = NULL THEN {Outcome(r, Response(404, "length"))}
     ELSE IF r.method = "HEAD" THEN {Outcome(r, Response(200, "head"))}
     ELSE IF o.kind = "sfs"
          THEN {Outcome(r, Response(200, d)) : d \in {"chunked", "none"}}
     ELSE {Outcome(r, Response(200, IF o.block = NULL THEN "none" ELSE "length"))}

process_delete(r) ==
  IF store = <<>> THEN {Outcome(r, Response(404, "length"))}
  ELSE {[Outcome(r, Response(200, "length")) EXCEPT !.store = Tail(@)]}

(* Mutant: the request still owns the body it has given to the store. *)
process_put_KeepBody(r) ==
  {[Outcome(r, Response(200, "length")) EXCEPT
      !.store = <<[kind |-> "raw", block |-> r.body]>> \o @]}

process_put(r) ==
  {[Outcome(r, Response(200, "length")) EXCEPT
      !.store = <<[kind |-> "raw", block |-> r.body]>> \o @,
      !.body = NULL]}

process_work(r) ==
  IF r.method # "POST" THEN {Outcome(r, Response(405, "length"))}
  ELSE IF r.body = NULL \/ r.length < 1 THEN {Outcome(r, Response(403, "length"))}
  ELSE {[Outcome(r, Response(200, "length")) EXCEPT !.queue = Append(@, r.body), !.body = NULL],
        Outcome(r, Response(501, "length"))}

http_process(r) ==
  IF r.path = "data" /\ r.method \in {"GET", "HEAD"} THEN process_get(r)
  ELSE IF r.path = "data" /\ r.method = "DELETE" THEN process_delete(r)
  ELSE IF r.path = "data" /\ r.method = "PUT" THEN process_put(r)
  ELSE IF r.path = "work" THEN process_work(r)
  ELSE {Outcome(r, Response(404, "length"))}

(* The request as the handler sees it, and what was recorded of its headers. *)
Seen == [req |-> [req EXCEPT !.body = IF @ = NULL THEN <<>> ELSE body],
         headers |-> collect_buffers, recorded |-> Recorded]

(* process_request with outcome o of the handler. *)
Processes(o) ==
  /\ o \in http_process(req)
  /\ Sends(o.resp)
  /\ store' = o.store
  /\ queue' = o.queue
  /\ handled' = IF client = "closed" THEN <<>> ELSE Append(handled, Seen)

(* collect_buffers copies the recorded headers into the first of their buffers
   instead of the vector it returns: with more than one, beyond its end, and
   nothing is known of what follows. *)
Overruns ==
  /\ Len(headers) > 1
  /\ pc' = "undefined"
  /\ handled' = Append(handled, Seen)
  /\ UNCHANGED <<out, sock, part, line_buf, req, body, headers, heapVars>>

(* process_request, and after it the end of the connection or of the request. *)
Finishes(closing, rest) ==
  \/ /\ Len(headers) = 1
     /\ \E o \in http_process(req) :
          Processes(o) /\ IF closing THEN Closes(free, o.body) ELSE Resets(free, o.body, rest)
  \/ Overruns

(* fin_request: HTTP/1.0 means Connection: close. *)
ConnectionClose == req.close \/ req.v10

-----------------------------------------------------------------------------
(* http_input_iteration: up to and including the headers.                  *)

(* Mutant: the connection is kept. *)
Rejects_Keep(code) ==
  /\ Sends(Response(code, "close"))
  /\ Resets(free, req.body, <<>>)
  /\ UNCHANGED <<clientVars, up, store, queue, handled>>

(* An error response, after which the connection is closed. *)
Rejects(code) ==
  /\ Sends(Response(code, "close"))
  /\ Closes(free, req.body)
  /\ UNCHANGED <<clientVars, up, store, queue, handled>>

LineFull == Len(line_buf) = LINE_BUF_SIZE - 1

recv_line(n) ==
  /\ pc = "recv"
  /\ n \in 1 .. Len(up)
  /\ Len(line_buf) + n < LINE_BUF_SIZE
  /\ ~CutCRLF => up[n] # CR
  /\ line_buf' = line_buf \o Take(up, n)
  /\ up' = Drop(up, n)
  /\ pc' = "parse"
  /\ UNCHANGED <<clientVars, out, sock, part, req, body, headers, heapVars, handled>>

(* Mutant: without a request the end of the stream is ignored. *)
recv_line_eof_Ignored ==
  /\ pc = "recv"
  /\ LineFull \/ (up = <<>> /\ client = "closed")
  /\ req.path # NULL
  /\ Finishes(TRUE, <<>>)
  /\ UNCHANGED <<clientVars, up>>

(* recv returns 0, because the client has closed or because it was asked for 0
   bytes, the line buffer being full: a request that has a path is processed as
   it is. *)
recv_line_eof ==
  /\ pc = "recv"
  /\ LineFull \/ (up = <<>> /\ client = "closed")
  /\ \/ /\ req.path # NULL
        /\ Finishes(TRUE, <<>>)
     \/ /\ req.path = NULL
        /\ Closes(free, req.body)
        /\ UNCHANGED <<out, store, queue, handled>>
  /\ UNCHANGED <<clientVars, up>>

(* The buffer holds no (further) line that is complete. *)
parse_incomplete ==
  /\ pc = "parse"
  /\ \A i \in DOMAIN line_buf : Text(line_buf[i])
  /\ pc' = "recv"
  /\ UNCHANGED <<clientVars, up, out, sock, part, line_buf, req, body, headers, heapVars, handled>>

EmptyLine == line_buf[1] = LF \/ (line_buf[1] = CR /\ Len(line_buf) > 1 /\ line_buf[2] = LF)

(* The line at the start of the buffer, and what follows its CR and LF. *)
LineEnd == SelectInSeq(line_buf, LAMBDA e : ~Text(e))
LineText == Take(line_buf, LineEnd - 1)
AfterLine ==
  LET s == Drop(line_buf, LineEnd)
  IN IF line_buf[LineEnd] = CR /\ s # <<>> /\ s[1] = LF THEN Tail(s) ELSE s

CompleteLine == pc = "parse" /\ LineEnd > 0 /\ ~EmptyLine

NextLine ==
  /\ line_buf' = AfterLine
  /\ UNCHANGED <<clientVars, up, out, sock, pc, body, heapVars, handled>>

parse_request_line ==
  /\ CompleteLine
  /\ part = "REQUEST"
  /\ \/ /\ Len(LineText) = 1
        /\ LineText[1].t = "request"
        /\ req' = [req EXCEPT !.method = LineText[1].method, !.path = LineText[1].path,
                              !.v10 = LineText[1].v10]
        /\ part' = "HEADER"
        /\ headers' = RecordMethod(LineText[1].method)
        /\ NextLine
     \/ /\ Len(LineText) # 1 \/ LineText[1].t # "request"
        /\ Rejects(400)

parse_header ==
  /\ CompleteLine
  /\ part = "HEADER"
  /\ headers' = Record(headers, LineText)
  /\ req' = IF Len(LineText) # 1 \/ LineText[1].t # "header" THEN req
            ELSE CASE LineText[1].name = "host" -> [req EXCEPT !.host = TRUE]
                   [] LineText[1].name = "connection" -> [req EXCEPT !.close = TRUE]
                   [] LineText[1].name = "content-length" ->
                        [req EXCEPT !.length = LineText[1].n]
  /\ NextLine
  /\ UNCHANGED part

(* What follows the empty line. *)
AfterHead == Drop(line_buf, IF line_buf[1] = CR THEN 2 ELSE 1)

HeadEnds == pc = "parse" /\ line_buf # <<>> /\ EmptyLine
HasBody == req.length > 0
Bodiless == req.method \in {"GET", "HEAD"}
HostMissing == ~req.v10 /\ ~req.host

(* Invalid: no Host in HTTP/1.1, no memory for the body, GET with a body. *)
head_rejected ==
  /\ HeadEnds
  /\ \/ HostMissing /\ Rejects(400)
     \/ ~HostMissing /\ HasBody /\ Rejects(413)
     \/ ~HostMissing /\ HasBody /\ Bodiless /\ free # {} /\ Rejects(400)

(* No body: the request is processed at once. *)
head_processed ==
  /\ HeadEnds
  /\ ~HostMissing
  /\ ~HasBody
  /\ Finishes(ConnectionClose, AfterHead)
  /\ UNCHANGED <<clientVars, up>>

(* A body: allocate it and copy what has arrived of it. *)
head_body(b) ==
  LET here == IF Len(AfterHead) < req.length THEN Len(AfterHead) ELSE req.length
  IN /\ HeadEnds
     /\ ~HostMissing
     /\ HasBody
     /\ ~Bodiless
     /\ b \in free
     /\ free' = free \ {b}
     /\ body' = Take(AfterHead, here)
     /\ req' = [req EXCEPT !.body = b]
     /\ line_buf' = Drop(AfterHead, here)
     /\ part' = "BODY"
     /\ pc' = "body"
     /\ UNCHANGED <<clientVars, up, out, sock, headers, store, queue, handled>>

-----------------------------------------------------------------------------
(* http_input_iteration: the body.                                         *)

(* Mutant: as much is read as has arrived. *)
BodyNeed_All == Len(up)

(* recv is asked for what the body lacks. *)
BodyNeed == req.length - Len(body)

recv_body(n) ==
  /\ pc = "body"
  /\ Len(body) < req.length
  /\ n \in 1 .. Len(up)
  /\ n <= BodyNeed
  /\ body' = body \o Take(up, n)
  /\ up' = Drop(up, n)
  /\ line_buf' = <<>>
  /\ UNCHANGED <<clientVars, out, sock, pc, part, req, headers, free, store, queue, handled>>

(* The client has closed: the request is processed with what there is. *)
recv_body_eof ==
  /\ pc = "body"
  /\ Len(body) < req.length
  /\ up = <<>>
  /\ client = "closed"
  /\ Finishes(TRUE, <<>>)
  /\ UNCHANGED <<clientVars, up>>

(* The whole body: more than it in the buffer means close. *)
body_processed ==
  /\ pc = "body"
  /\ Len(body) = req.length
  /\ Finishes(ConnectionClose \/ line_buf # <<>>, <<>>)
  /\ UNCHANGED <<clientVars, up>>

(* recv fails. *)
recv_error ==
  /\ pc = "recv" \/ (pc = "body" /\ Len(body) < req.length)
  /\ client = "closed"
  /\ Closes(free, req.body)
  /\ UNCHANGED <<clientVars, up, out, store, queue, handled>>

http_input_iteration ==
  \/ \E n \in 1 .. Len(up) : recv_line(n) \/ recv_body(n)
  \/ recv_line_eof
  \/ parse_incomplete
  \/ parse_request_line
  \/ parse_header
  \/ head_rejected
  \/ head_processed
  \/ \E b \in Block : head_body(b)
  \/ recv_body_eof
  \/ body_processed

-----------------------------------------------------------------------------
(* Clients, and the rest of the server.                                    *)

(* A new connection: http_connected. *)
http_connected ==
  /\ sock = "closed"
  /\ sock' = "open"
  /\ pc' = "recv"
  /\ part' = "REQUEST"
  /\ line_buf' = <<>>
  /\ req' = NoRequest
  /\ body' = <<>>
  /\ headers' = <<>>
  /\ asked' = NULL
  /\ client' = "open"
  /\ up' = <<>>
  /\ out' = <<>>
  /\ handled' = <<>>
  /\ UNCHANGED heapVars

client_sends(r) ==
  /\ client = "open"
  /\ sock = "open"
  /\ up = <<>>
  /\ asked # NULL => out # <<>>
  /\ r.method = "PUT" => Len(store) < MaxObj
  /\ r.path = "work" => Len(queue) < MaxQueue
  /\ asked' = r
  /\ up' = Encoded(r)
  /\ out' = <<>>
  /\ handled' = <<>>
  /\ UNCHANGED <<client, connVars, heapVars>>

(* The client closes its end, perhaps before all it has written was sent. *)
client_closes(n) ==
  /\ client = "open"
  /\ sock = "open"
  /\ n \in 0 .. Len(up)
  /\ n > 0 /\ ~CutCRLF => up[n] # CR
  /\ client' = "closed"
  /\ asked' = NULL
  /\ up' = Take(up, n)
  /\ out' = <<>>
  /\ UNCHANGED <<connVars, heapVars, handled>>

(* The R session stores and removes objects (a PUT on its way has room). *)
o_put ==
  /\ Len(store) < MaxObj - 1
  /\ store' = <<[kind |-> "sfs", block |-> NULL]>> \o store
  /\ UNCHANGED <<clientVars, up, out, connVars, free, queue, handled>>

o_get_remove ==
  /\ store # <<>>
  /\ store' = Tail(store)
  /\ UNCHANGED <<clientVars, up, out, connVars, free, queue, handled>>

(* ... and takes entries from the queue: their data is freed. *)
evq_pop ==
  /\ queue # <<>>
  /\ queue' = Tail(queue)
  /\ free' = free \cup {Head(queue)}
  /\ UNCHANGED <<clientVars, up, out, connVars, store, handled>>

Init ==
  /\ asked = NULL
  /\ client = "closed"
  /\ up = <<>>
  /\ out = <<>>
  /\ sock = "closed"
  /\ pc = "end"
  /\ part = "REQUEST"
  /\ line_buf = <<>>
  /\ req = NoRequest
  /\ body = <<>>
  /\ headers = <<>>
  /\ free = Block
  /\ store = <<>>
  /\ queue = <<>>
  /\ handled = <<>>

Next ==
  \/ http_input_iteration
  \/ recv_error
  \/ http_connected
  \/ \E r \in Request : client_sends(r)
  \/ \E n \in 0 .. Len(up) : client_closes(n)
  \/ o_put
  \/ o_get_remove
  \/ evq_pop

(* The worker thread of the connection goes on while it can. *)
Fairness == WF_vars(http_input_iteration)

Spec == Init /\ [][Next]_vars
FairSpec == Spec /\ Fairness

-----------------------------------------------------------------------------
(* Properties.                                                             *)

(* Type correctness, with the bound of the body: never more of it is received
   than Content-length made room for, and a body is only there with a block. *)
TypeOK ==
  /\ asked \in Request \cup {NULL}
  /\ client \in {"open", "closed"}
  /\ sock \in {"open", "closed"}
  /\ pc \in {"recv", "parse", "body", "end", "undefined"}
  /\ part \in {"REQUEST", "HEADER", "BODY"}
  /\ req.body \in Block \cup {NULL}
  /\ Len(body) <= IF req.body = NULL THEN 0 ELSE req.length
  /\ free \in SUBSET Block
  /\ \A i \in DOMAIN store : store[i].kind \in {"raw", "sfs"} /\ store[i].block \in Block \cup {NULL}
  /\ Range(queue) \subseteq Block

(* What the server should understand of what the client has sent. *)
Meant(r) ==
  [method |-> r.method, path |-> r.path, v10 |-> r.v10, host |-> r.host, close |-> r.close,
   length |-> r.length,
   body |-> [i \in 1 .. (IF r.length > 0 THEN r.length ELSE 0) |-> [t |-> "byte", b |-> r.body[i]]]]

(* The lines of a request fit into the line buffer. *)
LinesFit(r) == r.pad < LINE_BUF_SIZE - 1

(* http_process is called with the request the client has sent: with its
   method, path, attributes and body, however the stream was cut into pieces
   and whatever requests came before on the connection. *)
RequestIntact ==
  client = "open" /\ handled # <<>> /\ LinesFit(asked) => handled[1].req = Meant(asked)

(* What a request's headers are recorded as. *)
MeantHeaders(r) == MethodLine(r.method) \o HeaderLines(r, <<NL>>)

(* When the handler is called, the header buffers hold the method and every
   header line of the request, once and in order, also where a line is split
   over two buffers; no line of an earlier request on the connection is left.
   (What the handler gets of them is another matter, see collect_buffers.) *)
LinesRecorded ==
  client = "open" /\ handled # <<>> /\ LinesFit(asked) =>
    handled[1].recorded = MeantHeaders(asked)

(* A request is handled and answered at most once: a request that was handled has its
   response and no other, and one that was answered without being handled has
   ended the connection. *)
OneResponse ==
  client = "open" /\ asked # NULL =>
    /\ Len(handled) <= 1
    /\ Len(out) <= 1
    /\ handled # <<>> /\ pc # "undefined" <=> (out # <<>> /\ out[1].delim # "close")
    /\ out # <<>> /\ out[1].delim = "close" => sock = "closed"

(* A body belongs to the request, to an object, to a queue entry or to malloc,
   and never to two of them: nobody frees what another still uses. *)
BodyOwnedOnce ==
  \A b \in Block :
    Cardinality({i \in DOMAIN store : store[i].block = b})
    + Cardinality({i \in DOMAIN queue : queue[i] = b})
    + (IF req.body = b THEN 1 ELSE 0)
    + (IF b \in free THEN 1 ELSE 0) <= 1

(* A client that waits for a response gets one, or the connection is closed, also
   when a line of its request is too long for the line buffer. *)
Answered ==
  (client = "open" /\ asked # NULL /\ out = <<>>)
    ~> (out # <<>> \/ client = "closed" \/ sock = "closed" \/ pc = "undefined")

(* When the client has closed its end, the worker leaves the connection. *)
WorkerFreed == client = "closed" ~> sock = "closed" \/ pc = "undefined"
=============================================================================
