------------------------------- MODULE SfsIO --------------------------------
(***************************************************************************)
(* An R object is stored through one of the sinks of the package and       *)
(* loaded again through the source that belongs to it:                     *)
(*   mem    createSFS and restoreSFS (mem_store.c, mem_restore.c)          *)
(*   file   saveSFS and readSFS (fd_store.c, fd_restore.c)                 *)
(*   sock   GET of an object of the store by os.ask(sfs=TRUE): a worker in *)
(*          fd_store (osrv.c) and the client in sock_restore run at the    *)
(*          same time                                                      *)
(*   http   GET of an object over HTTP (hcstore.c); the client gives the   *)
(*          content to restoreSFS                                          *)
(*   stat   statSFS (stat_store.c), which stores nothing                   *)
(*                                                                         *)
(* store is a sequence of calls of api->store; a step is one call, or one  *)
(* write of fd_store.  decode_one and sfs_load call each other; the stack  *)
(* holds one frame per sfs_load, and a step is one read, the decoding of   *)
(* what a fetch has got, or the return of one sfs_load.                    *)
(***************************************************************************)
EXTENDS Sfs, SfsSinks, FiniteSets

CONSTANTS
  Object,          \* the R objects that are stored
  Sink,            \* the sinks they are stored through
  MAX_SEND_SIZE,   \* fd_store.c: most bytes of one write
  MAX_RECV_SIZE,   \* fd_restore.c, sock_restore.c: most bytes of one read
  DEC_BUF_SIZE,    \* sfs.c: sizeof(dec_buf)
  Malloced,        \* what the uninitialised len and pos of hcstore.c may hold
  Garbage          \* bytes that memory may hold

ASSUME IOAssumption ==
  /\ Object \subseteq {v \in Robject : v.ts \notin {CHARSXP, BCODESXP}}
  /\ MIN_INPLACE_SIZE > HeaderSize
  /\ Sink \subseteq {"mem", "file", "sock", "http", "stat"}
  /\ MAX_SEND_SIZE \in Nat \ {0}
  /\ MAX_RECV_SIZE \in Nat \ {0}
  /\ DEC_BUF_SIZE \in Nat \ {0}
  /\ \A m \in Malloced : m.len \in Nat /\ m.pos \in Nat
  /\ Garbage \subseteq 0 .. 255 /\ Garbage # {}

VARIABLES
  obj,      \* the object that is stored
  sink,     \* and how
  \* the store
  calls,    \* the calls of api->store to come
  wpc,      \* "store", "malloc" before it, or how the store has ended
  left,     \* fd_store: what is still to be written of the data of a call
  bufs,     \* mem_store: the list of buffers
  api,      \* hcstore: store_api
  stats,    \* stat_store: count and size by type
  \* between store and load
  wire,     \* the bytes that can be read, up to the first that is missing
  medium,   \* the file or connection: "good"; "gap" when a header was not
            \* written though others are; "broken" when nothing is any more
  \* the load
  rpc,      \* where the load is
  stack,    \* the frames of sfs_load, the innermost first
  need,     \* the bytes the fetch is to get
  got,      \* and those it has got
  val       \* the object decode_one or sfs_load returns

storeVars == <<calls, wpc, left, bufs, api, stats>>
loadVars == <<rpc, stack, need, got, val>>
vars == <<obj, sink, storeVars, wire, medium, loadVars>>

Damaged == medium # "good"

(* wire after a write.  What follows a gap is not kept. *)
Written(bytes) == IF medium = "good" THEN wire \o bytes ELSE wire

(* The medium fails for good. *)
Breaks == medium' = IF medium = "gap" THEN "gap" ELSE "broken"

Least(S) == CHOOSE n \in S : \A m \in S : n <= m

-----------------------------------------------------------------------------
(* Storing.                                                                *)

Storing(kinds) == sink \in kinds /\ wpc = "store"
NextCall == calls # <<>> /\ calls' = Tail(calls)
NoCall == calls = <<>> /\ UNCHANGED calls

(* mem_store.c: add_buf, and collapse_buf at the end. *)
mem_add_buf ==
  /\ Storing({"mem"})
  /\ NextCall
  /\ bufs' = mem_buf_add(mem_buf_add(bufs, Header(Head(calls))), Head(calls).buf)
  /\ UNCHANGED <<obj, sink, wpc, left, api, stats, wire, medium, loadVars>>

C_mem_store ==
  /\ Storing({"mem"})
  /\ NoCall
  /\ \E g \in Garbage : wire' = collapse_buf(bufs, g)
  /\ wpc' = "stored"
  /\ UNCHANGED <<obj, sink, left, bufs, api, stats, medium, loadVars>>

(* Mutant: the size is the number of elements. *)
stat_add_Elements ==
  LET c == Head(calls)
  IN /\ Storing({"stat"})
     /\ NextCall
     /\ stats' = [stats EXCEPT ![c.ts] =
                    [count |-> @.count + 1, size |-> @.size + (IF c.el = 0 THEN 0 ELSE c.len)]]
     /\ UNCHANGED <<obj, sink, wpc, left, bufs, api, wire, medium, loadVars>>

(* stat_store.c: add. *)
stat_add ==
  LET c == Head(calls)
  IN /\ Storing({"stat"})
     /\ NextCall
     /\ stats' = [stats EXCEPT ![c.ts] =
                    [count |-> @.count + 1,
                     size |-> @.size + (IF c.el = 0 THEN 0 ELSE c.len * c.el)]]
     /\ UNCHANGED <<obj, sink, wpc, left, bufs, api, wire, medium, loadVars>>

C_stat_store ==
  /\ Storing({"stat"})
  /\ NoCall
  /\ wpc' = "stored"
  /\ UNCHANGED <<obj, sink, left, bufs, api, stats, wire, medium, loadVars>>

(* fd_store.c, add: the header is written at once. *)
fd_write_header ==
  /\ Storing({"file", "sock"})
  /\ left = <<>>
  /\ medium # "broken"
  /\ NextCall
  /\ wire' = Written(Header(Head(calls)))
  /\ left' = Head(calls).buf
  /\ UNCHANGED <<obj, sink, wpc, bufs, api, stats, medium, loadVars>>

(* write returns -1: as an unsigned number this is not less than sizeof(hdr),
   and add goes on with the data.  The next write may succeed, or none. *)
fd_write_header_fails ==
  /\ Storing({"file", "sock"})
  /\ left = <<>>
  /\ NextCall
  /\ medium' \in IF Damaged THEN {medium} ELSE {"gap", "broken"}
  /\ left' = Head(calls).buf
  /\ UNCHANGED <<obj, sink, wpc, bufs, api, stats, wire, loadVars>>

(* write returns less than the header: the descriptor is closed, R error. *)
fd_write_header_short(n) ==
  /\ Storing({"file", "sock"})
  /\ left = <<>>
  /\ medium # "broken"
  /\ NextCall
  /\ wire' = Written(Take(Header(Head(calls)), n))
  /\ Breaks
  /\ wpc' = "failed"
  /\ UNCHANGED <<obj, sink, left, bufs, api, stats, loadVars>>

(* Mutant: what a partial write leaves is not written. *)
fd_write_data_Once(n) ==
  /\ Storing({"file", "sock"})
  /\ medium # "broken"
  /\ n \in 1 .. Least({MAX_SEND_SIZE, Len(left)})
  /\ wire' = Written(Take(left, n))
  /\ left' = <<>>
  /\ UNCHANGED <<obj, sink, calls, wpc, bufs, api, stats, medium, loadVars>>

(* One write of the loop over the data, of n bytes. *)
fd_write_data(n) ==
  /\ Storing({"file", "sock"})
  /\ medium # "broken"
  /\ n \in 1 .. Least({MAX_SEND_SIZE, Len(left)})
  /\ wire' = Written(Take(left, n))
  /\ left' = Drop(left, n)
  /\ UNCHANGED <<obj, sink, calls, wpc, bufs, api, stats, medium, loadVars>>

fd_write_data_fails ==
  /\ Storing({"file", "sock"})
  /\ left # <<>>
  /\ Breaks
  /\ wpc' = "failed"
  /\ UNCHANGED <<obj, sink, calls, left, bufs, api, stats, wire, loadVars>>

C_file_store ==
  /\ Storing({"file", "sock"})
  /\ left = <<>>
  /\ NoCall
  /\ wpc' = "stored"
  /\ UNCHANGED <<obj, sink, left, bufs, api, stats, wire, medium, loadVars>>

(* hcstore.c, http_store: the memory it gets, if any, is not initialised but for
   res. *)
http_store_malloc ==
  /\ sink = "http"
  /\ wpc = "malloc"
  /\ \/ \E m \in Malloced, g \in Garbage :
          /\ api' = [len |-> m.len, buf |-> [i \in 1 .. m.pos |-> g], res |-> 0, chunks |-> <<>>]
          /\ wpc' = "store"
     \/ wpc' = "failed" /\ UNCHANGED api
  /\ UNCHANGED <<obj, sink, calls, left, bufs, stats, wire, medium, loadVars>>

(* hcstore.c: add.  Nothing is known of what follows a write beyond the
   buffer. *)
http_add ==
  /\ Storing({"http"})
  /\ NextCall
  /\ \E a \in hc_buf_add(api, Header(Head(calls))) :
       \E b \in hc_buf_add(a, Head(calls).buf) :
          /\ api' = b
          /\ wpc' = IF Overrun(a) \/ Overrun(b) THEN "overrun" ELSE wpc
  /\ UNCHANGED <<obj, sink, left, bufs, stats, wire, medium, loadVars>>

http_store ==
  /\ Storing({"http"})
  /\ NoCall
  /\ \E a \in http_store_finish(api) :
       /\ api' = a
       /\ wpc' = IF a.res = 0 THEN "stored" ELSE "failed"
       /\ wire' = IF a.res = 0 THEN FlattenSeq(a.chunks) ELSE wire
  /\ UNCHANGED <<obj, sink, left, bufs, stats, medium, loadVars>>

-----------------------------------------------------------------------------
(* Loading: fetch.                                                         *)

(* A frame of sfs_load: phase is what it waits for, a header, the data of a
   vector or name, or the kids of a list. *)
NewFrame == [phase |-> "header", ts |-> NILSXP, want |-> 0, kids |-> <<>>, attr |-> <<>>]

Fetches(n) == need' = n /\ got' = <<>> /\ rpc' = "fetch"

(* sfs_load is called for the object: for a raw vector or a file once it is
   there, on a socket while it is written.  A raw vector that collapse_buf has
   made of several buffers is wrong already and not followed further. *)
load_begins ==
  /\ rpc = "idle"
  /\ \/ sink = "sock"
     \/ sink \in {"mem", "http"} /\ wpc = "stored" /\ Len(bufs) = 1
     \/ sink = "file" /\ wpc \in {"stored", "failed"}
  /\ stack' = <<NewFrame>>
  /\ Fetches(HeaderSize)
  /\ UNCHANGED <<obj, sink, storeVars, wire, medium, val>>

Fetching(kinds) == sink \in kinds /\ rpc = "fetch" /\ Len(got) < need

LoadEnds(how) ==
  /\ rpc' = how
  /\ UNCHANGED <<obj, sink, storeVars, wire, medium, stack, need, got, val>>

(* mem_restore.c: fetch_buf. *)
fetch_buf ==
  /\ Fetching({"mem", "http"})
  /\ \/ /\ Len(wire) >= need
        /\ got' = Take(wire, need)
        /\ wire' = Drop(wire, need)
        /\ UNCHANGED <<obj, sink, storeVars, medium, rpc, stack, need, val>>
     \/ Len(wire) < need /\ LoadEnds("error")

(* Mutant: one read is thought to get everything. *)
Received_Once(n) == Take(wire, n) \o [i \in 1 .. need - Len(got) - n |-> 0]

(* What a read of n bytes adds. *)
Received(n) == Take(wire, n)

(* fd_restore.c and sock_restore.c: fetch, one read of n bytes. *)
fetch_read(n) ==
  /\ Fetching({"file", "sock"})
  /\ n \in 1 .. Least({MAX_RECV_SIZE, need - Len(got), Len(wire)})
  /\ got' = got \o Received(n)
  /\ wire' = Drop(wire, n)
  /\ UNCHANGED <<obj, sink, storeVars, medium, rpc, stack, need, val>>

(* read returns 0: the end of the file, or of the connection.  What a reader makes
   of the bytes behind a gap is not followed. *)
fetch_closed ==
  /\ Fetching({"file", "sock"})
  /\ wire = <<>>
  /\ medium # "gap"
  /\ sink = "file" \/ medium = "broken"
  /\ LoadEnds("error")

(* read fails, and so does whatever the other side still writes. *)
fetch_error ==
  /\ Fetching({"file", "sock"})
  /\ rpc' = "error"
  /\ Breaks
  /\ UNCHANGED <<obj, sink, storeVars, wire, stack, need, got, val>>

(* A timeout without data lets the user interrupt. *)
fetch_interrupted ==
  /\ Fetching({"sock"})
  /\ wire = <<>>
  /\ LoadEnds("interrupted")

-----------------------------------------------------------------------------
(* Loading: decode_one.  Its input comes from store, so that ATTRSXP has a   *)
(* positive length and an object after it.                                 *)

Top == stack[1]

Fetched == rpc = "fetch" /\ Len(got) = need

(* decode_one returns v. *)
Returns(v) ==
  /\ rpc' = "return"
  /\ val' = v
  /\ UNCHANGED <<stack, need, got>>

(* sfs_load is called for the next of the kids. *)
Descends(frame) ==
  /\ stack' = <<NewFrame, frame>> \o Tail(stack)
  /\ Fetches(HeaderSize)
  /\ UNCHANGED val

(* The data of a vector or name is fetched. *)
FetchesData(ts, n) ==
  /\ stack' = <<[Top EXCEPT !.phase = "data", !.ts = ts]>> \o Tail(stack)
  /\ Fetches(n)
  /\ UNCHANGED val

Unchanged == UNCHANGED <<obj, sink, storeVars, wire, medium>>

Ts == got[1]
HdrLen == LengthOf(Tail(got))
AtHeader == Fetched /\ Top.phase \in {"header", "object"}

(* Attributes: a pairlist, then the header of the object. *)
sfs_load_attributes ==
  /\ AtHeader
  /\ Top.phase = "header"
  /\ Ts = ATTRSXP
  /\ HdrLen > 0
  /\ Descends([Top EXCEPT !.phase = "attr", !.ts = ATTRSXP, !.want = 2 * HdrLen])
  /\ Unchanged

IsObject == AtHeader /\ ~(Top.phase = "header" /\ Ts = ATTRSXP)

EnvOf(b) ==
  IF \E id \in {"empty", "global", "base"} : EnvLen(id) = b
  THEN CHOOSE id \in {"empty", "global", "base"} : EnvLen(id) = b ELSE "base"

(* Objects that are complete with their header. *)
decode_one_simple ==
  /\ IsObject
  /\ \/ Ts = NILSXP /\ Returns(R_NilValue)
     \/ Ts = ENVSXP /\ Returns(Environment(EnvOf(Tail(got))))
     \/ Ts = SYMSXP /\ HdrLen = 0 /\ Returns(R_MissingArg)
     \/ Ts \in (DataTypes \ {RAWSXP}) \cup {VECSXP, STRSXP} \cup PairTypes /\ HdrLen = 0
        /\ Returns(IF Ts \in PairTypes THEN R_NilValue ELSE Robj(Ts, <<>>, <<>>))
  /\ Unchanged

decode_one_fetch ==
  /\ IsObject
  /\ HdrLen > 0
  /\ \/ Ts \in DataTypes \ {RAWSXP} /\ FetchesData(Ts, HdrLen * Width(Ts))
     \/ Ts \in {SYMSXP, CHARSXP} /\ HdrLen < DEC_BUF_SIZE /\ FetchesData(Ts, HdrLen)
  /\ Unchanged

(* A name or string that dec_buf has no room for is made of memory, if there is
   any, into which nothing was read. *)
decode_one_long ==
  /\ IsObject
  /\ Ts \in {SYMSXP, CHARSXP}
  /\ HdrLen >= DEC_BUF_SIZE
  /\ \/ \E g \in Garbage : Returns(Robj(Ts, IF g = 0 THEN <<>> ELSE <<g>>, <<>>)) /\ Unchanged
     \/ LoadEnds("error")

decode_one_kids ==
  /\ IsObject
  /\ \/ Ts \in {VECSXP, STRSXP} /\ HdrLen > 0
        /\ Descends([Top EXCEPT !.phase = "kids", !.ts = Ts, !.want = HdrLen])
     \/ Ts \in PairTypes /\ HdrLen > 0
        /\ Descends([Top EXCEPT !.phase = "kids", !.ts = Ts, !.want = 2 * HdrLen])
     \/ Ts = CLOSXP
        /\ Descends([Top EXCEPT !.phase = "kids", !.ts = Ts, !.want = 3])
  /\ Unchanged

(* Unimplemented types, and lengths nothing can be allocated for. *)
decode_one_error ==
  /\ AtHeader
  /\ \/ Ts \notin {NILSXP, SYMSXP, CLOSXP, ENVSXP, CHARSXP, STRSXP, VECSXP, ATTRSXP}
                   \cup PairTypes \cup (DataTypes \ {RAWSXP})
     \/ Ts # ENVSXP /\ HdrLen = HUGE
  /\ LoadEnds("error")

(* The bytes of a C string up to its end. *)
CString(b) ==
  LET zeros == {i \in DOMAIN b : b[i] = 0}
  IN IF zeros = {} THEN b ELSE Take(b, Least(zeros) - 1)

decode_one_data ==
  /\ Fetched
  /\ Top.phase = "data"
  /\ Returns(Robj(Top.ts, IF Top.ts \in DataTypes THEN got ELSE CString(got), <<>>))
  /\ Unchanged

-----------------------------------------------------------------------------
(* Loading: the return of sfs_load.                                        *)

(* Mutant: only the first attribute is looked at for the class. *)
Attributed_First(v, attr) ==
  IF attr = <<>> THEN v
  ELSE [v EXCEPT !.attr = attr, !.object = attr[1] = R_ClassSymbol]

(* The attributes are set, and the object flag if there is a class. *)
Attributed(v, attr) == IF attr = <<>> THEN v ELSE WithAttr(v, attr)

Result == Attributed(val, Top.attr)
Caller == [stack[2] EXCEPT !.kids = Append(@, Result)]
Complete == Len(Caller.kids) = Caller.want

sfs_load_returns ==
  /\ rpc = "return"
  /\ \/ /\ Len(stack) = 1
        /\ rpc' = "loaded"
        /\ val' = Result
        /\ stack' = <<>>
        /\ UNCHANGED <<need, got>>
     \/ /\ Len(stack) > 1
        /\ ~Complete
        /\ stack' = <<NewFrame, Caller>> \o Drop(stack, 2)
        /\ Fetches(HeaderSize)
        /\ UNCHANGED val
     \/ /\ Len(stack) > 1
        /\ Complete
        /\ Caller.phase = "attr"
        /\ stack' = <<[NewFrame EXCEPT !.phase = "object", !.attr = Caller.kids]>> \o Drop(stack, 2)
        /\ Fetches(HeaderSize)
        /\ UNCHANGED val
     \/ /\ Len(stack) > 1
        /\ Complete
        /\ Caller.phase = "kids"
        /\ stack' = <<Caller>> \o Drop(stack, 2)
        /\ val' = Robj(Caller.ts, <<>>, Caller.kids)
        /\ UNCHANGED <<rpc, need, got>>
  /\ Unchanged

-----------------------------------------------------------------------------
(* The calls an object is stored by. *)
CallsOf == [o \in Object |-> store[o]]

Init ==
  /\ obj \in Object
  /\ sink \in Sink
  /\ calls = CallsOf[obj]
  /\ wpc = IF sink = "http" THEN "malloc" ELSE "store"
  /\ left = <<>>
  /\ bufs = <<alloc_buf(DEF_BUF_SIZE)>>
  /\ api = [len |-> 0, buf |-> <<>>, res |-> 0, chunks |-> <<>>]
  /\ stats = [t \in SxpTypes |-> [count |-> 0, size |-> 0]]
  /\ wire = <<>>
  /\ medium = "good"
  /\ rpc = "idle"
  /\ stack = <<>>
  /\ need = 0
  /\ got = <<>>
  /\ val = R_NilValue

sfs_store ==
  \/ mem_add_buf
  \/ C_mem_store
  \/ stat_add
  \/ C_stat_store
  \/ fd_write_header
  \/ fd_write_header_fails
  \/ \E n \in 0 .. HeaderSize - 1 : fd_write_header_short(n)
  \/ \E n \in 1 .. Len(left) : fd_write_data(n)
  \/ fd_write_data_fails
  \/ C_file_store
  \/ http_store_malloc
  \/ http_add
  \/ http_store

sfs_load ==
  \/ load_begins
  \/ fetch_buf
  \/ \E n \in 1 .. Len(wire) : fetch_read(n)
  \/ fetch_closed
  \/ sfs_load_attributes
  \/ decode_one_simple
  \/ decode_one_fetch
  \/ decode_one_long
  \/ decode_one_kids
  \/ decode_one_error
  \/ decode_one_data
  \/ sfs_load_returns

Next == sfs_store \/ sfs_load \/ fetch_error \/ fetch_interrupted

(* The thread that stores and the one that loads go on while they can. *)
Fairness == WF_vars(sfs_store) /\ WF_vars(sfs_load)

Spec == Init /\ [][Next]_vars
FairSpec == Spec /\ Fairness

-----------------------------------------------------------------------------
(* Properties.                                                             *)

(* The calls made so far, their bytes, and by type their number and the size of
   their data. *)
Made == Take(CallsOf[obj], Len(CallsOf[obj]) - Len(calls))
Stored == Stream(Made)
Counted(t) ==
  [count |-> Cardinality({i \in DOMAIN Made : Made[i].ts = t}),
   size |-> Len(FlattenSeq([i \in DOMAIN Made |-> IF Made[i].ts = t THEN Made[i].buf ELSE <<>>]))]

(* Whatever the sizes of buffers, data and headers: what a sink has written,
   sent or buffered are the bytes of the calls so far, none lost, repeated or
   overtaken where mem_store splits data over buffers, hcstore flushes its
   buffer or sends data past it, and fd_store writes in pieces; a chunked
   response has its end, the empty chunk, at its end only; and what statSFS
   counts are, by type, those calls and the bytes of their data. *)
Accounted ==
  /\ sink = "mem" => Contents(bufs) = Stored
  /\ sink = "file" /\ wpc = "store" /\ ~Damaged => wire \o left = Stored
  /\ sink = "http" /\ api.res = 0 /\ wpc # "overrun" =>
       /\ FlattenSeq(api.chunks) \o api.buf = Stored
       /\ \A i \in DOMAIN api.chunks :
            api.chunks[i] = <<>> <=> (wpc = "stored" /\ i = Len(api.chunks))
  /\ sink = "stat" => \A t \in SxpTypes : stats[t] = Counted(t)

(* Strings and names that dec_buf has room for. *)
Short == \A i \in DOMAIN CallsOf[obj] :
           CallsOf[obj][i].ts \in {CHARSXP, SYMSXP} => CallsOf[obj][i].len < DEC_BUF_SIZE

(* What is loaded is what was stored, up to what the format cannot express,
   through every source, however writes and reads are cut and interleaved;
   the load ends exactly at the last byte of the object, so that whatever
   follows on a connection is left for the next answer; and it fails only if
   the object is of a type the loader does not know or the medium has failed,
   never for a slow or partial delivery. *)
RoundTrip ==
  Short =>
    /\ rpc = "loaded" =>
         /\ Restorable[obj]
         /\ val = Restored[obj]
         /\ wire = <<>> /\ left = <<>> /\ calls = <<>>
    /\ rpc = "error" => Damaged \/ ~Restorable[obj]

(* A load that has begun ends, with an object or an error: unless a header has
   got lost on the way, the reader never waits for bytes that the writer has not
   got. *)
LoadReturns ==
  rpc = "fetch" ~> rpc \in {"loaded", "error", "interrupted"} \/ medium = "gap"

(* A store that returns without an error has stored the whole object. *)
StoredWhole == wpc = "stored" /\ sink # "stat" /\ rpc = "idle" => wire = Stream(CallsOf[obj])
=============================================================================
