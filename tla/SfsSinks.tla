------------------------------ MODULE SfsSinks ------------------------------
(***************************************************************************)
(* The buffers that collect serialised bytes: the list of buffers of       *)
(* mem_store.c, from which createSFS makes a raw vector, and the chunk     *)
(* buffer of hcstore.c, from which an HTTP response is sent.  Operators    *)
(* only; SfsIO holds the state.                                            *)
(***************************************************************************)
EXTENDS Integers, Sequences, SequencesExt

CONSTANTS
  DEF_BUF_SIZE,      \* mem_store.c: capacity of a new buffer
  MAX_CHUNK_SIZE,    \* hcstore.c: size of the chunk buffer
  MIN_INPLACE_SIZE   \* hcstore.c: data of this size need not be buffered

(* hcstore.c: "this must be at most half of the above". *)
ASSUME SinkAssumption ==
  /\ DEF_BUF_SIZE \in Nat \ {0}
  /\ MAX_CHUNK_SIZE \in Nat \ {0}
  /\ MIN_INPLACE_SIZE \in Nat \ {0}
  /\ 2 * MIN_INPLACE_SIZE <= MAX_CHUNK_SIZE

Take(s, n) == SubSeq(s, 1, n)
Drop(s, n) == SubSeq(s, n + 1, Len(s))

-----------------------------------------------------------------------------
(* mem_store.c: bufs is the list from root to tail.                        *)

alloc_buf(size) == [cap |-> size, d |-> <<>>]

Room(b) == b.cap - Len(b.d)

(* Mutant: what did not fit is started again from its beginning. *)
mem_buf_add_Restart(bufs, what) ==
  LET tail == Last(bufs)
  IN IF Room(tail) < Len(what)
     THEN Front(bufs) \o
          << [tail EXCEPT !.d = @ \o Take(what, Room(tail))],
             [alloc_buf(DEF_BUF_SIZE) EXCEPT !.d = what] >>
     ELSE Append(Front(bufs), [tail EXCEPT !.d = @ \o what])

(* buf_add: fill the last buffer, and a new one with the rest. *)
mem_buf_add(bufs, what) ==
  LET tail == Last(bufs)
      size == IF Len(what) > DEF_BUF_SIZE THEN Len(what) + DEF_BUF_SIZE ELSE DEF_BUF_SIZE
  IN IF Room(tail) < Len(what)
     THEN Front(bufs) \o
          << [tail EXCEPT !.d = @ \o Take(what, Room(tail))],
             [alloc_buf(size) EXCEPT !.d = Drop(what, Room(tail))] >>
     ELSE Append(Front(bufs), [tail EXCEPT !.d = @ \o what])

Contents(bufs) == FlattenSeq([i \in DOMAIN bufs |-> bufs[i].d])

(* collapse_buf: a vector of the total length, to whose start every buffer is
   copied; the bytes that none reaches are what the memory held, g. *)
collapse_buf(bufs, g) ==
  LET reach(i) == {k \in DOMAIN bufs : Len(bufs[k].d) >= i}
      last(i) == CHOOSE k \in reach(i) : \A m \in reach(i) : m <= k
  IN [i \in 1 .. Len(Contents(bufs)) |-> IF reach(i) = {} THEN g ELSE bufs[last(i)].d[i]]

-----------------------------------------------------------------------------
(* hcstore.c: api is its store_api with len; buf, whose length is pos; res, *)
(* and the chunks that were sent.                                          *)

(* len > api->len - api->pos in size_t: with pos beyond len the difference
   wraps around and nothing is larger. *)
NoRoom(api, n) == api.len >= Len(api.buf) /\ n > api.len - Len(api.buf)

(* http_send_chunk sends the chunk or fails. *)
http_send_chunk(api, chunk) ==
  {[api EXCEPT !.chunks = Append(@, chunk)], [api EXCEPT !.res = -1]}

Emptied(api) == [api EXCEPT !.buf = <<>>]

(* The buffer is flushed if it or the data is large enough to be sent. *)
flush(api, what) ==
  IF /\ NoRoom(api, Len(what))
     /\ Len(api.buf) >= MIN_INPLACE_SIZE \/ Len(what) >= MIN_INPLACE_SIZE
  THEN {IF a.res = 0 THEN Emptied(a) ELSE a : a \in http_send_chunk(api, api.buf)}
  ELSE {api}

(* Mutant: large data is sent although the buffer holds what comes before. *)
hc_fill_Overtake(api, what) ==
  IF api.res # 0 THEN {api}
  ELSE IF Len(what) >= MIN_INPLACE_SIZE THEN http_send_chunk(api, what)
  ELSE {[api EXCEPT !.buf = @ \o what]}

(* Large data goes directly, other data into the buffer. *)
hc_fill(api, what) ==
  IF api.res # 0 THEN {api}
  ELSE IF api.buf = <<>> /\ Len(what) >= MIN_INPLACE_SIZE THEN http_send_chunk(api, what)
  ELSE {[api EXCEPT !.buf = @ \o what]}

(* buf_add, as the set of its outcomes. *)
hc_buf_add(api, what) ==
  IF api.res # 0 THEN {api}
  ELSE UNION {hc_fill(a, what) : a \in flush(api, what)}

(* The memcpy of buf_add has written beyond the buffer. *)
Overrun(api) == Len(api.buf) > MAX_CHUNK_SIZE

(* http_store after sfs_store: the rest of the buffer and the final chunk. *)
http_store_finish(api) ==
  LET sent == IF api.res = 0 /\ api.buf # <<>>
              THEN {IF a.res = 0 THEN Emptied(a) ELSE a : a \in http_send_chunk(api, api.buf)}
              ELSE {api}
  IN UNION {IF a.res = 0 THEN http_send_chunk(a, <<>>) ELSE {a} : a \in sent}
=============================================================================
