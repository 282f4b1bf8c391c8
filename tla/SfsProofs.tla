------------------------------ MODULE SfsProofs -----------------------------
(***************************************************************************)
(* Serialisation, for every object, every size of buffer, threshold and    *)
(* read.  In this order: the buffers of mem_store.c and hcstore.c; the     *)
(* recursive functions store, Restorable and Restored, by induction on     *)
(* the depth of an object; every sink gets the bytes of the object; the    *)
(* format, that is, which bytes follow which header; and the loader, whose *)
(* stack of sfs_load frames is related to the bytes that are still ahead   *)
(* of it.                                                                  *)
(***************************************************************************)
EXTENDS SfsIO, ListLemmas, FiniteSetTheorems

Byte == 0 .. 255
Data == Seq(Byte)
Chunks == Seq(Data)

(* store_api of hcstore.c when len holds the size of the buffer. *)
Api == [len : {MAX_CHUNK_SIZE}, buf : Data, res : {0, -1}, chunks : Chunks]

(* Within the buffer. *)
Fits(h) == h \in Api /\ Len(h.buf) <= MAX_CHUNK_SIZE

(* http_send_chunk touches the buffer in no case. *)
LEMMA SendKeeps ==
  ASSUME NEW h \in Api, NEW chunk \in Data, NEW a \in http_send_chunk(h, chunk)
  PROVE  a \in Api /\ a.buf = h.buf
<1>1. h.chunks \in Chunks
  BY DEF Api
<1>2. Append(h.chunks, chunk) \in Chunks
  BY <1>1 DEF Chunks
<1>3. CASE a = [h EXCEPT !.chunks = Append(@, chunk)]
  BY <1>3, <1>2 DEF Api
<1>4. CASE a = [h EXCEPT !.res = -1]
  BY <1>4 DEF Api
<1> QED BY <1>3, <1>4 DEF http_send_chunk

(* After the flush either the data fits, it is sent directly, or an error has
   been noted. *)
LEMMA FlushMakesRoom ==
  ASSUME NEW h, Fits(h), NEW what \in Data, NEW a \in flush(h, what)
  PROVE  /\ Fits(a)
         /\ \/ a.res # 0
            \/ Len(a.buf) + Len(what) <= MAX_CHUNK_SIZE
            \/ a.buf = <<>> /\ Len(what) >= MIN_INPLACE_SIZE
<1> USE SinkAssumption
<1> DEFINE big == Len(h.buf) >= MIN_INPLACE_SIZE \/ Len(what) >= MIN_INPLACE_SIZE
<1>0. /\ h.buf \in Data /\ h.len = MAX_CHUNK_SIZE
      /\ Len(h.buf) \in Nat /\ Len(what) \in Nat /\ Len(h.buf) <= MAX_CHUNK_SIZE
  BY DEF Fits, Api, Data
<1>1. CASE NoRoom(h, Len(what)) /\ big
  <2>1. PICK b \in http_send_chunk(h, h.buf) : a = IF b.res = 0 THEN Emptied(b) ELSE b
    BY <1>1 DEF flush
  <2>2. b \in Api /\ b.buf = h.buf
    BY <1>0, SendKeeps DEF Fits
  <2>3. CASE b.res # 0
    BY <1>0, <2>1, <2>2, <2>3 DEF Fits
  <2>4. CASE b.res = 0
    <3>1. a = [b EXCEPT !.buf = <<>>]
      BY <2>1, <2>4 DEF Emptied
    <3>0. <<>> \in Data
      BY DEF Data
    <3>2. a \in Api /\ a.buf = <<>>
      BY <2>2, <3>0, <3>1 DEF Api
    <3>3. Len(a.buf) = 0
      BY <3>2
    <3>4. Len(what) < MIN_INPLACE_SIZE => Len(a.buf) + Len(what) <= MAX_CHUNK_SIZE
      BY <1>0, <3>3
    <3> QED BY <1>0, <3>2, <3>3, <3>4 DEF Fits
  <2> QED BY <2>3, <2>4
<1>2. CASE ~(NoRoom(h, Len(what)) /\ big)
  <2>1. a = h
    BY <1>2 DEF flush
  <2>2. Len(h.buf) + Len(what) <= MAX_CHUNK_SIZE
    BY <1>0, <1>2 DEF NoRoom
  <2> QED BY <2>1, <2>2
<1> QED BY <1>1, <1>2

(* The NOTE of buf_add: "now len must fit in the buffer, because if it didn't
   we would have sent either it or the buffer (or both) already".  For every
   size of buffer, threshold of at most half of it, and data, buf_add leaves
   the buffer within its size, provided that len holds that size. *)
THEOREM BufAddFits ==
  ASSUME NEW h, Fits(h), NEW what \in Data, NEW b \in hc_buf_add(h, what)
  PROVE  Fits(b) /\ ~Overrun(b)
<1> USE SinkAssumption
<1>1. CASE h.res # 0
  BY <1>1 DEF hc_buf_add, Fits, Api, Overrun
<1>2. CASE h.res = 0
  <2>1. PICK a \in flush(h, what) : b \in hc_fill(a, what)
    BY <1>2 DEF hc_buf_add
  <2>2. /\ Fits(a)
        /\ \/ a.res # 0
           \/ Len(a.buf) + Len(what) <= MAX_CHUNK_SIZE
           \/ a.buf = <<>> /\ Len(what) >= MIN_INPLACE_SIZE
    BY FlushMakesRoom
  <2>3. a \in Api /\ a.buf \in Data /\ Len(a.buf) \in Nat /\ Len(a.buf) <= MAX_CHUNK_SIZE
    BY <2>2 DEF Fits, Api, Data
  <2>4. CASE a.res # 0
    BY <2>1, <2>2, <2>3, <2>4 DEF hc_fill, Fits, Overrun
  <2>5. CASE a.res = 0 /\ a.buf = <<>> /\ Len(what) >= MIN_INPLACE_SIZE
    <3>1. b \in http_send_chunk(a, what)
      BY <2>1, <2>5 DEF hc_fill
    <3>2. b \in Api /\ b.buf = a.buf
      BY <2>3, <3>1, SendKeeps
    <3> QED BY <2>3, <3>2 DEF Fits, Overrun
  <2>6. CASE a.res = 0 /\ ~(a.buf = <<>> /\ Len(what) >= MIN_INPLACE_SIZE)
    <3>1. b = [a EXCEPT !.buf = @ \o what]
      BY <2>1, <2>6 DEF hc_fill
    <3>0. a.buf \o what \in Data
      BY <2>3 DEF Data
    <3>2. b \in Api /\ b.buf = a.buf \o what
      BY <2>3, <3>0, <3>1 DEF Api
    <3>3. Len(b.buf) = Len(a.buf) + Len(what) /\ Len(what) \in Nat
      BY <2>3, <3>2 DEF Data
    <3> QED BY <2>2, <2>3, <2>6, <3>2, <3>3 DEF Fits, Overrun
  <2> QED BY <2>4, <2>5, <2>6
<1> QED BY <1>1, <1>2

-----------------------------------------------------------------------------
(* mem_store.c: the memcpys of buf_add stay within the buffers.            *)

Buf == {b \in [cap : Nat, d : Data] : Len(b.d) <= b.cap}

(* Taking and dropping part of the data. *)
LEMMA TakeDrop ==
  ASSUME NEW s \in Data, NEW n \in 0 .. Len(s)
  PROVE  /\ Take(s, n) \in Data /\ Len(Take(s, n)) = n
         /\ Drop(s, n) \in Data /\ Len(Drop(s, n)) = Len(s) - n
         /\ s = Take(s, n) \o Drop(s, n)
<1>1. Data = Seq(Byte)
  BY DEF Data
<1>2. /\ SubSeq(s, 1, n) \in Data /\ Len(SubSeq(s, 1, n)) = n
      /\ SubSeq(s, n + 1, Len(s)) \in Data /\ Len(SubSeq(s, n + 1, Len(s))) = Len(s) - n
  BY <1>1, CutParts
<1>3. s = SubSeq(s, 1, n) \o SubSeq(s, n + 1, Len(s))
  BY <1>1, CutSeq
<1> QED BY <1>2, <1>3, Zenon DEF Take, Drop

(* Data is put together in any order. *)
LEMMA DataAssoc ==
  ASSUME NEW a \in Data, NEW b \in Data, NEW c \in Data
  PROVE  (a \o b) \o c = a \o (b \o c)
BY SMT DEF Data

LEMMA DataJoin ==
  ASSUME NEW a \in Data, NEW b \in Data
  PROVE  a \o b \in Data
BY DEF Data

(* More data in a buffer that has room for it. *)
LEMMA BufExtend ==
  ASSUME NEW b \in Buf, NEW s \in Data, Len(s) <= Room(b)
  PROVE  [b EXCEPT !.d = @ \o s] \in Buf
<1>1. b.d \in Data /\ b.cap \in Nat /\ Len(b.d) <= b.cap
  BY DEF Buf
<1>2. b.d \o s \in Data /\ Len(b.d \o s) = Len(b.d) + Len(s) /\ Len(b.d) \in Nat /\ Len(s) \in Nat
  BY <1>1 DEF Data
<1>3. Len(b.d \o s) <= b.cap
  BY <1>1, <1>2 DEF Room
<1>4. b \in [cap : Nat, d : Data]
  BY DEF Buf
<1> DEFINE c == [b EXCEPT !.d = @ \o s]
<1>5. c \in [cap : Nat, d : Data] /\ c.d = b.d \o s /\ c.cap = b.cap
  BY <1>2, <1>4
<1> QED BY <1>3, <1>5 DEF Buf

(* buf_add of mem_store.c fills the last buffer and a new one of a size chosen
   from that of the data: for every DEF_BUF_SIZE and all data, no buffer holds
   more than it was allocated for. *)
THEOREM MemBufAddFits ==
  ASSUME NEW bs \in Seq(Buf), bs # <<>>, NEW what \in Data
  PROVE  mem_buf_add(bs, what) \in Seq(Buf) /\ mem_buf_add(bs, what) # <<>>
<1> USE SinkAssumption
<1> DEFINE tail == Last(bs)
           size == IF Len(what) > DEF_BUF_SIZE THEN Len(what) + DEF_BUF_SIZE ELSE DEF_BUF_SIZE
           new == [alloc_buf(size) EXCEPT !.d = Drop(what, Room(tail))]
           filled == [tail EXCEPT !.d = @ \o Take(what, Room(tail))]
<1>1. tail \in Buf /\ Front(bs) \in Seq(Buf)
  BY DEF Last, Front
<1>2. Len(what) \in Nat /\ Room(tail) \in Nat
  <2>1. tail.d \in Data /\ tail.cap \in Nat /\ Len(tail.d) <= tail.cap
    BY <1>1 DEF Buf
  <2>2. Len(tail.d) \in Nat /\ Len(what) \in Nat
    BY <2>1 DEF Data
  <2> HIDE DEF tail
  <2> QED BY <2>1, <2>2 DEF Room
<1> HIDE DEF tail
<1>3. CASE Room(tail) < Len(what)
  <2>1. /\ Take(what, Room(tail)) \in Data /\ Len(Take(what, Room(tail))) = Room(tail)
        /\ Drop(what, Room(tail)) \in Data
        /\ Len(Drop(what, Room(tail))) = Len(what) - Room(tail)
    <3>1. Room(tail) \in 0 .. Len(what)
      BY <1>2, <1>3
    <3> QED BY <3>1, TakeDrop
  <2>2. Len(Take(what, Room(tail))) <= Room(tail)
    BY <1>2, <2>1
  <2>3. filled \in Buf
    BY <1>1, <2>1, <2>2, BufExtend, Zenon
  <2>4. size \in Nat /\ Len(what) <= size
    BY <1>2
  <2> HIDE DEF size
  <2>5. new = [cap |-> size, d |-> Drop(what, Room(tail))]
    BY DEF alloc_buf
  <2>6. new \in Buf
    BY <1>2, <2>1, <2>4, <2>5 DEF Buf
  <2>7. mem_buf_add(bs, what) = Front(bs) \o <<filled, new>>
    BY <1>3 DEF mem_buf_add, tail, size
  <2> HIDE DEF filled, new
  <2> QED BY <1>1, <2>3, <2>6, <2>7
<1>4. CASE ~(Room(tail) < Len(what))
  <2>1. Len(what) <= Room(tail)
    BY <1>2, <1>4
  <2>2. [tail EXCEPT !.d = @ \o what] \in Buf
    BY <1>1, <2>1, BufExtend, Zenon
  <2>3. mem_buf_add(bs, what) = Append(Front(bs), [tail EXCEPT !.d = @ \o what])
    BY <1>4 DEF mem_buf_add, tail
  <2> QED BY <1>1, <2>2, <2>3
<1> QED BY <1>3, <1>4

-----------------------------------------------------------------------------
(* The calls of api->store.                                                *)

(* A call has the bytes of len elements of size el, or none; the length of an
   environment is one of the format's seven bytes. *)
ACall ==
  {c \in [ts : SxpTypes, el : Nat, len : Nat \cup Data, buf : Data] :
     /\ (c.ts = ENVSXP => c.el = 0 /\ c.len \in Data /\ Len(c.len) = 7)
     /\ (c.ts # ENVSXP => c.len \in Nat)
     /\ (c.el = 0 => c.buf = <<>>)
     /\ (c.el # 0 => c.ts # ENVSXP /\ c.len * c.el = Len(c.buf))}
Calls == Seq(ACall)

(* The components of an object. *)
Below(v) == {w \in Robject : Depth[w] < Depth[v]}

(* The calls of a sequence of parts are calls; they depend on f at the parts only. *)
LEMMA EachTyped ==
  ASSUME NEW f, NEW s \in Seq(Robject), \A i \in DOMAIN s : f[s[i]] \in Calls
  PROVE  Each(f, s) \in Calls
<1> DEFINE e == [i \in DOMAIN s |-> f[s[i]]]
<1>1. DOMAIN s = 1 .. Len(s) /\ Len(s) \in Nat
  OBVIOUS
<1>2. e \in Seq(Calls)
  BY <1>1
<1>3. FlattenSeq(e) \in Calls
  <2> HIDE DEF e
  <2> QED BY <1>2, FlattenType DEF Calls
<1> QED BY <1>3 DEF Each

LEMMA EachSame ==
  ASSUME NEW f, NEW g, NEW s \in Seq(Robject), \A i \in DOMAIN s : f[s[i]] = g[s[i]]
  PROVE  Each(f, s) = Each(g, s)
<1>1. [i \in DOMAIN s |-> f[s[i]]] = [i \in DOMAIN s |-> g[s[i]]]
  OBVIOUS
<1> QED BY <1>1 DEF Each

(* A call that only has a header. *)
LEMMA HeaderCall ==
  ASSUME NEW ts \in SxpTypes \ {ENVSXP}, NEW n \in Nat
  PROVE  Call(ts, 0, n, <<>>) \in ACall
<1> DEFINE c == Call(ts, 0, n, <<>>)
<1>1. c.ts = ts /\ c.el = 0 /\ c.len = n /\ c.buf = <<>>
  BY DEF Call
<1>2. <<>> \in Data /\ n \in Nat \cup Data /\ ts \in SxpTypes /\ 0 \in Nat
  BY DEF Data
<1>3. c \in [ts : SxpTypes, el : Nat, len : Nat \cup Data, buf : Data]
  BY <1>2 DEF Call
<1> HIDE DEF c
<1>4. c \in ACall
  BY <1>1, <1>3 DEF ACall
<1> QED BY <1>4 DEF c

(* A call with the bytes of a vector, name or string. *)
LEMMA DataCall ==
  ASSUME NEW ts \in SxpTypes \ {ENVSXP}, NEW el \in Nat \ {0}, NEW n \in Nat, NEW d \in Data,
         n * el = Len(d)
  PROVE  Call(ts, el, n, d) \in ACall
<1> DEFINE c == Call(ts, el, n, d)
<1>1. c.ts = ts /\ c.el = el /\ c.len = n /\ c.buf = d
  BY DEF Call
<1>2. n \in Nat \cup Data /\ ts \in SxpTypes /\ el \in Nat
  OBVIOUS
<1>3. c \in [ts : SxpTypes, el : Nat, len : Nat \cup Data, buf : Data]
  BY <1>2 DEF Call
<1> HIDE DEF c
<1>4. c \in ACall
  BY <1>1, <1>3 DEF ACall
<1> QED BY <1>4 DEF c

(* The two calls whose length is not that of a vector: a string with its NUL and
   an environment. *)
LEMMA TerminatedCall ==
  ASSUME NEW ts \in SxpTypes \ {ENVSXP}, NEW d \in Data
  PROVE  Call(ts, 1, Len(d) + 1, Terminated(d)) \in ACall
<1>1. Terminated(d) \in Data /\ Len(Terminated(d)) = Len(d) + 1 /\ Len(d) \in Nat
  BY DEF Data, Terminated, Byte
<1>2. Len(d) + 1 \in Nat /\ (Len(d) + 1) * 1 = Len(Terminated(d))
  BY <1>1
<1> HIDE DEF Terminated
<1> QED BY <1>1, <1>2, DataCall

LEMMA EnvCall ==
  ASSUME NEW id
  PROVE  Call(ENVSXP, 0, EnvLen(id), <<>>) \in ACall
<1> DEFINE c == Call(ENVSXP, 0, EnvLen(id), <<>>)
<1>1. c.ts = ENVSXP /\ c.el = 0 /\ c.len = EnvLen(id) /\ c.buf = <<>>
  BY DEF Call
<1>2. EnvLen(id) \in Data /\ Len(EnvLen(id)) = 7
  <2>1. CASE id = "empty"
    BY <2>1 DEF EnvLen, Data, Byte
  <2>2. CASE id = "global"
    BY <2>2 DEF EnvLen, Data, Byte
  <2>3. CASE id = "base"
    BY <2>3 DEF EnvLen, Data, Byte
  <2>4. CASE id \notin {"empty", "global", "base"}
    <3>1. EnvLen(id) = <<0, 0, 0, 0, 0, 0, 0>>
      BY <2>4, Zenon DEF EnvLen
    <3> QED BY <3>1 DEF Data, Byte
  <2> QED BY <2>1, <2>2, <2>3, <2>4
<1>3. <<>> \in Data /\ EnvLen(id) \in Nat \cup Data /\ ENVSXP \in SxpTypes /\ 0 \in Nat
  BY <1>2 DEF Data, SxpTypes
<1>4. c \in [ts : SxpTypes, el : Nat, len : Nat \cup Data, buf : Data]
  BY <1>3 DEF Call
<1> HIDE DEF c
<1>5. c \in ACall
  BY <1>1, <1>2, <1>4 DEF ACall
<1> QED BY <1>5 DEF c

(* What the calls for an object are made of, one kind of object after the
   other. *)
LEMMA Formed ==
  ASSUME NEW v \in Robject
  PROVE  /\ Depth[v] \in 0 .. MAX_DEPTH
         /\ v.ts \in SxpTypes \ {ATTRSXP}
         /\ v.data \in Data
         /\ v.kids \in Seq(Robject)
         /\ v.attr \in Seq(Robject)
         /\ \A i \in DOMAIN v.kids : v.kids[i] \in Below(v)
         /\ \A i \in DOMAIN v.attr : v.attr[i] \in Below(v)
<1>1. WellFormed(v) /\ Depth[v] \in 0 .. MAX_DEPTH
  BY ObjectAssumption
<1>2. /\ v.ts \in SxpTypes \ {ATTRSXP}
      /\ v.data \in Data
      /\ v.kids \in Seq(Robject)
      /\ v.attr \in Seq(Robject)
      /\ \A i \in DOMAIN v.kids : Depth[v.kids[i]] < Depth[v]
      /\ \A i \in DOMAIN v.attr : Depth[v.attr[i]] < Depth[v]
  BY <1>1 DEF WellFormed, Data, Byte
<1>3. ASSUME NEW i \in DOMAIN v.kids PROVE v.kids[i] \in Below(v)
  BY <1>2 DEF Below
<1>4. ASSUME NEW i \in DOMAIN v.attr PROVE v.attr[i] \in Below(v)
  BY <1>2 DEF Below
<1> QED BY <1>1, <1>2, <1>3, <1>4

(* The three objects that a closure is stored by. *)
ClosureParts(v) == <<v.kids[1], BodyExpr(v.kids[2]), v.kids[3]>>

(* The parts of a closure are among the objects below it. *)
LEMMA ClosureFormed ==
  ASSUME NEW v \in Robject, v.ts = CLOSXP
  PROVE  /\ ClosureParts(v) \in Seq(Robject)
         /\ \A i \in DOMAIN ClosureParts(v) : ClosureParts(v)[i] \in Below(v)
<1>1. Len(v.kids) = 3
  BY ObjectAssumption DEF WellFormed
<1>2. v.kids[1] \in Below(v) /\ v.kids[2] \in Below(v) /\ v.kids[3] \in Below(v)
  <2>1. 1 \in DOMAIN v.kids /\ 2 \in DOMAIN v.kids /\ 3 \in DOMAIN v.kids
    BY <1>1, Formed
  <2> QED BY <2>1, Formed
<1>3. BodyExpr(v.kids[2]) \in Below(v)
  <2> DEFINE b == v.kids[2]
  <2>1. b \in Robject /\ Depth[b] < Depth[v]
    BY <1>2 DEF Below
  <2> HIDE DEF b
  <2>2. CASE b.ts # BCODESXP
    BY <2>2, <1>2 DEF BodyExpr, b
  <2>3. CASE b.ts = BCODESXP
    <3>1. Len(b.kids) = 1
      BY <2>1, <2>3, ObjectAssumption DEF WellFormed
    <3>2. 1 \in DOMAIN b.kids
      BY <2>1, <3>1, Formed
    <3>3. b.kids[1] \in Robject /\ Depth[b.kids[1]] < Depth[b]
      BY <2>1, <3>2, Formed DEF Below
    <3>4. Depth[b] \in Nat /\ Depth[v] \in Nat /\ Depth[b.kids[1]] \in Nat
      BY <2>1, <3>3, Formed, ObjectAssumption
    <3>5. Depth[b.kids[1]] < Depth[v]
      BY <2>1, <3>3, <3>4
    <3> QED BY <2>3, <3>3, <3>5 DEF BodyExpr, Below, b
  <2> QED BY <2>2, <2>3
<1> HIDE DEF BodyExpr
<1> QED BY <1>2, <1>3 DEF ClosureParts, Below

(* The alternatives of store exclude each other. *)
LEMMA Exclusive ==
  ASSUME NEW t
  PROVE  /\ (t \in DataTypes =>
               t \notin PairTypes /\ t # VECSXP /\ t # STRSXP /\ t # SYMSXP /\ t # CLOSXP /\ t # ENVSXP)
         /\ (t = VECSXP => t \notin DataTypes \cup PairTypes \cup {STRSXP, SYMSXP, CLOSXP, ENVSXP})
         /\ (t = STRSXP => t \notin DataTypes \cup PairTypes \cup {VECSXP, SYMSXP, CLOSXP, ENVSXP})
         /\ (t = SYMSXP => t \notin DataTypes \cup PairTypes \cup {VECSXP, STRSXP, CLOSXP, ENVSXP})
         /\ (t = CLOSXP => t \notin DataTypes \cup PairTypes \cup {VECSXP, STRSXP, SYMSXP, ENVSXP})
         /\ (t = ENVSXP => t \notin DataTypes \cup PairTypes \cup {VECSXP, STRSXP, SYMSXP, CLOSXP})
         /\ (t \in PairTypes =>
               t \notin DataTypes /\ t # VECSXP /\ t # STRSXP /\ t # SYMSXP /\ t # CLOSXP /\ t # ENVSXP)
BY DEF DataTypes, PairTypes, VECSXP, STRSXP, SYMSXP, CLOSXP, ENVSXP, LGLSXP, INTSXP, REALSXP,
       CPLXSXP, RAWSXP, LISTSXP, LANGSXP

(* What store makes of an object from what it makes of its components. *)
StoreOf(f, v) == AttrCalls(f, v) \o ObjectCalls(f, v)

(* What StoreOf needs of the recursive calls: that they are defined below v. *)
LEMMA StoreOfTyped ==
  ASSUME NEW f, NEW v \in Robject, \A w \in Below(v) : f[w] \in Calls
  PROVE  AttrCalls(f, v) \in Calls /\ ObjectCalls(f, v) \in Calls /\ StoreOf(f, v) \in Calls
<1>1. Each(f, v.attr) \in Calls
  BY Formed, EachTyped
<1>2. Each(f, v.kids) \in Calls
  BY Formed, EachTyped
<1>3. Len(v.kids) \in Nat /\ Len(v.attr) \in Nat /\ Len(v.data) \in Nat
  BY Formed DEF Data
<1>4. AttrCalls(f, v) \in Calls
  <2>1. AttrCount(v) \in Nat
    <3> DEFINE n == Len(v.attr)
    <3>1. n \in Nat
      BY <1>3
    <3> HIDE DEF n
    <3>2. n \div 2 \in Nat
      BY <3>1
    <3> QED BY <3>2 DEF AttrCount, n
  <2>2. Call(ATTRSXP, 0, AttrCount(v), <<>>) \in ACall
    <3> HIDE DEF AttrCount
    <3>1. ATTRSXP \in SxpTypes \ {ENVSXP}
      BY DEF SxpTypes, ATTRSXP, ENVSXP
    <3> QED BY <2>1, <3>1, HeaderCall
  <2> QED BY <1>1, <2>2 DEF AttrCalls, Calls
<1>5. ObjectCalls(f, v) \in Calls
  <2>1. CASE v.ts \in DataTypes
    <3>0. /\ (v.ts \in DataTypes <=> TRUE)
          /\ (v.ts \in PairTypes <=> FALSE)
          /\ (v.ts = VECSXP <=> FALSE) /\ (v.ts = STRSXP <=> FALSE)
          /\ (v.ts = SYMSXP <=> FALSE) /\ (v.ts = CLOSXP <=> FALSE)
          /\ (v.ts = ENVSXP <=> FALSE)
      BY <2>1, Exclusive
    <3>1. Width(v.ts) \in {1, 4, 8, 16} /\ v.ts \in SxpTypes \ {ENVSXP}
      BY <2>1 DEF DataTypes, Width, SxpTypes, LGLSXP, INTSXP, REALSXP, CPLXSXP, RAWSXP, ENVSXP
    <3>2. Len(v.data) % Width(v.ts) = 0
      BY <2>1, ObjectAssumption DEF WellFormed
    <3>3. /\ Len(v.data) \div Width(v.ts) \in Nat
          /\ (Len(v.data) \div Width(v.ts)) * Width(v.ts) = Len(v.data)
      <4> DEFINE n == Len(v.data)
                 w == Width(v.ts)
      <4>1. n \in Nat /\ n % w = 0 /\ w \in {1, 4, 8, 16}
        BY <1>3, <3>1, <3>2
      <4> HIDE DEF n, w
      <4>2. n \div w \in Nat /\ (n \div w) * w = n
        BY ONLY <4>1
      <4> QED BY <4>2 DEF n, w
    <3>4. Call(v.ts, Width(v.ts), Len(v.data) \div Width(v.ts), v.data) \in ACall
      BY <3>1, <3>3, DataCall, Formed
    <3>5. ObjectCalls(f, v) = <<Call(v.ts, Width(v.ts), Len(v.data) \div Width(v.ts), v.data)>>
      BY <2>1, <3>0, Zenon DEF ObjectCalls
    <3> QED BY <3>4, <3>5 DEF Calls
  <2>2. CASE v.ts = VECSXP
    <3>0. /\ (v.ts \in DataTypes <=> FALSE)
          /\ (v.ts \in PairTypes <=> FALSE)
          /\ (v.ts = VECSXP <=> TRUE) /\ (v.ts = STRSXP <=> FALSE)
          /\ (v.ts = SYMSXP <=> FALSE) /\ (v.ts = CLOSXP <=> FALSE)
          /\ (v.ts = ENVSXP <=> FALSE)
      BY <2>2, Exclusive
    <3>1. ObjectCalls(f, v) = <<Call(VECSXP, 0, Len(v.kids), <<>>)>> \o Each(f, v.kids)
      BY <2>2, <3>0, Zenon DEF ObjectCalls
    <3>2. Call(VECSXP, 0, Len(v.kids), <<>>) \in ACall
      BY <1>3, <2>2, HeaderCall DEF SxpTypes, VECSXP, ENVSXP
    <3> QED BY <1>2, <3>1, <3>2 DEF Calls
  <2>3. CASE v.ts = STRSXP
    <3>0. /\ (v.ts \in DataTypes <=> FALSE)
          /\ (v.ts \in PairTypes <=> FALSE)
          /\ (v.ts = VECSXP <=> FALSE) /\ (v.ts = STRSXP <=> TRUE)
          /\ (v.ts = SYMSXP <=> FALSE) /\ (v.ts = CLOSXP <=> FALSE)
          /\ (v.ts = ENVSXP <=> FALSE)
      BY <2>3, Exclusive
    <3>1. ObjectCalls(f, v)
            = <<Call(STRSXP, 0, Len(v.kids), <<>>)>> \o [i \in DOMAIN v.kids |-> CharCall(v.kids[i])]
      BY <2>3, <3>0, Zenon DEF ObjectCalls
    <3>2. Call(STRSXP, 0, Len(v.kids), <<>>) \in ACall
      BY <1>3, <2>3, HeaderCall DEF SxpTypes, STRSXP, ENVSXP
    <3>3. ASSUME NEW i \in DOMAIN v.kids PROVE CharCall(v.kids[i]) \in ACall
      <4>1. v.kids[i].data \in Data
        BY Formed DEF Below
      <4>2. CHARSXP \in SxpTypes \ {ENVSXP}
        BY DEF SxpTypes, CHARSXP, ENVSXP
      <4> QED BY <4>1, <4>2, TerminatedCall DEF CharCall
    <3>4. [i \in DOMAIN v.kids |-> CharCall(v.kids[i])] \in Calls
      <4>1. DOMAIN v.kids = 1 .. Len(v.kids)
        BY Formed
      <4> QED BY <1>3, <3>3, <4>1 DEF Calls
    <3> QED BY <3>1, <3>2, <3>4 DEF Calls
  <2>4. CASE v.ts = SYMSXP
    <3>9. /\ (v.ts \in DataTypes <=> FALSE)
          /\ (v.ts \in PairTypes <=> FALSE)
          /\ (v.ts = VECSXP <=> FALSE) /\ (v.ts = STRSXP <=> FALSE)
          /\ (v.ts = SYMSXP <=> TRUE) /\ (v.ts = CLOSXP <=> FALSE)
          /\ (v.ts = ENVSXP <=> FALSE)
      BY <2>4, Exclusive
    <3>1. ObjectCalls(f, v) = <<SymCall(v)>>
      BY <2>4, <3>9, Zenon DEF ObjectCalls
    <3>0. SYMSXP \in SxpTypes \ {ENVSXP} /\ <<>> \in Data /\ 0 * 1 = Len(<<>>)
      BY DEF SxpTypes, SYMSXP, ENVSXP, Data
    <3>2. SymCall(v) \in ACall
      BY <3>0, DataCall, TerminatedCall, Formed DEF SymCall
    <3> QED BY <3>1, <3>2 DEF Calls
  <2>5. CASE v.ts = CLOSXP
    <3>0. /\ (v.ts \in DataTypes <=> FALSE)
          /\ (v.ts \in PairTypes <=> FALSE)
          /\ (v.ts = VECSXP <=> FALSE) /\ (v.ts = STRSXP <=> FALSE)
          /\ (v.ts = SYMSXP <=> FALSE) /\ (v.ts = CLOSXP <=> TRUE)
          /\ (v.ts = ENVSXP <=> FALSE)
      BY <2>5, Exclusive
    <3>1. ObjectCalls(f, v) = <<Call(CLOSXP, 0, 3, <<>>)>> \o Each(f, ClosureParts(v))
      BY <2>5, <3>0, Zenon DEF ObjectCalls, ClosureParts
    <3>2. Call(CLOSXP, 0, 3, <<>>) \in ACall
      BY HeaderCall DEF SxpTypes, CLOSXP, ENVSXP
    <3>3. Each(f, ClosureParts(v)) \in Calls
      BY <2>5, ClosureFormed, EachTyped
    <3> QED BY <3>1, <3>2, <3>3 DEF Calls
  <2>6. CASE v.ts \in PairTypes
    <3>0. /\ (v.ts \in DataTypes <=> FALSE)
          /\ (v.ts \in PairTypes <=> TRUE)
          /\ (v.ts = VECSXP <=> FALSE) /\ (v.ts = STRSXP <=> FALSE)
          /\ (v.ts = SYMSXP <=> FALSE) /\ (v.ts = CLOSXP <=> FALSE)
          /\ (v.ts = ENVSXP <=> FALSE)
      BY <2>6, Exclusive
    <3>1. ObjectCalls(f, v) = <<Call(v.ts, 0, Len(v.kids) \div 2, <<>>)>> \o Each(f, v.kids)
      BY <2>6, <3>0, Zenon DEF ObjectCalls
    <3>2. v.ts \in SxpTypes \ {ENVSXP} /\ Len(v.kids) \div 2 \in Nat
      <4> DEFINE n == Len(v.kids)
      <4>1. n \in Nat
        BY <1>3
      <4> HIDE DEF n
      <4>2. n \div 2 \in Nat
        BY <4>1
      <4>3. v.ts \in SxpTypes \ {ENVSXP}
        BY <3>0, Formed
      <4> QED BY <4>2, <4>3 DEF n
    <3>3. Call(v.ts, 0, Len(v.kids) \div 2, <<>>) \in ACall
      BY <3>2, HeaderCall
    <3> DEFINE c == Call(v.ts, 0, Len(v.kids) \div 2, <<>>)
    <3>4. c \in ACall /\ ObjectCalls(f, v) = <<c>> \o Each(f, v.kids)
      BY <3>1, <3>3
    <3> HIDE DEF c
    <3> QED BY <1>2, <3>4 DEF Calls
  <2>7. CASE v.ts = ENVSXP
    <3>0. /\ (v.ts \in DataTypes <=> FALSE)
          /\ (v.ts \in PairTypes <=> FALSE)
          /\ (v.ts = VECSXP <=> FALSE) /\ (v.ts = STRSXP <=> FALSE)
          /\ (v.ts = SYMSXP <=> FALSE) /\ (v.ts = CLOSXP <=> FALSE)
          /\ (v.ts = ENVSXP <=> TRUE)
      BY <2>7, Exclusive
    <3>1. ObjectCalls(f, v) = <<Call(ENVSXP, 0, EnvLen(v.id), <<>>)>>
      BY <2>7, <3>0, Zenon DEF ObjectCalls
    <3> QED BY <3>1, EnvCall DEF Calls
  <2>8. CASE v.ts \notin DataTypes \cup PairTypes \cup {VECSXP, STRSXP, SYMSXP, CLOSXP, ENVSXP}
    <3>1. ObjectCalls(f, v) = <<Call(v.ts, 0, 0, <<>>)>>
      BY <2>8, Zenon DEF ObjectCalls
    <3>2. v.ts \in SxpTypes \ {ENVSXP}
      BY <2>8, Formed
    <3>3. Call(v.ts, 0, 0, <<>>) \in ACall
      BY <3>2, HeaderCall
    <3> QED BY <3>1, <3>3 DEF Calls
  <2> QED BY <2>1, <2>2, <2>3, <2>4, <2>5, <2>6, <2>7, <2>8
<1> QED BY <1>4, <1>5 DEF StoreOf, Calls

(* StoreOf looks at the recursive calls below v only, so that store is defined by
   induction on the depth. *)
LEMMA StoreOfSame ==
  ASSUME NEW f, NEW g, NEW v \in Robject, \A w \in Below(v) : f[w] = g[w]
  PROVE  StoreOf(f, v) = StoreOf(g, v)
<1>1. Each(f, v.attr) = Each(g, v.attr)
  BY Formed, EachSame
<1>2. Each(f, v.kids) = Each(g, v.kids)
  BY Formed, EachSame
<1>3. v.ts = CLOSXP => Each(f, ClosureParts(v)) = Each(g, ClosureParts(v))
  BY ClosureFormed, EachSame
<1>4. AttrCalls(f, v) = AttrCalls(g, v)
  BY <1>1 DEF AttrCalls
<1>5. ObjectCalls(f, v) = ObjectCalls(g, v)
  BY <1>2, <1>3 DEF ObjectCalls, ClosureParts
<1> QED BY <1>4, <1>5 DEF StoreOf

(* store is a function that satisfies its equation: by induction on the depth
   of the objects. *)
LEMMA StoreExists == \E f : f = [v \in Robject |-> StoreOf(f, v)]
<1> DEFINE Upto(f, n) == \A v \in Robject : Depth[v] < n => f[v] = StoreOf(f, v)
           T == {n \in Nat : \E f : f = [v \in Robject |-> f[v]] /\ Upto(f, n)}
<1>1. T \subseteq Nat
  OBVIOUS
<1>2. 0 \in T
  <2> DEFINE f == [v \in Robject |-> <<>>]
  <2>1. f = [v \in Robject |-> f[v]]
    OBVIOUS
  <2>2. Upto(f, 0)
    BY Formed
  <2> HIDE DEF Upto
  <2> QED BY <2>1, <2>2
<1>3. ASSUME NEW n \in T PROVE n + 1 \in T
  <2>1. n \in Nat
    OBVIOUS
  <2>2. PICK f : f = [v \in Robject |-> f[v]] /\ Upto(f, n)
    OBVIOUS
  <2> DEFINE g == [v \in Robject |-> IF Depth[v] < n THEN f[v] ELSE StoreOf(f, v)]
  <2>3. ASSUME NEW v \in Robject, Depth[v] < n + 1 PROVE g[v] = StoreOf(g, v)
    <3>1. ASSUME NEW w \in Below(v) PROVE f[w] = g[w]
      <4>1. w \in Robject /\ Depth[w] < Depth[v] /\ Depth[w] \in Nat /\ Depth[v] \in Nat
        BY Formed, ObjectAssumption DEF Below
      <4>2. Depth[w] < n
        BY <2>1, <2>3, <4>1
      <4> QED BY <4>1, <4>2
    <3>2. StoreOf(f, v) = StoreOf(g, v)
      <4> HIDE DEF g
      <4> QED BY <3>1, StoreOfSame
    <3>3. g[v] = StoreOf(f, v)
      BY <2>2
    <3> QED BY <3>2, <3>3
  <2>4. g = [v \in Robject |-> g[v]]
    OBVIOUS
  <2> HIDE DEF g
  <2>5. Upto(g, n + 1)
    BY <2>3
  <2> HIDE DEF Upto
  <2> QED BY <2>1, <2>4, <2>5
<1>4. MAX_DEPTH + 1 \in T
  <2>1. MAX_DEPTH + 1 \in Nat
    BY ObjectAssumption
  <2> HIDE DEF T
  <2> QED BY <1>1, <1>2, <1>3, <2>1, NatSetInduction
<1>5. PICK f : f = [v \in Robject |-> f[v]] /\ Upto(f, MAX_DEPTH + 1)
  BY <1>4
<1>6. ASSUME NEW v \in Robject PROVE f[v] = StoreOf(f, v)
  <2>1. Depth[v] < MAX_DEPTH + 1
    BY Formed, ObjectAssumption
  <2> QED BY <1>5, <2>1
<1>7. [v \in Robject |-> f[v]] = [v \in Robject |-> StoreOf(f, v)]
  BY <1>6
<1> HIDE DEF Upto
<1> QED BY <1>5, <1>7

(* What store is. *)
LEMMA StoreIs ==
  /\ \A v \in Robject : store[v] = AttrCalls(store, v) \o ObjectCalls(store, v)
  /\ \A v \in Robject : store[v] \in Calls
<1> DEFINE E(f) == f = [v \in Robject |-> AttrCalls(f, v) \o ObjectCalls(f, v)]
<1>1. \E f : E(f)
  BY StoreExists DEF StoreOf
<1>2. store = CHOOSE f : E(f)
  BY DEF store
<1>3. E(store)
  <2> HIDE DEF E
  <2> QED BY <1>1, <1>2
<1>4. \A v \in Robject : store[v] = AttrCalls(store, v) \o ObjectCalls(store, v)
  BY <1>3, Zenon
<1> HIDE DEF E
<1> DEFINE T == {n \in Nat : \A v \in Robject : Depth[v] < n => store[v] \in Calls}
<1>5. T \subseteq Nat /\ 0 \in T
  BY Formed
<1>6. ASSUME NEW n \in T PROVE n + 1 \in T
  <2>1. n \in Nat /\ \A v \in Robject : Depth[v] < n => store[v] \in Calls
    OBVIOUS
  <2>2. ASSUME NEW v \in Robject, Depth[v] < n + 1 PROVE store[v] \in Calls
    <3>1. ASSUME NEW w \in Below(v) PROVE store[w] \in Calls
      <4>1. w \in Robject /\ Depth[w] < Depth[v] /\ Depth[w] \in Nat /\ Depth[v] \in Nat
        BY Formed, ObjectAssumption DEF Below
      <4>2. Depth[w] < n
        BY <2>1, <2>2, <4>1
      <4> QED BY <2>1, <4>1, <4>2
    <3>2. StoreOf(store, v) \in Calls
      BY <3>1, StoreOfTyped
    <3> QED BY <1>4, <3>2 DEF StoreOf
  <2> QED BY <2>1, <2>2
<1>7. MAX_DEPTH + 1 \in T
  <2>1. MAX_DEPTH + 1 \in Nat
    BY ObjectAssumption
  <2> HIDE DEF T
  <2> QED BY <1>5, <1>6, <2>1, NatSetInduction
<1>8. ASSUME NEW v \in Robject PROVE store[v] \in Calls
  <2>1. Depth[v] < MAX_DEPTH + 1
    BY Formed, ObjectAssumption
  <2> QED BY <1>7, <2>1
<1> QED BY <1>4, <1>8

-----------------------------------------------------------------------------
(* The bytes of calls.                                                     *)

LEMMA TypesAreBytes == SxpTypes \subseteq Byte
BY DEF SxpTypes, Byte, NILSXP, SYMSXP, LISTSXP, CLOSXP, ENVSXP, LANGSXP, BUILTINSXP, CHARSXP,
       LGLSXP, INTSXP, REALSXP, CPLXSXP, STRSXP, VECSXP, BCODESXP, RAWSXP, S4SXP, ATTRSXP

LEMMA LengthBytesTyped ==
  ASSUME NEW n \in Nat
  PROVE  LengthBytes(n) \in Data /\ Len(LengthBytes(n)) = 7
<1> DEFINE a == n % 256
           b == (n \div 256) % 256
           c == (n \div 65536) % 256
<1>1. a \in Byte /\ b \in Byte /\ c \in Byte /\ 0 \in Byte
  BY DEF Byte
<1>2. LengthBytes(n) = <<a, b, c, 0, 0, 0, 0>>
  BY DEF LengthBytes
<1> HIDE DEF a, b, c
<1> QED BY <1>1, <1>2 DEF Data

(* Every header has its eight bytes. *)
LEMMA HeaderIs ==
  ASSUME NEW c \in ACall
  PROVE  /\ c.ts \in SxpTypes
         /\ c.buf \in Data
         /\ Header(c) \in Data
         /\ Len(Header(c)) = HeaderSize
         /\ Bytes(c) \in Data
<1>1. c.ts \in SxpTypes /\ c.ts \in Byte /\ c.buf \in Data
  BY TypesAreBytes DEF ACall
<1> DEFINE l == IF c.ts = ENVSXP THEN c.len ELSE LengthBytes(c.len)
<1>2. l \in Data /\ Len(l) = 7
  <2>1. CASE c.ts = ENVSXP
    BY <2>1 DEF ACall
  <2>2. CASE c.ts # ENVSXP
    BY <2>2, LengthBytesTyped DEF ACall
  <2> QED BY <2>1, <2>2
<1>3. Header(c) = <<c.ts>> \o l
  BY DEF Header
<1> HIDE DEF l
<1>4. Header(c) \in Data /\ Len(Header(c)) = 8
  <2> DEFINE t == <<c.ts>>
  <2>1. t \in Seq(Byte) /\ Len(t) = 1 /\ l \in Seq(Byte) /\ Header(c) = t \o l
    BY <1>1, <1>2, <1>3 DEF Data
  <2> HIDE DEF t
  <2>2. t \o l \in Seq(Byte) /\ Len(t \o l) = 8
    <3>1. t \o l \in Seq(Byte) /\ Len(t \o l) = Len(t) + Len(l)
      BY ONLY <2>1, ConcatIs
    <3> QED BY ONLY <1>2, <2>1, <3>1
  <2> QED BY <2>1, <2>2 DEF Data
<1> HIDE DEF Header
<1> QED BY <1>1, <1>4 DEF Bytes, Data, HeaderSize

(* The bytes of a sequence of calls, as data, of none, and with one call more. *)
LEMMA StreamTyped ==
  ASSUME NEW cs \in Calls
  PROVE  Stream(cs) \in Data
<1> DEFINE e == [i \in DOMAIN cs |-> Bytes(cs[i])]
<1>1. e \in Seq(Data)
  <2>1. DOMAIN cs = 1 .. Len(cs) /\ Len(cs) \in Nat
    BY DEF Calls
  <2>2. \A i \in DOMAIN cs : Bytes(cs[i]) \in Data
    BY HeaderIs DEF Calls
  <2> HIDE DEF Bytes
  <2> QED BY <2>1, <2>2
<1> HIDE DEF e
<1>2. FlattenSeq(e) \in Data
  BY <1>1, FlattenType DEF Data
<1> QED BY <1>2 DEF Stream, e

LEMMA StreamEmpty == Stream(<<>>) = <<>>
<1>1. [i \in DOMAIN <<>> |-> Bytes(<<>>[i])] = <<>>
  OBVIOUS
<1> QED BY <1>1, FlattenEmpty DEF Stream

LEMMA StreamAppend ==
  ASSUME NEW cs \in Calls, NEW c \in ACall
  PROVE  Stream(Append(cs, c)) = Stream(cs) \o Bytes(c)
<1> DEFINE d == Append(cs, c)
           e == [i \in DOMAIN cs |-> Bytes(cs[i])]
           g == [i \in DOMAIN d |-> Bytes(d[i])]
<1>0. Len(cs) \in Nat /\ DOMAIN cs = 1 .. Len(cs)
  BY DEF Calls
<1>1. /\ Len(d) = Len(cs) + 1 /\ DOMAIN d = 1 .. Len(cs) + 1
      /\ d[Len(cs) + 1] = c
      /\ \A i \in 1 .. Len(cs) : d[i] = cs[i]
  BY AppendProperties DEF Calls
<1>2. e \in Seq(Data) /\ Len(e) = Len(cs)
  <2>2. \A i \in DOMAIN cs : Bytes(cs[i]) \in Data
    BY HeaderIs DEF Calls
  <2> HIDE DEF Bytes
  <2> QED BY <1>0, <2>2
<1>3. g = Append(e, Bytes(c))
  <2> HIDE DEF d, Bytes
  <2>1. DOMAIN g = 1 .. Len(cs) + 1 /\ DOMAIN Append(e, Bytes(c)) = 1 .. Len(cs) + 1
    BY <1>0, <1>1, <1>2
  <2>2. ASSUME NEW i \in 1 .. Len(cs) + 1 PROVE g[i] = Append(e, Bytes(c))[i]
    <3>1. CASE i \in 1 .. Len(cs)
      BY <1>0, <1>1, <1>2, <3>1
    <3>2. CASE i = Len(cs) + 1
      BY <1>0, <1>1, <1>2, <3>2
    <3> QED BY <1>0, <3>1, <3>2
  <2>3. g = [i \in 1 .. Len(cs) + 1 |-> g[i]]
    BY <2>1
  <2>4. Append(e, Bytes(c)) = [i \in 1 .. Len(cs) + 1 |-> Append(e, Bytes(c))[i]]
    BY <1>0, <1>2
  <2> HIDE DEF g, e
  <2>5. [i \in 1 .. Len(cs) + 1 |-> g[i]] = [i \in 1 .. Len(cs) + 1 |-> Append(e, Bytes(c))[i]]
    BY <2>2
  <2> QED BY <2>3, <2>4, <2>5
<1>4. Bytes(c) \in Data
  BY HeaderIs
<1> HIDE DEF e, g, d
<1>5. FlattenSeq(g) = FlattenSeq(e) \o Bytes(c)
  BY <1>2, <1>3, <1>4, FlattenAppend DEF Data
<1> QED BY <1>5 DEF Stream, d, e, g

(* A call moves the first of those to come to the end of those made. *)
LEMMA OneCall ==
  ASSUME NEW all \in Calls, NEW cs \in Calls, cs # <<>>, Len(cs) <= Len(all),
         cs = Drop(all, Len(all) - Len(cs))
  PROVE  /\ Head(cs) \in ACall
         /\ Tail(cs) \in Calls
         /\ Len(Tail(cs)) <= Len(all)
         /\ Tail(cs) = Drop(all, Len(all) - Len(Tail(cs)))
         /\ Take(all, Len(all) - Len(cs)) \in Calls
         /\ Take(all, Len(all) - Len(Tail(cs))) = Append(Take(all, Len(all) - Len(cs)), Head(cs))
<1> DEFINE n == Len(all)
           m == Len(cs)
<1>1. n \in Nat /\ m \in Nat /\ m <= n /\ m # 0
  BY DEF Calls
<1>2. Head(cs) \in ACall /\ Tail(cs) \in Calls /\ Len(Tail(cs)) = m - 1
  BY DEF Calls
<1>3. Head(cs) = all[n - m + 1]
  <2>1. Head(cs) = cs[1]
    BY DEF Calls
  <2>2. SubSeq(all, n - m + 1, n)[1] = all[n - m + 1]
    BY <1>1 DEF Calls
  <2> QED BY <2>1, <2>2 DEF Drop
<1>4. Tail(cs) = SubSeq(all, n - m + 2, n)
  <2>1. Tail(SubSeq(all, n - m + 1, n)) = SubSeq(all, n - m + 2, n)
    BY <1>1 DEF Calls
  <2> QED BY <2>1 DEF Drop
<1>5. n - (m - 1) + 1 = n - m + 2 /\ n - (m - 1) = n - m + 1
  BY <1>1
<1>6. SubSeq(all, 1, n - m) \in Calls
  BY <1>1 DEF Calls
<1>7. SubSeq(all, 1, n - m + 1) = Append(SubSeq(all, 1, n - m), all[n - m + 1])
  BY <1>1 DEF Calls
<1>8. m - 1 <= n
  BY <1>1
<1> HIDE DEF n, m
<1> QED BY <1>2, <1>3, <1>4, <1>5, <1>6, <1>7, <1>8 DEF Take, Drop, n, m

-----------------------------------------------------------------------------
(* What the buffers of mem_store.c hold.                                   *)

(* The same of a list of buffers. *)
LEMMA ContentsTyped ==
  ASSUME NEW bs \in Seq(Buf)
  PROVE  Contents(bs) \in Data
<1> DEFINE e == [i \in DOMAIN bs |-> bs[i].d]
<1>1. e \in Seq(Data)
  <2>1. DOMAIN bs = 1 .. Len(bs) /\ Len(bs) \in Nat
    OBVIOUS
  <2>2. \A i \in DOMAIN bs : bs[i].d \in Data
    BY DEF Buf
  <2> QED BY <2>1, <2>2
<1> HIDE DEF e
<1>2. FlattenSeq(e) \in Data
  BY <1>1, FlattenType DEF Data
<1> QED BY <1>2 DEF Contents, e

LEMMA ContentsAppend ==
  ASSUME NEW bs \in Seq(Buf), NEW b \in Buf
  PROVE  Contents(Append(bs, b)) = Contents(bs) \o b.d
<1> DEFINE d == Append(bs, b)
           e == [i \in DOMAIN bs |-> bs[i].d]
           g == [i \in DOMAIN d |-> d[i].d]
           x == Append(e, b.d)
<1>0. Len(bs) \in Nat /\ DOMAIN bs = 1 .. Len(bs) /\ b.d \in Data
  BY DEF Buf
<1>1. /\ Len(d) = Len(bs) + 1 /\ DOMAIN d = 1 .. Len(bs) + 1
      /\ d[Len(bs) + 1] = b
      /\ \A i \in 1 .. Len(bs) : d[i] = bs[i]
  BY AppendProperties
<1>2. e \in Seq(Data) /\ Len(e) = Len(bs) /\ \A i \in 1 .. Len(bs) : e[i] = bs[i].d
  <2>2. \A i \in DOMAIN bs : bs[i].d \in Data
    BY DEF Buf
  <2> QED BY <1>0, <2>2
<1> HIDE DEF e
<1>3. /\ x \in Seq(Data) /\ Len(x) = Len(bs) + 1
      /\ x[Len(bs) + 1] = b.d
      /\ \A i \in 1 .. Len(bs) : x[i] = e[i]
  BY <1>0, <1>2, AppendProperties
<1> HIDE DEF d, x
<1>4. g \in Seq(Data) /\ Len(g) = Len(bs) + 1 /\ \A i \in 1 .. Len(bs) + 1 : g[i] = d[i].d
  <2>1. \A i \in 1 .. Len(bs) + 1 : d[i].d \in Data
    BY <1>0, <1>1 DEF Buf
  <2> QED BY <1>0, <1>1, <2>1
<1> HIDE DEF g
<1>5. ASSUME NEW i \in 1 .. Len(bs) + 1 PROVE g[i] = x[i]
  <2>1. CASE i \in 1 .. Len(bs)
    BY <1>0, <1>1, <1>2, <1>3, <1>4, <2>1
  <2>2. CASE i = Len(bs) + 1
    BY <1>0, <1>1, <1>3, <1>4, <2>2
  <2> QED BY <1>0, <2>1, <2>2
<1>6. g = x
  BY <1>3, <1>4, <1>5, SeqEqual
<1>7. FlattenSeq(x) = FlattenSeq(e) \o b.d
  BY <1>0, <1>2, FlattenAppend DEF Data, x
<1> QED BY <1>6, <1>7 DEF Contents, d, e, g

(* One empty buffer, as C_mem_store begins with. *)
LEMMA OneBuffer ==
  /\ <<alloc_buf(DEF_BUF_SIZE)>> \in Seq(Buf)
  /\ Contents(<<alloc_buf(DEF_BUF_SIZE)>>) = <<>>
<1> DEFINE b == alloc_buf(DEF_BUF_SIZE)
<1>1. b \in Buf /\ b.d = <<>>
  <2>1. b = [cap |-> DEF_BUF_SIZE, d |-> <<>>] /\ <<>> \in Data /\ Len(<<>>) = 0
    BY DEF alloc_buf, Data
  <2> QED BY <2>1, SinkAssumption DEF Buf
<1> HIDE DEF b
<1>2. <<b>> = Append(<<>>, b) /\ <<>> \in Seq(Buf)
  OBVIOUS
<1>3. Contents(<<>>) = <<>>
  <2>1. [i \in DOMAIN <<>> |-> <<>>[i].d] = <<>>
    OBVIOUS
  <2> QED BY <2>1, FlattenEmpty DEF Contents
<1>4. Contents(<<b>>) = <<>> \o <<>>
  BY <1>1, <1>2, <1>3, ContentsAppend
<1> QED BY <1>1, <1>4 DEF b

(* buf_add of mem_store.c adds the data to the contents, whether it splits it
   over two buffers or not. *)
LEMMA MemBufAddHolds ==
  ASSUME NEW bs \in Seq(Buf), bs # <<>>, NEW what \in Data
  PROVE  Contents(mem_buf_add(bs, what)) = Contents(bs) \o what
<1> DEFINE tail == Last(bs)
           r == Room(tail)
           size == IF Len(what) > DEF_BUF_SIZE THEN Len(what) + DEF_BUF_SIZE ELSE DEF_BUF_SIZE
           new == [alloc_buf(size) EXCEPT !.d = Drop(what, r)]
           filled == [tail EXCEPT !.d = @ \o Take(what, r)]
           whole == [tail EXCEPT !.d = @ \o what]
           f == Front(bs)
<1>1. f \in Seq(Buf) /\ tail \in Buf /\ bs = Append(f, tail)
  BY FrontLast
<1>2. Contents(bs) = Contents(f) \o tail.d /\ Contents(f) \in Data
  BY <1>1, ContentsAppend, ContentsTyped
<1>3. tail.d \in Data /\ tail.cap \in Nat /\ Len(tail.d) <= tail.cap
  BY <1>1 DEF Buf
<1>4. Len(tail.d) \in Nat /\ Len(what) \in Nat
  BY <1>3 DEF Data
<1>5. r \in Nat
  <2> HIDE DEF tail
  <2> QED BY <1>3, <1>4 DEF Room
<1>6. mem_buf_add(bs, what) = IF r < Len(what) THEN f \o <<filled, new>> ELSE Append(f, whole)
  BY DEF mem_buf_add
<1> HIDE DEF tail, r, size, new, filled, whole, f
<1>7. CASE ~(r < Len(what))
  <2>1. Len(what) <= Room(tail)
    BY <1>4, <1>5, <1>7 DEF r
  <2>2. whole \in Buf
    BY <1>1, <2>1, BufExtend, Zenon DEF whole
  <2>3. whole.d = tail.d \o what
    BY <1>1 DEF whole, Buf
  <2>4. Contents(Append(f, whole)) = Contents(f) \o (tail.d \o what)
    BY <1>1, <2>2, <2>3, ContentsAppend
  <2>5. (Contents(f) \o tail.d) \o what = Contents(f) \o (tail.d \o what)
    <3> DEFINE a == Contents(f)
               b == tail.d
    <3>1. a \in Data /\ b \in Data
      BY <1>2, <1>3
    <3> HIDE DEF a, b
    <3>2. (a \o b) \o what = a \o (b \o what)
      BY ONLY <3>1, DataAssoc, ZenonT(40)
    <3> QED BY <3>2 DEF a, b
  <2> QED BY <1>2, <1>6, <1>7, <2>4, <2>5
<1>8. CASE r < Len(what)
  <2>1. r \in 0 .. Len(what)
    BY <1>4, <1>5, <1>8
  <2>2. /\ Take(what, r) \in Data /\ Len(Take(what, r)) = r
        /\ Drop(what, r) \in Data /\ Len(Drop(what, r)) = Len(what) - r
        /\ what = Take(what, r) \o Drop(what, r)
    BY <2>1, TakeDrop
  <2>3. Len(Take(what, r)) <= Room(tail)
    BY <1>5, <2>2 DEF r
  <2>4. filled \in Buf
    BY <1>1, <2>2, <2>3, BufExtend, Zenon DEF filled
  <2>5. filled.d = tail.d \o Take(what, r)
    BY <1>1 DEF filled, Buf
  <2>6. size \in Nat /\ Len(what) <= size
    BY <1>4, SinkAssumption DEF size
  <2>7. new = [cap |-> size, d |-> Drop(what, r)]
    BY DEF alloc_buf, new
  <2>8. new \in Buf /\ new.d = Drop(what, r)
    BY <1>4, <1>5, <2>2, <2>6, <2>7 DEF Buf
  <2>9. f \o <<filled, new>> = Append(Append(f, filled), new) /\ Append(f, filled) \in Seq(Buf)
    BY <1>1, <2>4, <2>8
  <2>10. Contents(f \o <<filled, new>>) = (Contents(f) \o (tail.d \o Take(what, r))) \o Drop(what, r)
    BY <1>1, <2>4, <2>5, <2>8, <2>9, ContentsAppend
  <2>11. (Contents(f) \o (tail.d \o Take(what, r))) \o Drop(what, r)
           = (Contents(f) \o tail.d) \o (Take(what, r) \o Drop(what, r))
    <3> DEFINE a == Contents(f)
               b == tail.d
               c == Take(what, r)
               d == Drop(what, r)
               bc == b \o c
               cd == c \o d
    <3>1. /\ a \in Data /\ b \in Data /\ c \in Data /\ d \in Data
          /\ bc \in Data /\ cd \in Data
      BY <1>2, <1>3, <2>2, DataJoin
    <3>2. bc = b \o c /\ cd = c \o d
      OBVIOUS
    <3> HIDE DEF a, b, c, d, bc, cd
    <3>3. (a \o bc) \o d = a \o (bc \o d)
      <4>1. a \in Data /\ bc \in Data /\ d \in Data
        BY <3>1
      <4> QED BY ONLY <4>1, DataAssoc, ZenonT(40)
    <3>4. (b \o c) \o d = b \o (c \o d)
      <4>1. b \in Data /\ c \in Data /\ d \in Data
        BY <3>1
      <4> QED BY ONLY <4>1, DataAssoc, ZenonT(40)
    <3>5. (a \o b) \o cd = a \o (b \o cd)
      <4>1. a \in Data /\ b \in Data /\ cd \in Data
        BY <3>1
      <4> QED BY ONLY <4>1, DataAssoc, ZenonT(40)
    <3>6. (a \o bc) \o d = (a \o b) \o cd
      BY ONLY <3>2, <3>3, <3>4, <3>5, Zenon
    <3> QED BY <3>6 DEF a, b, c, d, bc, cd
  <2> QED BY <1>2, <1>6, <1>8, <2>2, <2>10, <2>11
<1> QED BY <1>7, <1>8

-----------------------------------------------------------------------------
(* What hcstore.c sends, whatever its len holds.                           *)

AnyApi == [len : Nat, buf : Data, res : {0, -1}, chunks : Chunks]

(* What was sent or is to be sent, and that no chunk ends the response. *)
Sent(h) == FlattenSeq(h.chunks) \o h.buf
Going(h) == \A i \in DOMAIN h.chunks : h.chunks[i] # <<>>

(* What has been sent and what is buffered are data. *)
LEMMA SentTyped ==
  ASSUME NEW h \in AnyApi
  PROVE  /\ h.len \in Nat /\ h.buf \in Data /\ h.chunks \in Chunks
         /\ FlattenSeq(h.chunks) \in Data /\ Sent(h) \in Data
<1>1. h.len \in Nat /\ h.buf \in Data /\ h.chunks \in Chunks
  BY DEF AnyApi
<1>2. FlattenSeq(h.chunks) \in Data
  BY <1>1, FlattenType DEF Chunks, Data
<1> DEFINE f == FlattenSeq(h.chunks)
<1> HIDE DEF f
<1>3. f \o h.buf \in Data
  BY <1>1, <1>2 DEF Data, f
<1> QED BY <1>1, <1>2, <1>3 DEF Sent, f

(* A chunk that is sent comes after what has been sent. *)
LEMMA ChunkSent ==
  ASSUME NEW h \in AnyApi, NEW chunk \in Data, NEW a \in http_send_chunk(h, chunk)
  PROVE  /\ a \in AnyApi /\ a.len = h.len /\ a.buf = h.buf
         /\ (a.res = 0 => /\ h.res = 0
                          /\ a.chunks = Append(h.chunks, chunk)
                          /\ FlattenSeq(a.chunks) = FlattenSeq(h.chunks) \o chunk
                          /\ (chunk # <<>> /\ Going(h) => Going(a)))
<1>0. h.chunks \in Chunks
  BY DEF AnyApi
<1>1. Append(h.chunks, chunk) \in Chunks
  BY <1>0 DEF Chunks
<1>2. CASE a = [h EXCEPT !.chunks = Append(@, chunk)]
  <2>1. /\ a \in AnyApi /\ a.len = h.len /\ a.buf = h.buf /\ a.res = h.res
        /\ a.chunks = Append(h.chunks, chunk)
    BY <1>1, <1>2 DEF AnyApi
  <2>2. FlattenSeq(Append(h.chunks, chunk)) = FlattenSeq(h.chunks) \o chunk
    BY <1>0, FlattenAppend DEF Chunks, Data
  <2>3. ASSUME chunk # <<>>, Going(h) PROVE Going(a)
    <3> DEFINE cs == h.chunks
    <3>1. cs \in Chunks /\ a.chunks = Append(cs, chunk) /\ \A i \in DOMAIN cs : cs[i] # <<>>
      BY <1>0, <2>1, <2>3 DEF Going
    <3> HIDE DEF cs
    <3>2. \A i \in DOMAIN Append(cs, chunk) : Append(cs, chunk)[i] # <<>>
      BY <2>3, <3>1 DEF Chunks
    <3> QED BY <3>1, <3>2 DEF Going
  <2> QED BY <2>1, <2>2, <2>3
<1>3. CASE a = [h EXCEPT !.res = -1]
  <2>1. a \in AnyApi /\ a.len = h.len /\ a.buf = h.buf /\ a.res = -1
    BY <1>3 DEF AnyApi
  <2> QED BY <2>1
<1> QED BY <1>2, <1>3 DEF http_send_chunk

(* The buffer is sent and emptied. *)
LEMMA BufferSent ==
  ASSUME NEW h \in AnyApi, NEW a \in http_send_chunk(h, h.buf),
         NEW b, b = IF a.res = 0 THEN Emptied(a) ELSE a
  PROVE  /\ b \in AnyApi /\ b.len = h.len /\ b.buf \in {h.buf, <<>>}
         /\ (b.res = 0 => /\ h.res = 0
                          /\ b.buf = <<>>
                          /\ Sent(b) = Sent(h)
                          /\ (h.buf # <<>> /\ Going(h) => Going(b)))
<1>1. /\ a \in AnyApi /\ a.len = h.len /\ a.buf = h.buf
      /\ (a.res = 0 => /\ h.res = 0
                       /\ FlattenSeq(a.chunks) = FlattenSeq(h.chunks) \o h.buf
                       /\ (h.buf # <<>> /\ Going(h) => Going(a)))
  BY ChunkSent, SentTyped
<1>2. CASE a.res # 0
  BY <1>1, <1>2
<1>3. CASE a.res = 0
  <2>0. <<>> \in Data
    BY DEF Data
  <2>1. b \in AnyApi /\ b.len = h.len /\ b.buf = <<>> /\ b.chunks = a.chunks
    BY <1>1, <1>3, <2>0 DEF Emptied, AnyApi
  <2>2. FlattenSeq(b.chunks) \in Data
    BY <2>1, SentTyped
  <2>3. Sent(b) = FlattenSeq(b.chunks)
    <3> DEFINE f == FlattenSeq(b.chunks)
    <3> HIDE DEF f
    <3>1. f \o <<>> = f
      BY <2>2 DEF Data, f
    <3> QED BY <2>1, <3>1 DEF Sent, f
  <2>4. Sent(b) = Sent(h)
    BY <1>1, <1>3, <2>1, <2>3 DEF Sent
  <2>5. Going(a) => Going(b)
    BY <2>1 DEF Going
  <2> QED BY <1>1, <1>3, <2>1, <2>4, <2>5
<1> QED BY <1>2, <1>3

(* buf_add sends or keeps the data behind all that came before; an empty chunk
   is not sent if the data is small, or the buffer not empty. *)
LEMMA HcBufAddSends ==
  ASSUME NEW h \in AnyApi, NEW what \in Data, NEW b \in hc_buf_add(h, what)
  PROVE  /\ b \in AnyApi /\ b.len = h.len
         /\ (b.res = 0 =>
               /\ h.res = 0
               /\ Sent(b) = Sent(h) \o what
               /\ (Going(h) /\ (Len(what) < MIN_INPLACE_SIZE \/ h.buf # <<>>) => Going(b))
               /\ (what # <<>> /\ Len(what) < MIN_INPLACE_SIZE => b.buf # <<>>))
<1> USE SinkAssumption
<1>0. Len(what) \in Nat
  BY DEF Data
<1>1. CASE h.res # 0
  BY <1>1 DEF hc_buf_add
<1>2. CASE h.res = 0
  <2>1. PICK a \in flush(h, what) : b \in hc_fill(a, what)
    BY <1>2 DEF hc_buf_add
  <2>2. /\ a \in AnyApi /\ a.len = h.len
        /\ (a.res = 0 =>
              /\ Sent(a) = Sent(h)
              /\ (Going(h) /\ (Len(what) < MIN_INPLACE_SIZE \/ h.buf # <<>>) => Going(a)))
    <3> DEFINE cond == /\ NoRoom(h, Len(what))
                       /\ Len(h.buf) >= MIN_INPLACE_SIZE \/ Len(what) >= MIN_INPLACE_SIZE
    <3>1. CASE cond
      <4>1. PICK c \in http_send_chunk(h, h.buf) : a = IF c.res = 0 THEN Emptied(c) ELSE c
        BY <2>1, <3>1 DEF flush
      <4>2. Len(what) < MIN_INPLACE_SIZE => h.buf # <<>>
        <5>1. Len(what) < MIN_INPLACE_SIZE => Len(h.buf) >= MIN_INPLACE_SIZE
          BY <1>0, <3>1
        <5>2. h.buf = <<>> => Len(h.buf) = 0
          OBVIOUS
        <5> QED BY <5>1, <5>2
      <4>3. /\ a \in AnyApi /\ a.len = h.len
            /\ (a.res = 0 => Sent(a) = Sent(h) /\ (h.buf # <<>> /\ Going(h) => Going(a)))
        BY <4>1, BufferSent
      <4> QED BY <4>2, <4>3
    <3>2. CASE ~cond
      BY <2>1, <3>2 DEF flush
    <3> QED BY <3>1, <3>2
  <2>3. CASE a.res # 0
    BY <2>1, <2>2, <2>3 DEF hc_fill
  <2>4. CASE a.res = 0 /\ a.buf = <<>> /\ Len(what) >= MIN_INPLACE_SIZE
    <3>1. b \in http_send_chunk(a, what)
      BY <2>1, <2>4 DEF hc_fill
    <3>2. what # <<>>
      <4>1. what = <<>> => Len(what) = 0
        OBVIOUS
      <4> QED BY <2>4, <4>1
    <3>3. /\ b \in AnyApi /\ b.len = a.len /\ b.buf = a.buf
          /\ (b.res = 0 => /\ FlattenSeq(b.chunks) = FlattenSeq(a.chunks) \o what
                           /\ (Going(a) => Going(b)))
      BY <2>2, <3>1, <3>2, ChunkSent
    <3>4. FlattenSeq(a.chunks) \in Data /\ FlattenSeq(b.chunks) \in Data
      BY <2>2, <3>3, SentTyped
    <3> DEFINE f == FlattenSeq(a.chunks)
               g == FlattenSeq(b.chunks)
    <3> HIDE DEF f, g
    <3>5. f \o <<>> = f /\ g \o <<>> = g
      BY <3>4 DEF f, g, Data
    <3>6. b.res = 0 => Sent(b) = Sent(a) \o what
      BY <2>4, <3>3, <3>5 DEF Sent, f, g
    <3>7. ~(Len(what) < MIN_INPLACE_SIZE)
      BY <1>0, <2>4
    <3> QED BY <1>2, <2>2, <2>4, <3>3, <3>6, <3>7
  <2>5. CASE a.res = 0 /\ ~(a.buf = <<>> /\ Len(what) >= MIN_INPLACE_SIZE)
    <3>1. b = [a EXCEPT !.buf = @ \o what]
      BY <2>1, <2>5 DEF hc_fill
    <3>2. a.buf \in Data /\ FlattenSeq(a.chunks) \in Data
      BY <2>2, SentTyped
    <3>3. a.buf \o what \in Data
      BY <3>2, DataJoin
    <3>4. b \in AnyApi /\ b.len = a.len /\ b.chunks = a.chunks /\ b.buf = a.buf \o what
      BY <2>2, <3>1, <3>3 DEF AnyApi
    <3>5. Sent(b) = Sent(a) \o what
      <4> DEFINE f == FlattenSeq(a.chunks)
                 g == a.buf
      <4>1. f \in Data /\ g \in Data
        BY <3>2
      <4> HIDE DEF f, g
      <4>2. (f \o g) \o what = f \o (g \o what)
        BY ONLY <4>1, DataAssoc, ZenonT(40)
      <4> QED BY <3>4, <4>2 DEF Sent, f, g
    <3>6. Going(a) => Going(b)
      BY <3>4 DEF Going
    <3>7. what # <<>> => b.buf # <<>>
      <4> DEFINE g == a.buf
      <4>1. g \in Data /\ b.buf = g \o what
        BY <3>2, <3>4
      <4> HIDE DEF g
      <4>2. what # <<>> => g \o what # <<>>
        BY <4>1 DEF Data
      <4> QED BY <4>1, <4>2
    <3> QED BY <1>2, <2>2, <2>5, <3>4, <3>5, <3>6, <3>7
  <2> QED BY <2>3, <2>4, <2>5
<1> QED BY <1>1, <1>2

(* At the end the rest is sent, and then the only empty chunk. *)
LEMMA HcFinishSends ==
  ASSUME NEW h \in AnyApi, NEW b \in http_store_finish(h)
  PROVE  /\ b \in AnyApi /\ b.len = h.len /\ b.buf \in {h.buf, <<>>}
         /\ (b.res = 0 =>
               /\ h.res = 0
               /\ Sent(b) = Sent(h)
               /\ b.buf = <<>>
               /\ FlattenSeq(b.chunks) = Sent(h)
               /\ (Going(h) => \A i \in DOMAIN b.chunks :
                                 b.chunks[i] = <<>> <=> i = Len(b.chunks)))
<1> DEFINE sent == IF h.res = 0 /\ h.buf # <<>>
                   THEN {IF c.res = 0 THEN Emptied(c) ELSE c : c \in http_send_chunk(h, h.buf)}
                   ELSE {h}
<1>1. PICK a \in sent : b \in IF a.res = 0 THEN http_send_chunk(a, <<>>) ELSE {a}
  BY DEF http_store_finish
<1>2. /\ a \in AnyApi /\ a.len = h.len /\ a.buf \in {h.buf, <<>>}
      /\ (a.res = 0 => /\ h.res = 0 /\ a.buf = <<>> /\ Sent(a) = Sent(h)
                       /\ (Going(h) => Going(a)))
  <2>1. CASE h.res = 0 /\ h.buf # <<>>
    <3>1. PICK c \in http_send_chunk(h, h.buf) : a = IF c.res = 0 THEN Emptied(c) ELSE c
      BY <1>1, <2>1
    <3> QED BY <2>1, <3>1, BufferSent
  <2>2. CASE ~(h.res = 0 /\ h.buf # <<>>)
    BY <1>1, <2>2
  <2> QED BY <2>1, <2>2
<1>3. CASE a.res # 0
  BY <1>1, <1>2, <1>3
<1>4. CASE a.res = 0
  <2>0. <<>> \in Data
    BY DEF Data
  <2>1. b \in http_send_chunk(a, <<>>)
    BY <1>1, <1>4
  <2>2. /\ b \in AnyApi /\ b.len = a.len /\ b.buf = a.buf
        /\ (b.res = 0 => /\ b.chunks = Append(a.chunks, <<>>)
                         /\ FlattenSeq(b.chunks) = FlattenSeq(a.chunks) \o <<>>)
    BY <1>2, <2>0, <2>1, ChunkSent
  <2> DEFINE f == FlattenSeq(a.chunks)
             cs == a.chunks
  <2>3. f \in Data /\ cs \in Chunks
    BY <1>2, SentTyped
  <2> HIDE DEF f
  <2>4. f \o <<>> = f
    BY <2>3 DEF Data
  <2>5. Sent(a) = f
    BY <1>2, <1>4, <2>4 DEF Sent, f
  <2>6. b.res = 0 => FlattenSeq(b.chunks) = f
    BY <2>2, <2>4 DEF f
  <2>7. b.res = 0 => Sent(b) = f
    BY <1>2, <1>4, <2>2, <2>4, <2>6 DEF Sent
  <2>8. ASSUME b.res = 0, Going(a)
        PROVE  \A i \in DOMAIN b.chunks : b.chunks[i] = <<>> <=> i = Len(b.chunks)
    <3>1. b.chunks = Append(cs, <<>>) /\ \A i \in DOMAIN cs : cs[i] # <<>>
      BY <2>2, <2>8 DEF Going
    <3> HIDE DEF cs
    <3>2. \A i \in DOMAIN Append(cs, <<>>) :
            Append(cs, <<>>)[i] = <<>> <=> i = Len(Append(cs, <<>>))
      BY <2>3, <3>1 DEF Chunks
    <3> QED BY <3>1, <3>2
  <2> QED BY <1>2, <1>4, <2>2, <2>5, <2>6, <2>7, <2>8
<1> QED BY <1>3, <1>4

-----------------------------------------------------------------------------
(* What stat_store.c counts.                                               *)

DataOf(cs, t) == [i \in DOMAIN cs |-> IF cs[i].ts = t THEN cs[i].buf ELSE <<>>]
CountedOf(cs, t) ==
  [count |-> Cardinality({i \in DOMAIN cs : cs[i].ts = t}), size |-> Len(FlattenSeq(DataOf(cs, t)))]

(* Counting no calls, and one call more. *)
LEMMA NoneCounted ==
  ASSUME NEW t
  PROVE  CountedOf(<<>>, t) = [count |-> 0, size |-> 0]
<1>1. DataOf(<<>>, t) = <<>>
  BY DEF DataOf
<1>2. {i \in DOMAIN <<>> : <<>>[i].ts = t} = {}
  OBVIOUS
<1>3. Cardinality({}) = 0 /\ Len(FlattenSeq(<<>>)) = 0
  BY FS_EmptySet, FlattenEmpty
<1> QED BY <1>1, <1>2, <1>3 DEF CountedOf

LEMMA OneCounted ==
  ASSUME NEW cs \in Calls, NEW c \in ACall, NEW t
  PROVE  CountedOf(Append(cs, c), t) =
           IF c.ts = t THEN [count |-> CountedOf(cs, t).count + 1,
                             size |-> CountedOf(cs, t).size + Len(c.buf)]
           ELSE CountedOf(cs, t)
<1> DEFINE d == Append(cs, c)
           n == Len(cs)
           x == IF c.ts = t THEN c.buf ELSE <<>>
           P == {i \in DOMAIN cs : cs[i].ts = t}
           Q == {i \in DOMAIN d : d[i].ts = t}
<1>1. n \in Nat /\ DOMAIN cs = 1 .. n
  BY DEF Calls
<1>2. DOMAIN d = 1 .. n + 1 /\ d[n + 1] = c /\ \A i \in 1 .. n : d[i] = cs[i]
  BY AppendProperties DEF Calls
<1>3. x \in Data
  BY HeaderIs DEF Data
<1>4. DataOf(cs, t) \in Seq(Data) /\ Len(DataOf(cs, t)) = n
  <2>1. \A i \in DOMAIN cs : cs[i].buf \in Data /\ <<>> \in Data
    BY HeaderIs DEF Calls, Data
  <2> QED BY <1>1, <2>1 DEF DataOf
<1> HIDE DEF d, n
<1>5. DataOf(d, t) = Append(DataOf(cs, t), x)
  <2> DEFINE e == DataOf(cs, t)
             g == DataOf(d, t)
             y == Append(e, x)
  <2>1. e \in Seq(Data) /\ Len(e) = n
    BY <1>4
  <2>2. \A i \in 1 .. n : e[i] = IF cs[i].ts = t THEN cs[i].buf ELSE <<>>
    BY <1>1 DEF DataOf
  <2> HIDE DEF e
  <2>3. /\ y \in Seq(Data) /\ Len(y) = n + 1 /\ y[n + 1] = x
        /\ \A i \in 1 .. n : y[i] = e[i]
    BY <1>3, <2>1, AppendProperties
  <2>4. /\ g = [i \in 1 .. n + 1 |-> g[i]]
        /\ \A i \in 1 .. n + 1 : g[i] = IF d[i].ts = t THEN d[i].buf ELSE <<>>
    BY <1>2 DEF DataOf
  <2> HIDE DEF g, y
  <2>5. ASSUME NEW i \in 1 .. n + 1 PROVE g[i] = y[i]
    <3>1. CASE i \in 1 .. n
      BY <1>1, <1>2, <2>2, <2>3, <2>4, <3>1
    <3>2. CASE i = n + 1
      BY <1>1, <1>2, <2>3, <2>4, <3>2
    <3> QED BY <1>1, <3>1, <3>2
  <2>6. g \in Seq(Data) /\ Len(g) = n + 1
    <3>1. \A i \in 1 .. n + 1 : g[i] \in Data
      BY <1>1, <2>3, <2>5
    <3> QED BY <1>1, <2>4, <3>1
  <2>7. g = y
    BY <2>3, <2>5, <2>6, SeqEqual
  <2> QED BY <2>7 DEF g, y, e
<1>6. FlattenSeq(DataOf(d, t)) = FlattenSeq(DataOf(cs, t)) \o x /\ FlattenSeq(DataOf(cs, t)) \in Data
  BY <1>3, <1>4, <1>5, FlattenAppend, FlattenType DEF Data
<1> DEFINE f == FlattenSeq(DataOf(cs, t))
<1>7. f \in Data /\ FlattenSeq(DataOf(d, t)) = f \o x
  BY <1>6
<1> HIDE DEF f, x
<1>8. Len(f \o x) = Len(f) + Len(x) /\ Len(f) \in Nat /\ Len(x) \in Nat
  BY <1>3, <1>7, ConcatIs DEF Data
<1>9. IsFiniteSet(P) /\ n + 1 \notin P
  <2>1. P \subseteq 1 .. n
    BY <1>1
  <2> HIDE DEF P
  <2>2. IsFiniteSet(1 .. n)
    BY <1>1, FS_Interval
  <2>3. IsFiniteSet(P)
    BY <2>1, <2>2, FS_Subset
  <2>4. n + 1 \notin 1 .. n
    BY <1>1
  <2> QED BY <2>1, <2>3, <2>4
<1>10. Q = IF c.ts = t THEN P \cup {n + 1} ELSE P
  <2>1. ASSUME NEW i \in 1 .. n + 1 PROVE i \in Q <=> (IF i \in 1 .. n THEN i \in P ELSE c.ts = t)
    BY <1>1, <1>2, <2>1
  <2>2. Q \subseteq 1 .. n + 1 /\ P \subseteq 1 .. n
    BY <1>1, <1>2
  <2> HIDE DEF P, Q
  <2>3. ASSUME NEW i PROVE i \in Q <=> i \in IF c.ts = t THEN P \cup {n + 1} ELSE P
    <3>1. CASE i \in 1 .. n
      <4>1. i \in 1 .. n + 1 /\ i # n + 1
        BY <1>1, <3>1
      <4> QED BY <2>1, <3>1, <4>1
    <3>2. CASE i = n + 1
      <4>1. n + 1 \in 1 .. n + 1 /\ n + 1 \notin 1 .. n
        BY <1>1
      <4> QED BY <2>1, <2>2, <3>2, <4>1
    <3>3. CASE i \notin 1 .. n /\ i # n + 1
      <4>1. i \notin 1 .. n + 1
        BY <1>1, <3>3
      <4> QED BY <2>2, <3>3, <4>1
    <3> QED BY <3>1, <3>2, <3>3
  <2> QED BY <2>3
<1>11. CASE c.ts = t
  <2>1. Q = P \cup {n + 1} /\ x = c.buf
    BY <1>10, <1>11 DEF x
  <2> HIDE DEF P, Q
  <2>2. Cardinality(Q) = Cardinality(P) + 1
    BY <1>9, <2>1, FS_AddElement
  <2>3. CountedOf(d, t) = [count |-> Cardinality(P) + 1, size |-> Len(f) + Len(c.buf)]
    BY <1>7, <1>8, <2>1, <2>2 DEF CountedOf, Q
  <2>4. CountedOf(cs, t) = [count |-> Cardinality(P), size |-> Len(f)]
    BY DEF CountedOf, P, f
  <2> QED BY <1>11, <2>3, <2>4 DEF d
<1>12. CASE c.ts # t
  <2>1. Q = P /\ x = <<>>
    BY <1>10, <1>12 DEF x
  <2> HIDE DEF P, Q
  <2>2. Len(f \o x) = Len(f)
    BY <1>8, <2>1
  <2>3. CountedOf(d, t) = [count |-> Cardinality(P), size |-> Len(f)]
    BY <1>7, <2>1, <2>2 DEF CountedOf, Q
  <2>4. CountedOf(cs, t) = [count |-> Cardinality(P), size |-> Len(f)]
    BY DEF CountedOf, P, f
  <2> QED BY <1>12, <2>3, <2>4 DEF d
<1> QED BY <1>11, <1>12

-----------------------------------------------------------------------------
(* The invariant of the store.                                             *)

All == CallsOf[obj]

(* The calls to come are the last of those of the object. *)
CallsInv ==
  /\ obj \in Object /\ sink \in Sink
  /\ calls \in Calls
  /\ Len(calls) <= Len(All)
  /\ calls = Drop(All, Len(All) - Len(calls))

MemInv ==
  sink = "mem" => bufs \in Seq(Buf) /\ bufs # <<>> /\ Contents(bufs) = Stored

(* Nobody reads a file that is still written. *)
FileInv ==
  sink = "file" /\ wpc = "store" =>
    /\ rpc = "idle"
    /\ left \in Data
    /\ (~Damaged => wire \in Data /\ wire \o left = Stored)

HttpInv ==
  sink = "http" =>
    /\ api \in AnyApi
    /\ (wpc = "malloc" => calls = All)
    /\ (api.res = 0 /\ wpc # "overrun" =>
          /\ Sent(api) = Stored
          /\ (wpc # "stored" => Going(api))
          /\ (wpc = "stored" =>
                \A i \in DOMAIN api.chunks : api.chunks[i] = <<>> <=> i = Len(api.chunks)))

StatInv ==
  sink = "stat" =>
    DOMAIN stats = SxpTypes /\ \A t \in SxpTypes : stats[t] = CountedOf(Made, t)

SinksInv == CallsInv /\ MemInv /\ FileInv /\ HttpInv /\ StatInv

(* The calls that SfsIO starts with are those of store. *)
LEMMA AllCalls ==
  ASSUME obj \in Object
  PROVE  All \in Calls /\ All = store[obj]
BY IOAssumption, StoreIs DEF All, CallsOf

(* Nothing is stored before the first call. *)
LEMMA NothingMade ==
  ASSUME obj \in Object, calls = All
  PROVE  Made = <<>> /\ Stored = <<>>
<1>1. Len(All) \in Nat /\ All \in Calls
  BY AllCalls DEF Calls
<1>2. Len(All) - Len(calls) = 0
  BY <1>1
<1>3. SubSeq(All, 1, 0) = <<>>
  BY <1>1 DEF Calls
<1>4. Made = <<>>
  BY <1>2, <1>3 DEF Made, Take, All
<1> QED BY <1>4, StreamEmpty DEF Stored

(* One call more is made. *)
LEMMA CallMade ==
  ASSUME CallsInv, NextCall, UNCHANGED <<obj, sink>>
  PROVE  /\ Head(calls) \in ACall
         /\ Made \in Calls
         /\ Made' = Append(Made, Head(calls))
         /\ Stored \in Data
         /\ Stored' = (Stored \o Header(Head(calls))) \o Head(calls).buf
         /\ Stored \o Header(Head(calls)) \in Data
         /\ CallsInv'
<1> DEFINE c == Head(calls)
<1>1. All \in Calls /\ All' = All
  BY AllCalls DEF CallsInv, All
<1>2. calls # <<>> /\ calls' = Tail(calls)
  BY DEF NextCall
<1>3. /\ c \in ACall
      /\ Tail(calls) \in Calls
      /\ Len(Tail(calls)) <= Len(All)
      /\ Tail(calls) = Drop(All, Len(All) - Len(Tail(calls)))
      /\ Take(All, Len(All) - Len(calls)) \in Calls
      /\ Take(All, Len(All) - Len(Tail(calls))) = Append(Take(All, Len(All) - Len(calls)), c)
  <2>1. calls \in Calls /\ Len(calls) <= Len(All) /\ calls = Drop(All, Len(All) - Len(calls))
    BY DEF CallsInv
  <2> QED BY <1>1, <1>2, <2>1, OneCall
<1>4. Made \in Calls /\ Made' = Append(Made, c)
  BY <1>1, <1>2, <1>3 DEF Made, All
<1>5. CallsInv'
  BY <1>1, <1>2, <1>3 DEF CallsInv
<1>6. Stored \in Data
  BY <1>4, StreamTyped DEF Stored
<1>7. Stored' = Stored \o Bytes(c)
  BY <1>3, <1>4, StreamAppend DEF Stored
<1>8. Header(c) \in Data /\ c.buf \in Data
  BY <1>3, HeaderIs
<1>9. /\ Stored \o (Header(c) \o c.buf) = (Stored \o Header(c)) \o c.buf
      /\ Stored \o Header(c) \in Data
  <2> DEFINE x == Stored
             y == Header(c)
             z == c.buf
  <2>1. x \in Data /\ y \in Data /\ z \in Data
    BY <1>6, <1>8
  <2> HIDE DEF x, y, z
  <2>2. (x \o y) \o z = x \o (y \o z) /\ x \o y \in Data
    <3>1. (x \o y) \o z = x \o (y \o z)
      BY ONLY <2>1, DataAssoc, ZenonT(40)
    <3>2. x \o y \in Data
      BY ONLY <2>1, DataJoin
    <3> QED BY <3>1, <3>2
  <2> QED BY <2>2 DEF x, y, z
<1> QED BY <1>3, <1>4, <1>5, <1>6, <1>7, <1>9 DEF Bytes

(* Steps that make no call. *)
LEMMA NoCallMade ==
  ASSUME CallsInv, UNCHANGED <<obj, sink, calls>>
  PROVE  CallsInv' /\ All' = All /\ Made' = Made /\ Stored' = Stored
<1>1. CallsOf' = CallsOf
  BY DEF CallsOf
<1>2. All' = All
  BY <1>1 DEF All
<1>3. Made' = Made
  BY DEF Made
<1> QED BY <1>2, <1>3 DEF CallsInv, Stored

(* The load changes nothing of the store, and leaves a file alone until it is
   written. *)
LEMMA LoadKeeps ==
  ASSUME sfs_load \/ fetch_error \/ fetch_interrupted
  PROVE  /\ UNCHANGED <<obj, sink, calls, wpc, left, bufs, api, stats>>
         /\ ~(rpc = "idle" /\ sink = "file" /\ wpc = "store")
<1> USE DEF storeVars, loadVars
<1>1. CASE load_begins
  BY <1>1 DEF load_begins
<1>2. CASE fetch_buf
  BY <1>2 DEF fetch_buf, LoadEnds, Fetching
<1>3. ASSUME NEW n \in 1 .. Len(wire), fetch_read(n)
      PROVE  /\ UNCHANGED <<obj, sink, calls, wpc, left, bufs, api, stats>>
             /\ ~(rpc = "idle" /\ sink = "file" /\ wpc = "store")
  BY <1>3 DEF fetch_read, Fetching
<1>4. CASE fetch_closed
  BY <1>4 DEF fetch_closed, LoadEnds, Fetching
<1>5. CASE sfs_load_attributes
  BY <1>5 DEF sfs_load_attributes, Unchanged, AtHeader, Fetched
<1>6. CASE decode_one_simple
  BY <1>6 DEF decode_one_simple, Unchanged, IsObject, AtHeader, Fetched
<1>7. CASE decode_one_fetch
  BY <1>7 DEF decode_one_fetch, Unchanged, IsObject, AtHeader, Fetched
<1>8. CASE decode_one_long
  BY <1>8 DEF decode_one_long, Unchanged, LoadEnds, IsObject, AtHeader, Fetched
<1>9. CASE decode_one_kids
  BY <1>9 DEF decode_one_kids, Unchanged, IsObject, AtHeader, Fetched
<1>10. CASE decode_one_error
  BY <1>10 DEF decode_one_error, LoadEnds, AtHeader, Fetched
<1>11. CASE decode_one_data
  BY <1>11 DEF decode_one_data, Unchanged, Fetched
<1>12. CASE sfs_load_returns
  BY <1>12 DEF sfs_load_returns, Unchanged
<1>13. CASE fetch_error
  BY <1>13 DEF fetch_error, Fetching
<1>14. CASE fetch_interrupted
  BY <1>14 DEF fetch_interrupted, LoadEnds, Fetching
<1> QED
  BY <1>1, <1>2, <1>3, <1>4, <1>5, <1>6, <1>7, <1>8, <1>9, <1>10, <1>11, <1>12, <1>13, <1>14
     DEF sfs_load

(* Where objects are stored over HTTP, no memory that malloc has returned holds
   a position but the start. *)
Zeroed == "http" \in Sink => \A m \in Malloced : m.pos = 0

(* SinksInv is inductive. *)
LEMMA SinksInit ==
  ASSUME Init
  PROVE  SinksInv
<1>1. obj \in Object /\ sink \in Sink /\ calls = All
  BY DEF Init, All
<1>2. All \in Calls /\ Len(All) \in Nat
  BY <1>1, AllCalls DEF Calls
<1>3. CallsInv
  <2>1. Len(All) - Len(calls) = 0 /\ Len(calls) <= Len(All)
    BY <1>1, <1>2
  <2>2. SubSeq(All, 0 + 1, Len(All)) = All
    BY <1>2 DEF Calls
  <2> QED BY <1>1, <1>2, <2>1, <2>2 DEF CallsInv, Drop
<1>4. Made = <<>> /\ Stored = <<>>
  BY <1>1, NothingMade
<1>5. MemInv
  BY <1>4, OneBuffer DEF Init, MemInv
<1>6. FileInv
  <2>1. <<>> \in Data /\ <<>> \o <<>> = <<>>
    BY DEF Data
  <2> QED BY <1>4, <2>1 DEF Init, FileInv
<1>7. HttpInv
  <2>1. api = [len |-> 0, buf |-> <<>>, res |-> 0, chunks |-> <<>>]
    BY DEF Init
  <2>2. <<>> \in Data /\ <<>> \in Chunks /\ <<>> \o <<>> = <<>>
    BY DEF Data, Chunks
  <2>3. api \in AnyApi /\ api.chunks = <<>> /\ api.buf = <<>>
    BY <2>1, <2>2 DEF AnyApi
  <2>4. Sent(api) = <<>> /\ Going(api)
    BY <2>2, <2>3, FlattenEmpty DEF Sent, Going
  <2>5. sink = "http" => wpc = "malloc"
    BY DEF Init
  <2> QED BY <1>1, <1>4, <2>3, <2>4, <2>5 DEF HttpInv
<1>8. StatInv
  <2>1. stats = [t \in SxpTypes |-> [count |-> 0, size |-> 0]]
    BY DEF Init
  <2> QED BY <1>4, <2>1, NoneCounted DEF StatInv
<1> QED BY <1>3, <1>5, <1>6, <1>7, <1>8 DEF SinksInv

(* A piece of what is left is written. *)
LEMMA PieceWritten ==
  ASSUME NEW w \in Data, NEW l \in Data, NEW n \in 0 .. Len(l)
  PROVE  /\ w \o Take(l, n) \in Data /\ Drop(l, n) \in Data
         /\ (w \o Take(l, n)) \o Drop(l, n) = w \o l
<1> DEFINE a == Take(l, n)
           b == Drop(l, n)
<1>1. a \in Data /\ b \in Data /\ l = a \o b
  BY TakeDrop
<1> HIDE DEF a, b
<1>2. (w \o a) \o b = w \o (a \o b) /\ w \o a \in Data
  <2>1. w \in Data /\ a \in Data /\ b \in Data
    BY <1>1
  <2>2. (w \o a) \o b = w \o (a \o b)
    BY ONLY <2>1, DataAssoc, ZenonT(40)
  <2>3. w \o a \in Data
    BY ONLY <2>1, DataJoin
  <2> QED BY <2>2, <2>3
<1>3. w \o (a \o b) = w \o l
  BY <1>1
<1>4. (w \o a) \o b = w \o l
  BY <1>2, <1>3
<1> QED BY <1>1, <1>2, <1>4 DEF a, b

(* The memory that malloc has returned. *)
LEMMA MallocedIs ==
  ASSUME NEW m \in Malloced, NEW g \in Garbage,
         NEW h, h = [len |-> m.len, buf |-> [i \in 1 .. m.pos |-> g], res |-> 0, chunks |-> <<>>]
  PROVE  /\ h \in AnyApi /\ h.len = m.len /\ h.res = 0 /\ Len(h.buf) = m.pos
         /\ Going(h)
         /\ (m.pos = 0 => Sent(h) = <<>>)
<1>1. m.len \in Nat /\ m.pos \in Nat /\ g \in Byte
  BY IOAssumption DEF Byte
<1> DEFINE d == [i \in 1 .. m.pos |-> g]
<1>2. d \in Data /\ Len(d) = m.pos /\ <<>> \in Chunks
  BY <1>1 DEF Data, Chunks
<1>3. m.pos = 0 => d = <<>>
  <2>1. m.pos = 0 => Len(d) = 0
    BY <1>2
  <2> HIDE DEF d
  <2> QED BY <1>2, <2>1, EmptySeq DEF Data
<1>4. h.len = m.len /\ h.buf = d /\ h.res = 0 /\ h.chunks = <<>>
  OBVIOUS
<1> HIDE DEF d
<1>5. h \in AnyApi
  BY <1>1, <1>2 DEF AnyApi, d
<1>6. Going(h)
  BY <1>4 DEF Going
<1>7. m.pos = 0 => Sent(h) = <<>>
  BY <1>3, <1>4, FlattenEmpty DEF Sent
<1> QED BY <1>2, <1>4, <1>5, <1>6, <1>7

LEMMA SinksStep ==
  ASSUME Zeroed, SinksInv, [Next]_vars
  PROVE  SinksInv'
<1> USE DEF storeVars, loadVars
<1>0. CallsInv /\ MemInv /\ FileInv /\ HttpInv /\ StatInv
  BY DEF SinksInv
<1>1. CASE mem_add_buf
  <2>1. sink = "mem" /\ sink' = sink /\ NextCall /\ obj' = obj
    BY <1>1 DEF mem_add_buf, Storing
  <2> DEFINE hd == Header(Head(calls))
             b == Head(calls).buf
             one == mem_buf_add(bufs, hd)
             two == mem_buf_add(one, b)
  <2>2. /\ Stored' = (Stored \o hd) \o b /\ CallsInv'
        /\ Head(calls) \in ACall
    BY <1>0, <2>1, CallMade
  <2>3. hd \in Data /\ b \in Data
    BY <2>2, HeaderIs
  <2>4. bufs' = two
    BY <1>1 DEF mem_add_buf
  <2>5. bufs \in Seq(Buf) /\ bufs # <<>> /\ Contents(bufs) = Stored
    BY <1>0, <2>1 DEF MemInv
  <2> HIDE DEF hd, b
  <2>6. one \in Seq(Buf) /\ one # <<>> /\ Contents(one) = Stored \o hd
    BY <2>3, <2>5, MemBufAddFits, MemBufAddHolds
  <2> HIDE DEF one
  <2>7. two \in Seq(Buf) /\ two # <<>> /\ Contents(two) = (Stored \o hd) \o b
    BY <2>3, <2>6, MemBufAddFits, MemBufAddHolds
  <2> HIDE DEF two
  <2>8. MemInv'
    BY <2>2, <2>4, <2>7 DEF MemInv
  <2> QED BY <2>1, <2>2, <2>8 DEF SinksInv, FileInv, HttpInv, StatInv
<1>2. CASE C_mem_store
  <2>1. sink = "mem" /\ UNCHANGED <<obj, sink, calls, bufs>>
    BY <1>2 DEF C_mem_store, Storing, NoCall
  <2>2. CallsInv' /\ Stored' = Stored
    BY <1>0, <2>1, NoCallMade
  <2> QED BY <1>0, <2>1, <2>2 DEF SinksInv, MemInv, FileInv, HttpInv, StatInv
<1>3. CASE stat_add
  <2>1. sink = "stat" /\ sink' = sink /\ NextCall /\ obj' = obj
    BY <1>3 DEF stat_add, Storing
  <2> DEFINE c == Head(calls)
             sz == IF c.el = 0 THEN 0 ELSE c.len * c.el
  <2>2. c \in ACall /\ Made \in Calls /\ Made' = Append(Made, c) /\ CallsInv'
    BY <1>0, <2>1, CallMade
  <2>3. stats' = [stats EXCEPT ![c.ts] = [count |-> @.count + 1, size |-> @.size + sz]]
    BY <1>3 DEF stat_add
  <2> HIDE DEF c
  <2>4. c.ts \in SxpTypes /\ sz = Len(c.buf)
    <3>1. c.el = 0 => c.buf = <<>> /\ Len(<<>>) = 0
      BY <2>2 DEF ACall
    <3>2. c.el # 0 => c.len * c.el = Len(c.buf)
      BY <2>2 DEF ACall
    <3> QED BY <2>2, <3>1, <3>2 DEF ACall
  <2>5. DOMAIN stats = SxpTypes /\ \A t \in SxpTypes : stats[t] = CountedOf(Made, t)
    BY <1>0, <2>1 DEF StatInv
  <2> HIDE DEF sz
  <2>6. ASSUME NEW t \in SxpTypes PROVE stats'[t] = CountedOf(Made', t)
    <3>1. CASE c.ts = t
      <4>1. stats'[t] = [count |-> stats[t].count + 1, size |-> stats[t].size + sz]
        BY <2>3, <2>5, <3>1
      <4>2. CountedOf(Append(Made, c), t) =
              [count |-> CountedOf(Made, t).count + 1, size |-> CountedOf(Made, t).size + Len(c.buf)]
        BY <2>2, <3>1, OneCounted
      <4> QED BY <2>2, <2>4, <2>5, <4>1, <4>2
    <3>2. CASE c.ts # t
      <4>1. stats'[t] = stats[t]
        BY <2>3, <2>5, <3>2
      <4>2. CountedOf(Append(Made, c), t) = CountedOf(Made, t)
        BY <2>2, <3>2, OneCounted
      <4> QED BY <2>2, <2>5, <4>1, <4>2
    <3> QED BY <3>1, <3>2
  <2>7. DOMAIN stats' = SxpTypes
    BY <2>3, <2>5
  <2>8. StatInv'
    BY <2>6, <2>7 DEF StatInv
  <2> QED BY <2>1, <2>2, <2>8 DEF SinksInv, FileInv, HttpInv, MemInv
<1>4. CASE C_stat_store
  <2>1. sink = "stat" /\ UNCHANGED <<obj, sink, calls, stats>>
    BY <1>4 DEF C_stat_store, Storing, NoCall
  <2>2. CallsInv' /\ Made' = Made
    BY <1>0, <2>1, NoCallMade
  <2> QED BY <1>0, <2>1, <2>2 DEF SinksInv, MemInv, FileInv, HttpInv, StatInv
<1>5. CASE fd_write_header
  <2>1. /\ sink \in {"file", "sock"} /\ NextCall /\ left = <<>> /\ wpc = "store"
        /\ UNCHANGED <<obj, sink, wpc, rpc, medium>>
        /\ (~Damaged => wire' = wire \o Header(Head(calls))) /\ left' = Head(calls).buf
    BY <1>5 DEF fd_write_header, Storing, Written, Damaged
  <2>2. /\ Stored' = (Stored \o Header(Head(calls))) \o Head(calls).buf /\ CallsInv'
        /\ Stored \in Data /\ Stored \o Header(Head(calls)) \in Data
        /\ Head(calls) \in ACall
    BY <1>0, <2>1, CallMade
  <2>3. FileInv'
    <3> SUFFICES ASSUME sink = "file" PROVE FileInv'
      BY <2>1 DEF FileInv
    <3>1. rpc = "idle" /\ (~Damaged => wire \in Data /\ wire \o left = Stored)
      BY <1>0, <2>1 DEF FileInv
    <3>2. ~Damaged => wire = Stored
      <4>1. wire \in Data => wire \o <<>> = wire
        BY DEF Data
      <4> QED BY <2>1, <3>1, <4>1
    <3>3. Head(calls).buf \in Data
      BY <2>2, HeaderIs
    <3>4. Damaged' = Damaged
      BY <2>1 DEF Damaged
    <3> QED BY <2>1, <2>2, <3>1, <3>2, <3>3, <3>4 DEF FileInv
  <2> QED BY <2>1, <2>2, <2>3 DEF SinksInv, MemInv, HttpInv, StatInv
<1>6. CASE fd_write_header_fails
  <2>1. /\ sink \in {"file", "sock"} /\ NextCall /\ wpc = "store"
        /\ UNCHANGED <<obj, sink, wpc, rpc>> /\ Damaged' /\ left' = Head(calls).buf
    BY <1>6 DEF fd_write_header_fails, Storing, Damaged
  <2>2. CallsInv' /\ Head(calls) \in ACall
    BY <1>0, <2>1, CallMade
  <2>3. Head(calls).buf \in Data
    BY <2>2, HeaderIs
  <2>4. FileInv'
    BY <1>0, <2>1, <2>3 DEF FileInv
  <2> QED BY <2>1, <2>2, <2>4 DEF SinksInv, MemInv, HttpInv, StatInv
<1>7. ASSUME NEW n \in 0 .. HeaderSize - 1, fd_write_header_short(n) PROVE SinksInv'
  <2>1. /\ sink \in {"file", "sock"} /\ NextCall /\ wpc' = "failed"
        /\ UNCHANGED <<obj, sink>>
    BY <1>7 DEF fd_write_header_short, Storing
  <2>2. CallsInv'
    BY <1>0, <2>1, CallMade
  <2> QED BY <2>1, <2>2 DEF SinksInv, FileInv, MemInv, HttpInv, StatInv
<1>8. ASSUME NEW n \in 1 .. Len(left), fd_write_data(n) PROVE SinksInv'
  <2>1. /\ sink \in {"file", "sock"} /\ wpc = "store"
        /\ UNCHANGED <<obj, sink, calls, wpc, rpc, medium>>
        /\ (~Damaged => wire' = wire \o Take(left, n)) /\ left' = Drop(left, n)
    BY <1>8 DEF fd_write_data, Storing, Written, Damaged
  <2>2. CallsInv' /\ Stored' = Stored
    BY <1>0, <2>1, NoCallMade
  <2>3. FileInv'
    <3> SUFFICES ASSUME sink = "file" PROVE FileInv'
      BY <2>1 DEF FileInv
    <3>1. /\ rpc = "idle" /\ left \in Data
          /\ (~Damaged => wire \in Data /\ wire \o left = Stored)
      BY <1>0, <2>1 DEF FileInv
    <3>2. n \in 0 .. Len(left)
      BY <3>1 DEF Data
    <3>3. Drop(left, n) \in Data
      BY <3>1, <3>2, TakeDrop
    <3>4. ASSUME ~Damaged
          PROVE  /\ wire \o Take(left, n) \in Data
                 /\ (wire \o Take(left, n)) \o Drop(left, n) = wire \o left
      BY <3>1, <3>2, <3>4, PieceWritten
    <3>5. Damaged' = Damaged
      BY <2>1 DEF Damaged
    <3> QED BY <2>1, <2>2, <3>1, <3>3, <3>4, <3>5 DEF FileInv
  <2> QED BY <2>1, <2>2, <2>3 DEF SinksInv, MemInv, HttpInv, StatInv
<1>9. CASE fd_write_data_fails
  <2>1. sink \in {"file", "sock"} /\ UNCHANGED <<obj, sink, calls>> /\ wpc' = "failed"
    BY <1>9 DEF fd_write_data_fails, Storing
  <2>2. CallsInv'
    BY <1>0, <2>1, NoCallMade
  <2> QED BY <2>1, <2>2 DEF SinksInv, FileInv, MemInv, HttpInv, StatInv
<1>10. CASE C_file_store
  <2>1. sink \in {"file", "sock"} /\ UNCHANGED <<obj, sink, calls>> /\ wpc' = "stored"
    BY <1>10 DEF C_file_store, Storing, NoCall
  <2>2. CallsInv'
    BY <1>0, <2>1, NoCallMade
  <2> QED BY <2>1, <2>2 DEF SinksInv, FileInv, MemInv, HttpInv, StatInv
<1>11. CASE http_store_malloc
  <2>1. sink = "http" /\ wpc = "malloc" /\ UNCHANGED <<obj, sink, calls>>
    BY <1>11 DEF http_store_malloc
  <2>2. CallsInv' /\ All' = All /\ Stored' = Stored
    BY <1>0, <2>1, NoCallMade
  <2>3. calls = All /\ Stored = <<>>
    BY <1>0, <2>1, NothingMade DEF HttpInv, CallsInv
  <2>4. HttpInv'
    <3>1. CASE \E m \in Malloced, g \in Garbage :
                 /\ api' = [len |-> m.len, buf |-> [i \in 1 .. m.pos |-> g], res |-> 0, chunks |-> <<>>]
                 /\ wpc' = "store"
      <4>1. PICK m \in Malloced, g \in Garbage :
              /\ api' = [len |-> m.len, buf |-> [i \in 1 .. m.pos |-> g], res |-> 0, chunks |-> <<>>]
              /\ wpc' = "store"
        BY <3>1
      <4>2. m.pos = 0
        BY <1>0, <2>1 DEF Zeroed, CallsInv
      <4>3. api' \in AnyApi /\ Going(api') /\ Sent(api') = <<>>
        BY <4>1, <4>2, MallocedIs
      <4> QED BY <2>2, <2>3, <4>1, <4>3 DEF HttpInv
    <3>2. CASE wpc' = "failed" /\ UNCHANGED api
      BY <1>0, <2>1, <2>2, <2>3, <3>2 DEF HttpInv
    <3> QED BY <1>11, <3>1, <3>2 DEF http_store_malloc
  <2> QED BY <2>1, <2>2, <2>4 DEF SinksInv, FileInv, MemInv, StatInv
<1>12. CASE http_add
  <2>1. sink = "http" /\ wpc = "store" /\ NextCall /\ UNCHANGED <<obj, sink>>
    BY <1>12 DEF http_add, Storing
  <2> DEFINE hd == Header(Head(calls))
             d == Head(calls).buf
  <2>2. PICK a \in hc_buf_add(api, hd) : \E b \in hc_buf_add(a, d) :
          api' = b /\ wpc' = IF Overrun(a) \/ Overrun(b) THEN "overrun" ELSE wpc
    BY <1>12 DEF http_add
  <2>3. api' \in hc_buf_add(a, d) /\ wpc' \in {"store", "overrun"}
    BY <2>1, <2>2
  <2>4. /\ Stored' = (Stored \o hd) \o d /\ CallsInv'
        /\ Head(calls) \in ACall
    BY <1>0, <2>1, CallMade
  <2>5. hd \in Data /\ Len(hd) = HeaderSize /\ d \in Data
    BY <2>4, HeaderIs
  <2>6. Len(hd) < MIN_INPLACE_SIZE /\ hd # <<>>
    <3>1. Len(<<>>) = 0 /\ HeaderSize = 8
      BY DEF HeaderSize
    <3>2. HeaderSize < MIN_INPLACE_SIZE
      BY <3>1, IOAssumption, SinkAssumption
    <3> HIDE DEF hd
    <3>3. Len(hd) < MIN_INPLACE_SIZE
      BY <2>5, <3>2
    <3>4. hd # <<>>
      <4>1. Len(hd) = 8
        BY <2>5, <3>1
      <4>2. hd = <<>> => Len(hd) = 0
        BY <2>5, EmptySeq DEF Data
      <4> QED BY ONLY <4>1, <4>2
    <3> QED BY <3>3, <3>4
  <2> HIDE DEF hd, d
  <2>7. api \in AnyApi
    BY <1>0, <2>1 DEF HttpInv
  <2>8. /\ a \in AnyApi
        /\ (a.res = 0 => /\ api.res = 0
                         /\ Sent(a) = Sent(api) \o hd
                         /\ (Going(api) => Going(a))
                         /\ a.buf # <<>>)
    BY <2>2, <2>5, <2>6, <2>7, HcBufAddSends
  <2>9. /\ api' \in AnyApi
        /\ (api'.res = 0 => /\ a.res = 0
                            /\ Sent(api') = Sent(a) \o d
                            /\ (Going(a) => Going(api')))
    BY <2>3, <2>5, <2>8, HcBufAddSends
  <2>10. HttpInv'
    <3> SUFFICES ASSUME api'.res = 0, wpc' = "store"
                 PROVE  Sent(api') = Stored' /\ Going(api')
      BY <2>3, <2>9 DEF HttpInv
    <3>1. a.res = 0 /\ api.res = 0
      BY <2>8, <2>9
    <3>2. Sent(api) = Stored /\ Going(api)
      BY <1>0, <2>1, <3>1 DEF HttpInv
    <3> QED BY <2>4, <2>8, <2>9, <3>1, <3>2
  <2> QED BY <2>1, <2>4, <2>10 DEF SinksInv, FileInv, MemInv, StatInv
<1>13. CASE http_store
  <2>1. sink = "http" /\ wpc = "store" /\ UNCHANGED <<obj, sink, calls>>
    BY <1>13 DEF http_store, Storing, NoCall
  <2>2. CallsInv' /\ Stored' = Stored
    BY <1>0, <2>1, NoCallMade
  <2>3. api' \in http_store_finish(api) /\ wpc' = IF api'.res = 0 THEN "stored" ELSE "failed"
    BY <1>13 DEF http_store
  <2>4. api \in AnyApi
    BY <1>0, <2>1 DEF HttpInv
  <2>5. /\ api' \in AnyApi
        /\ (api'.res = 0 =>
              /\ api.res = 0
              /\ Sent(api') = Sent(api)
              /\ (Going(api) => \A i \in DOMAIN api'.chunks :
                                  api'.chunks[i] = <<>> <=> i = Len(api'.chunks)))
    BY <2>3, <2>4, HcFinishSends
  <2>6. HttpInv'
    <3> SUFFICES ASSUME api'.res = 0
                 PROVE  /\ Sent(api') = Stored'
                        /\ \A i \in DOMAIN api'.chunks :
                             api'.chunks[i] = <<>> <=> i = Len(api'.chunks)
      BY <2>3, <2>5 DEF HttpInv
    <3>1. Sent(api) = Stored /\ Going(api)
      BY <1>0, <2>1, <2>5 DEF HttpInv
    <3> QED BY <2>2, <2>5, <3>1
  <2> QED BY <2>1, <2>2, <2>6 DEF SinksInv, FileInv, MemInv, StatInv
<1>14. CASE sfs_load \/ fetch_error \/ fetch_interrupted
  <2>1. /\ UNCHANGED <<obj, sink, calls, wpc, left, bufs, api, stats>>
        /\ ~(rpc = "idle" /\ sink = "file" /\ wpc = "store")
    BY <1>14, LoadKeeps
  <2>2. CallsInv' /\ All' = All /\ Stored' = Stored /\ Made' = Made
    BY <1>0, <2>1, NoCallMade
  <2>3. MemInv' /\ StatInv'
    BY <1>0, <2>1, <2>2 DEF MemInv, StatInv
  <2>4. FileInv'
    BY <1>0, <2>1 DEF FileInv
  <2>5. HttpInv'
    BY <1>0, <2>1, <2>2 DEF HttpInv
  <2> QED BY <2>2, <2>3, <2>4, <2>5 DEF SinksInv
<1>15. CASE UNCHANGED vars
  <2>1. UNCHANGED <<obj, sink, calls, wpc, left, bufs, api, stats, wire, medium, rpc>>
    BY <1>15 DEF vars
  <2>2. CallsInv' /\ All' = All /\ Stored' = Stored /\ Made' = Made
    BY <1>0, <2>1, NoCallMade
  <2>3. MemInv' /\ StatInv'
    BY <1>0, <2>1, <2>2 DEF MemInv, StatInv
  <2>4. FileInv'
    BY <1>0, <2>1, <2>2 DEF FileInv, Damaged
  <2>5. HttpInv'
    BY <1>0, <2>1, <2>2 DEF HttpInv
  <2> QED BY <2>2, <2>3, <2>4, <2>5 DEF SinksInv
<1> QED
  BY <1>1, <1>2, <1>3, <1>4, <1>5, <1>6, <1>7, <1>8, <1>9, <1>10, <1>11, <1>12, <1>13, <1>14,
     <1>15 DEF Next, sfs_store

(* What a sink has written, sent or buffered are the bytes of the calls so far,
   in order and each once, an empty chunk only ends a response, and what statSFS
   counts are the calls and their bytes: for every object and all sizes of
   buffers and thresholds, however writes are cut, whenever they fail.  The
   assumption is about HTTP only: http_store does not initialise pos, which is
   taken to be 0 as in fresh memory. *)
THEOREM BytesAreAccounted ==
  ASSUME Zeroed
  PROVE  Spec => []Accounted
<1>1. Init => SinksInv
  BY SinksInit
<1>2. SinksInv /\ [Next]_vars => SinksInv'
  BY Zeroed, SinksStep
<1>3. SinksInv => Accounted
  <2> SUFFICES ASSUME SinksInv PROVE Accounted
    OBVIOUS
  <2>1. MemInv /\ FileInv /\ HttpInv /\ StatInv
    BY DEF SinksInv
  <2>2. sink = "mem" => Contents(bufs) = Stored
    BY <2>1 DEF MemInv
  <2>3. sink = "file" /\ wpc = "store" /\ ~Damaged => wire \o left = Stored
    BY <2>1 DEF FileInv
  <2>4. ASSUME sink = "http", api.res = 0, wpc # "overrun"
        PROVE  /\ FlattenSeq(api.chunks) \o api.buf = Stored
               /\ \A i \in DOMAIN api.chunks :
                    api.chunks[i] = <<>> <=> (wpc = "stored" /\ i = Len(api.chunks))
    <3>1. /\ Sent(api) = Stored
          /\ (wpc # "stored" => Going(api))
          /\ (wpc = "stored" =>
                \A i \in DOMAIN api.chunks : api.chunks[i] = <<>> <=> i = Len(api.chunks))
      BY <2>1, <2>4 DEF HttpInv
    <3>2. ASSUME NEW i \in DOMAIN api.chunks
          PROVE  api.chunks[i] = <<>> <=> (wpc = "stored" /\ i = Len(api.chunks))
      BY <3>1 DEF Going
    <3> QED BY <3>1, <3>2 DEF Sent
  <2>5. sink = "stat" => \A t \in SxpTypes : stats[t] = Counted(t)
    BY <2>1 DEF StatInv, CountedOf, DataOf, Counted
  <2> QED BY <2>2, <2>3, <2>4, <2>5 DEF Accounted
<1> QED BY <1>1, <1>2, <1>3, PTL DEF Spec

-----------------------------------------------------------------------------
(* The bytes of an object, in the order in which the loader meets them.    *)

(* What sfs_load is called for: every object but byte code, in whose place its
   expression is stored. *)
Item == {v \in Robject : v.ts # BCODESXP}

(* A string of a vector is stored by one call. *)
CallsFor(v) == IF v.ts = CHARSXP THEN <<CharCall(v)>> ELSE store[v]
BytesOf(v) == Stream(CallsFor(v))
BytesOfAll(s) == FlattenSeq([i \in DOMAIN s |-> BytesOf(s[i])])

(* From the k-th on. *)
BytesFrom(s, k) == BytesOfAll(SubSeq(s, k, Len(s)))

(* What is stored for an item are calls. *)
LEMMA CallsForTyped ==
  ASSUME NEW v \in Item
  PROVE  CallsFor(v) \in Calls /\ BytesOf(v) \in Data
<1>1. CallsFor(v) \in Calls
  <2>1. CASE v.ts = CHARSXP
    <3>1. v.data \in Data /\ CHARSXP \in SxpTypes \ {ENVSXP}
      BY Formed DEF Item, SxpTypes, CHARSXP, ENVSXP
    <3>2. CharCall(v) \in ACall
      BY <3>1, TerminatedCall DEF CharCall
    <3> QED BY <2>1, <3>2 DEF CallsFor, Calls
  <2>2. CASE v.ts # CHARSXP
    BY <2>2, StoreIs DEF CallsFor, Item
  <2> QED BY <2>1, <2>2
<1> QED BY <1>1, StreamTyped DEF BytesOf

LEMMA MappedBytes ==
  ASSUME NEW cs \in Calls, NEW e, e = [i \in DOMAIN cs |-> Bytes(cs[i])]
  PROVE  /\ e \in Seq(Data) /\ Len(e) = Len(cs)
         /\ \A i \in 1 .. Len(cs) : e[i] = Bytes(cs[i])
<1>1. DOMAIN cs = 1 .. Len(cs) /\ Len(cs) \in Nat
  BY DEF Calls
<1>2. \A i \in DOMAIN cs : Bytes(cs[i]) \in Data
  BY HeaderIs DEF Calls
<1> HIDE DEF Bytes
<1> QED BY <1>1, <1>2

(* The bytes of two sequences of calls one after the other. *)
LEMMA StreamConcat ==
  ASSUME NEW a \in Calls, NEW b \in Calls
  PROVE  a \o b \in Calls /\ Stream(a \o b) = Stream(a) \o Stream(b)
<1> DEFINE c == a \o b
           x == [i \in DOMAIN a |-> Bytes(a[i])]
           y == [i \in DOMAIN b |-> Bytes(b[i])]
           z == [i \in DOMAIN c |-> Bytes(c[i])]
           w == x \o y
<1>1. /\ c \in Calls /\ Len(c) = Len(a) + Len(b) /\ Len(a) \in Nat /\ Len(b) \in Nat
      /\ \A i \in 1 .. Len(a) : c[i] = a[i]
      /\ \A i \in 1 .. Len(b) : c[Len(a) + i] = b[i]
  BY ConcatIs DEF Calls
<1>2. /\ x \in Seq(Data) /\ Len(x) = Len(a)
      /\ \A i \in 1 .. Len(a) : x[i] = Bytes(a[i])
  BY MappedBytes
<1>3. /\ y \in Seq(Data) /\ Len(y) = Len(b)
      /\ \A i \in 1 .. Len(b) : y[i] = Bytes(b[i])
  BY MappedBytes
<1> HIDE DEF c
<1>4. /\ z \in Seq(Data) /\ Len(z) = Len(c)
      /\ \A i \in 1 .. Len(c) : z[i] = Bytes(c[i])
  BY <1>1, MappedBytes
<1> HIDE DEF x, y, z
<1>5. /\ w \in Seq(Data) /\ Len(w) = Len(x) + Len(y)
      /\ \A i \in 1 .. Len(x) : w[i] = x[i]
      /\ \A i \in 1 .. Len(y) : w[Len(x) + i] = y[i]
  <2>1. x \in Seq(Data) /\ y \in Seq(Data)
    BY <1>2, <1>3
  <2> QED BY ONLY <2>1, ConcatIs
<1> HIDE DEF w
<1>6. ASSUME NEW i \in 1 .. Len(z) PROVE z[i] = w[i]
  <2>1. CASE i \in 1 .. Len(a)
    BY <1>1, <1>2, <1>4, <1>5, <2>1
  <2>2. CASE i \notin 1 .. Len(a)
    <3> DEFINE j == i - Len(a)
    <3>1. j \in 1 .. Len(b) /\ i = Len(a) + j
      BY <1>1, <1>4, <2>2
    <3> HIDE DEF j
    <3>2. z[i] = Bytes(c[i]) /\ c[i] = b[j] /\ w[i] = y[j] /\ y[j] = Bytes(b[j])
      BY <1>1, <1>2, <1>3, <1>4, <1>5, <3>1
    <3> QED BY <3>2
  <2> QED BY <2>1, <2>2
<1>7. z = w
  <2>1. Len(z) = Len(w)
    BY <1>1, <1>2, <1>3, <1>4, <1>5
  <2> QED BY <1>4, <1>5, <1>6, <2>1, SeqEqual
<1>8. FlattenSeq(w) = FlattenSeq(x) \o FlattenSeq(y)
  BY <1>2, <1>3, FlattenConcat DEF Data, w
<1> QED BY <1>1, <1>7, <1>8 DEF Stream, x, y, z, c

LEMMA StreamOne ==
  ASSUME NEW c \in ACall
  PROVE  Stream(<<c>>) = Bytes(c)
<1>1. <<>> \in Calls /\ Append(<<>>, c) = <<c>>
  BY DEF Calls
<1>2. Stream(<<c>>) = Stream(<<>>) \o Bytes(c)
  BY <1>1, StreamAppend
<1> DEFINE d == Bytes(c)
<1>3. d \in Data /\ Stream(<<c>>) = <<>> \o d
  BY <1>2, HeaderIs, StreamEmpty
<1> HIDE DEF d
<1>4. <<>> \o d = d
  BY <1>3 DEF Data
<1> QED BY <1>3, <1>4 DEF d

(* The bytes of the calls of several objects. *)
LEMMA StreamFlatten ==
  ASSUME NEW s \in Seq(Calls)
  PROVE  Stream(FlattenSeq(s)) = FlattenSeq([i \in DOMAIN s |-> Stream(s[i])])
<1> DEFINE u(n) == SubSeq(s, 1, n)
           G(t) == [i \in DOMAIN t |-> Stream(t[i])]
           T == {n \in Nat : n <= Len(s) => Stream(FlattenSeq(u(n))) = FlattenSeq(G(u(n)))}
<1>0. Len(s) \in Nat
  OBVIOUS
<1>1. 0 \in T
  <2>1. u(0) = <<>>
    OBVIOUS
  <2>2. G(<<>>) = <<>>
    OBVIOUS
  <2> HIDE DEF G, u
  <2> QED BY <2>1, <2>2, FlattenEmpty, StreamEmpty
<1>2. ASSUME NEW t \in Seq(Calls), NEW x \in Calls
      PROVE  G(t) \in Seq(Data) /\ G(Append(t, x)) = Append(G(t), Stream(x))
  <2> DEFINE n == Len(t)
             d == Append(t, x)
             e == G(t)
             g == G(d)
             y == Append(e, Stream(x))
  <2>1. n \in Nat /\ DOMAIN t = 1 .. n /\ \A i \in 1 .. n : t[i] \in Calls
    OBVIOUS
  <2>2. DOMAIN d = 1 .. n + 1 /\ d[n + 1] = x /\ \A i \in 1 .. n : d[i] = t[i]
    BY AppendProperties
  <2>3. e \in Seq(Data) /\ Len(e) = n /\ \A i \in 1 .. n : e[i] = Stream(t[i])
    <3>1. \A i \in 1 .. n : Stream(t[i]) \in Data
      BY <2>1, StreamTyped
    <3> HIDE DEF Stream
    <3> QED BY <2>1, <3>1
  <2>4. Stream(x) \in Data
    BY StreamTyped
  <2> HIDE DEF e, d
  <2>5. /\ y \in Seq(Data) /\ Len(y) = n + 1 /\ y[n + 1] = Stream(x)
        /\ \A i \in 1 .. n : y[i] = e[i]
    BY <2>3, <2>4, AppendProperties
  <2>6. g = [i \in 1 .. n + 1 |-> g[i]] /\ \A i \in 1 .. n + 1 : g[i] = Stream(d[i])
    BY <2>2
  <2> HIDE DEF g, y
  <2>7. ASSUME NEW i \in 1 .. n + 1 PROVE g[i] = y[i]
    <3>1. CASE i \in 1 .. n
      BY <2>1, <2>2, <2>3, <2>5, <2>6, <3>1
    <3>2. CASE i = n + 1
      BY <2>1, <2>2, <2>5, <2>6, <3>2
    <3> QED BY <2>1, <3>1, <3>2
  <2>8. g \in Seq(Data) /\ Len(g) = n + 1
    <3>1. \A i \in 1 .. n + 1 : g[i] \in Data
      BY <2>1, <2>5, <2>7
    <3> QED BY <2>1, <2>6, <3>1
  <2>9. g = y
    BY <2>5, <2>7, <2>8, SeqEqual
  <2> QED BY <2>3, <2>9 DEF g, y, e, d
<1>3. ASSUME NEW n \in T PROVE n + 1 \in T
  <2>1. n \in Nat /\ (n <= Len(s) => Stream(FlattenSeq(u(n))) = FlattenSeq(G(u(n))))
    OBVIOUS
  <2> SUFFICES ASSUME n + 1 <= Len(s)
               PROVE  Stream(FlattenSeq(u(n + 1))) = FlattenSeq(G(u(n + 1)))
    <3> HIDE DEF u, G
    <3> QED BY <2>1
  <2> DEFINE x == s[n + 1]
  <2>2. n <= Len(s) /\ n + 1 \in 1 .. Len(s)
    BY <1>0, <2>1
  <2>3. x \in Calls
    BY <2>2
  <2>4. u(n) \in Seq(Calls) /\ u(n + 1) = Append(u(n), x)
    BY <2>1, <2>2
  <2> HIDE DEF u, x, G
  <2>5. FlattenSeq(Append(u(n), x)) = FlattenSeq(u(n)) \o x /\ FlattenSeq(u(n)) \in Calls
    BY <2>3, <2>4, FlattenAppend, FlattenType DEF Calls
  <2>6. Stream(FlattenSeq(u(n)) \o x) = Stream(FlattenSeq(u(n))) \o Stream(x)
    BY <2>3, <2>5, StreamConcat
  <2>7. G(u(n)) \in Seq(Data) /\ G(Append(u(n), x)) = Append(G(u(n)), Stream(x))
    BY <1>2, <2>3, <2>4
  <2>8. Stream(x) \in Data
    BY <2>3, StreamTyped
  <2>9. FlattenSeq(Append(G(u(n)), Stream(x))) = FlattenSeq(G(u(n))) \o Stream(x)
    BY <2>7, <2>8, FlattenAppend DEF Data
  <2> QED BY <2>1, <2>2, <2>4, <2>5, <2>6, <2>7, <2>9
<1>4. Len(s) \in T
  <2>1. T \subseteq Nat
    OBVIOUS
  <2> HIDE DEF T
  <2> QED BY <1>0, <1>1, <1>3, <2>1, NatSetInduction
<1>5. u(Len(s)) = s
  OBVIOUS
<1>6. Stream(FlattenSeq(u(Len(s)))) = FlattenSeq(G(u(Len(s))))
  BY <1>0, <1>4
<1> HIDE DEF u, T
<1> QED BY <1>5, <1>6

LEMMA AllMapped ==
  ASSUME NEW s \in Seq(Item), NEW e, e = [i \in DOMAIN s |-> BytesOf(s[i])]
  PROVE  /\ e \in Seq(Data) /\ Len(e) = Len(s)
         /\ \A i \in 1 .. Len(s) : e[i] = BytesOf(s[i])
<1>1. DOMAIN s = 1 .. Len(s) /\ Len(s) \in Nat /\ \A i \in 1 .. Len(s) : s[i] \in Item
  OBVIOUS
<1>2. \A i \in 1 .. Len(s) : BytesOf(s[i]) \in Data
  BY <1>1, CallsForTyped
<1> HIDE DEF BytesOf
<1> QED BY <1>1, <1>2

LEMMA BytesOfAllTyped ==
  ASSUME NEW s \in Seq(Item)
  PROVE  BytesOfAll(s) \in Data
<1> DEFINE e == [i \in DOMAIN s |-> BytesOf(s[i])]
<1>1. e \in Seq(Data)
  BY AllMapped
<1> HIDE DEF e
<1>2. FlattenSeq(e) \in Data
  BY <1>1, FlattenType DEF Data
<1> QED BY <1>2 DEF BytesOfAll, e

(* The first object and the others. *)
LEMMA BytesOfAllFirst ==
  ASSUME NEW v \in Item, NEW s \in Seq(Item), NEW t \in Seq(Item),
         Len(t) = Len(s) + 1, t[1] = v, \A i \in 1 .. Len(s) : t[i + 1] = s[i]
  PROVE  BytesOfAll(t) = BytesOf(v) \o BytesOfAll(s)
<1> DEFINE x == [i \in DOMAIN s |-> BytesOf(s[i])]
           z == [i \in DOMAIN t |-> BytesOf(t[i])]
           y == <<BytesOf(v)>>
           w == y \o x
<1>0. Len(s) \in Nat
  OBVIOUS
<1>1. x \in Seq(Data) /\ Len(x) = Len(s) /\ \A i \in 1 .. Len(s) : x[i] = BytesOf(s[i])
  BY AllMapped
<1>2. z \in Seq(Data) /\ Len(z) = Len(t) /\ \A i \in 1 .. Len(t) : z[i] = BytesOf(t[i])
  BY AllMapped
<1>3. BytesOf(v) \in Data
  BY CallsForTyped
<1>4. y \in Seq(Data) /\ Len(y) = 1 /\ y[1] = BytesOf(v)
  BY <1>3
<1> HIDE DEF x, y, z
<1>5. /\ w \in Seq(Data) /\ Len(w) = Len(y) + Len(x)
      /\ \A i \in 1 .. Len(y) : w[i] = y[i]
      /\ \A i \in 1 .. Len(x) : w[Len(y) + i] = x[i]
  <2>1. x \in Seq(Data) /\ y \in Seq(Data)
    BY <1>1, <1>4
  <2> QED BY ONLY <2>1, ConcatIs
<1> HIDE DEF w
<1>6. ASSUME NEW i \in 1 .. Len(z) PROVE z[i] = w[i]
  <2>1. CASE i = 1
    BY <1>0, <1>2, <1>4, <1>5, <2>1
  <2>2. CASE i # 1
    <3> DEFINE j == i - 1
    <3>1. j \in 1 .. Len(s) /\ i = j + 1 /\ i = 1 + j
      BY <1>0, <1>2, <2>2
    <3> HIDE DEF j
    <3>2. t[i] = s[j]
      BY <3>1
    <3>3. w[i] = x[j]
      BY <1>1, <1>4, <1>5, <3>1
    <3>4. z[i] = BytesOf(t[i])
      BY <1>2
    <3> QED BY <1>1, <3>1, <3>2, <3>3, <3>4
  <2> QED BY <2>1, <2>2
<1>7. z = w
  <2>1. Len(z) = Len(w)
    BY <1>0, <1>1, <1>2, <1>4, <1>5
  <2> QED BY <1>2, <1>5, <1>6, <2>1, SeqEqual
<1>8. FlattenSeq(w) = FlattenSeq(y) \o FlattenSeq(x)
  BY <1>1, <1>4, FlattenConcat DEF Data, w
<1>9. FlattenSeq(y) = BytesOf(v)
  BY <1>3, FlattenOne DEF Data, y
<1> QED BY <1>7, <1>8, <1>9 DEF BytesOfAll, x, z

(* The bytes of the items from the k-th on are those of the k-th and of the rest. *)
LEMMA BytesFromIs ==
  ASSUME NEW s \in Seq(Item)
  PROVE  /\ \A k \in 1 .. Len(s) + 1 : BytesFrom(s, k) \in Data
         /\ \A k \in 1 .. Len(s) : BytesFrom(s, k) = BytesOf(s[k]) \o BytesFrom(s, k + 1)
         /\ BytesFrom(s, Len(s) + 1) = <<>>
         /\ BytesFrom(s, 1) = BytesOfAll(s)
<1>0. Len(s) \in Nat
  OBVIOUS
<1>1. ASSUME NEW k \in 1 .. Len(s) + 1 PROVE BytesFrom(s, k) \in Data
  <2>1. SubSeq(s, k, Len(s)) \in Seq(Item)
    BY <1>0
  <2> QED BY <2>1, BytesOfAllTyped DEF BytesFrom
<1>2. ASSUME NEW k \in 1 .. Len(s) PROVE BytesFrom(s, k) = BytesOf(s[k]) \o BytesFrom(s, k + 1)
  <2> DEFINE t == SubSeq(s, k, Len(s))
             r == SubSeq(s, k + 1, Len(s))
  <2>1. t \in Seq(Item) /\ Len(t) = Len(s) - k + 1 /\ \A i \in 1 .. Len(s) - k + 1 : t[i] = s[k + i - 1]
    BY <1>0
  <2>2. r \in Seq(Item) /\ Len(r) = Len(s) - k /\ \A i \in 1 .. Len(s) - k : r[i] = s[k + i]
    BY <1>0
  <2>3. s[k] \in Item
    OBVIOUS
  <2> HIDE DEF t, r
  <2>4. Len(t) = Len(r) + 1 /\ t[1] = s[k]
    BY <1>0, <2>1, <2>2
  <2>5. \A i \in 1 .. Len(r) : t[i + 1] = r[i]
    <3> SUFFICES ASSUME NEW i \in 1 .. Len(r) PROVE t[i + 1] = r[i]
      OBVIOUS
    <3>1. i \in 1 .. Len(s) - k /\ i + 1 \in 1 .. Len(s) - k + 1 /\ k + (i + 1) - 1 = k + i
      BY <1>0, <2>2
    <3> QED BY <2>1, <2>2, <3>1
  <2>6. BytesOfAll(t) = BytesOf(s[k]) \o BytesOfAll(r)
    BY <2>1, <2>2, <2>3, <2>4, <2>5, BytesOfAllFirst
  <2> QED BY <2>6 DEF BytesFrom, t, r
<1>3. BytesFrom(s, Len(s) + 1) = <<>>
  <2>1. SubSeq(s, Len(s) + 1, Len(s)) = <<>>
    BY <1>0
  <2>2. [i \in DOMAIN <<>> |-> BytesOf(<<>>[i])] = <<>>
    OBVIOUS
  <2> QED BY <2>1, <2>2, FlattenEmpty DEF BytesFrom, BytesOfAll
<1>4. SubSeq(s, 1, Len(s)) = s
  OBVIOUS
<1> QED BY <1>1, <1>2, <1>3, <1>4 DEF BytesFrom

-----------------------------------------------------------------------------
(* What sfs_load meets of an object: a call with its attributes, the call of
   the object itself, and its parts. *)

HasAttrs(v) == v.ts \in AttrTypes /\ v.attr # <<>>
AttrCall(v) == Call(ATTRSXP, 0, AttrCount(v), <<>>)

ListTypes == {VECSXP, STRSXP} \cup PairTypes
Parts(v) ==
  IF v.ts = CLOSXP THEN ClosureParts(v) ELSE IF v.ts \in ListTypes THEN v.kids ELSE <<>>

ObjCall(v) ==
  IF v.ts \in DataTypes THEN Call(v.ts, Width(v.ts), Len(v.data) \div Width(v.ts), v.data)
  ELSE IF v.ts = SYMSXP THEN SymCall(v)
  ELSE IF v.ts = CHARSXP THEN CharCall(v)
  ELSE IF v.ts = ENVSXP THEN Call(ENVSXP, 0, EnvLen(v.id), <<>>)
  ELSE Call(v.ts, 0, IF v.ts = CLOSXP THEN 3
                     ELSE IF v.ts \in {VECSXP, STRSXP} THEN Len(v.kids)
                     ELSE IF v.ts \in PairTypes THEN Len(v.kids) \div 2 ELSE 0, <<>>)

(* The bytes of the object without its attributes. *)
ObjBytes(v) == Bytes(ObjCall(v)) \o BytesOfAll(Parts(v))

LEMMA Types ==
  ASSUME NEW t
  PROVE  /\ (t = CHARSXP => t \notin DataTypes \cup ListTypes \cup AttrTypes
                                     \cup {SYMSXP, CLOSXP, ENVSXP, BCODESXP, NILSXP})
         /\ (t \in ListTypes => t \notin DataTypes \cup {SYMSXP, CLOSXP, ENVSXP, CHARSXP, BCODESXP})
         /\ (t = CLOSXP => t \notin DataTypes \cup ListTypes \cup AttrTypes
                                    \cup {SYMSXP, ENVSXP, CHARSXP, BCODESXP})
         /\ (t = SYMSXP => t \notin DataTypes \cup ListTypes \cup AttrTypes
                                    \cup {CLOSXP, ENVSXP, CHARSXP, BCODESXP, NILSXP})
         /\ (t = ENVSXP => t \notin DataTypes \cup ListTypes \cup AttrTypes
                                    \cup {CLOSXP, SYMSXP, CHARSXP, BCODESXP, NILSXP})
         /\ (t \in DataTypes => t \notin ListTypes \cup {SYMSXP, CLOSXP, ENVSXP, CHARSXP, BCODESXP, NILSXP})
         /\ (t \in PairTypes => t \notin AttrTypes \cup {VECSXP, STRSXP})
         /\ (t = BCODESXP => t \notin AttrTypes)
         /\ (t = NILSXP => t \notin DataTypes \cup ListTypes \cup AttrTypes
                                    \cup {CLOSXP, SYMSXP, CHARSXP, BCODESXP, ENVSXP})
         /\ VECSXP # STRSXP
BY DEF DataTypes, PairTypes, ListTypes, AttrTypes, VECSXP, STRSXP, SYMSXP, CLOSXP, ENVSXP, LGLSXP,
       INTSXP, REALSXP, CPLXSXP, RAWSXP, LISTSXP, LANGSXP, CHARSXP, BCODESXP, NILSXP, S4SXP

(* Components are items too; strings occur in string vectors only. *)
LEMMA PartsFormed ==
  ASSUME NEW v \in Item
  PROVE  /\ Parts(v) \in Seq(Item) /\ v.attr \in Seq(Item)
         /\ \A i \in DOMAIN v.attr : v.attr[i].ts # CHARSXP
         /\ \A i \in DOMAIN Parts(v) : Parts(v)[i].ts = CHARSXP <=> v.ts = STRSXP
<1>0. v \in Robject /\ v.ts # BCODESXP
  BY DEF Item
<1>1. WellFormed(v)
  BY <1>0, ObjectAssumption
<1>2. v.attr \in Seq(Item) /\ \A i \in DOMAIN v.attr : v.attr[i].ts # CHARSXP
  <2>1. v.attr \in Seq(Robject) /\ \A i \in DOMAIN v.attr : v.attr[i].ts \notin {CHARSXP, BCODESXP}
    BY <1>1 DEF WellFormed
  <2>2. \A i \in DOMAIN v.attr : v.attr[i] \in Item
    BY <2>1 DEF Item
  <2> QED BY <2>1, <2>2
<1>3. /\ v.kids \in Seq(Robject)
      /\ \A i \in DOMAIN v.kids : v.kids[i].ts = CHARSXP <=> v.ts = STRSXP
      /\ \A i \in DOMAIN v.kids : v.kids[i].ts = BCODESXP => v.ts = CLOSXP /\ i = 2
  BY <1>1 DEF WellFormed
<1>4. CASE v.ts = CLOSXP
  <2> DEFINE b == v.kids[2]
             p == ClosureParts(v)
  <2>1. Len(v.kids) = 3
    BY <1>1, <1>4 DEF WellFormed
  <2>2. 1 \in DOMAIN v.kids /\ 2 \in DOMAIN v.kids /\ 3 \in DOMAIN v.kids
    BY <1>3, <2>1
  <2>3. v.kids[1] \in Item /\ v.kids[3] \in Item /\ b \in Robject
    BY <1>3, <2>2 DEF Item
  <2>4. CLOSXP # STRSXP /\ BCODESXP # STRSXP /\ BCODESXP # CLOSXP
    BY DEF CLOSXP, STRSXP, BCODESXP
  <2>5. v.kids[1].ts # CHARSXP /\ v.kids[3].ts # CHARSXP /\ b.ts # CHARSXP
    BY <1>3, <1>4, <2>2, <2>4
  <2> HIDE DEF b
  <2>6. BodyExpr(b) \in Item /\ BodyExpr(b).ts # CHARSXP
    <3>1. CASE b.ts # BCODESXP
      BY <2>3, <2>5, <3>1 DEF BodyExpr, Item
    <3>2. CASE b.ts = BCODESXP
      <4>1. WellFormed(b)
        BY <2>3, ObjectAssumption
      <4>2. /\ Len(b.kids) = 1 /\ b.kids \in Seq(Robject)
            /\ \A i \in DOMAIN b.kids : b.kids[i].ts = CHARSXP <=> b.ts = STRSXP
            /\ \A i \in DOMAIN b.kids : b.kids[i].ts = BCODESXP => b.ts = CLOSXP /\ i = 2
        BY <3>2, <4>1 DEF WellFormed
      <4>3. 1 \in DOMAIN b.kids
        BY <4>2
      <4>4. b.kids[1] \in Robject /\ b.kids[1].ts # CHARSXP /\ b.kids[1].ts # BCODESXP
        BY <2>4, <3>2, <4>2, <4>3
      <4> QED BY <3>2, <4>4 DEF BodyExpr, Item
    <3> QED BY <3>1, <3>2
  <2>7. Parts(v) = <<v.kids[1], BodyExpr(b), v.kids[3]>>
    BY <1>4 DEF Parts, ClosureParts, b
  <2> DEFINE x == v.kids[1]
             y == BodyExpr(b)
             z == v.kids[3]
  <2>8. /\ x \in Item /\ y \in Item /\ z \in Item /\ Parts(v) = <<x, y, z>>
        /\ x.ts # CHARSXP /\ y.ts # CHARSXP /\ z.ts # CHARSXP
    BY <2>3, <2>5, <2>6, <2>7
  <2> HIDE DEF x, y, z
  <2>9. <<x, y, z>> \in Seq(Item) /\ \A i \in DOMAIN <<x, y, z>> : <<x, y, z>>[i].ts # CHARSXP
    BY <2>8
  <2> QED BY <1>2, <1>4, <2>4, <2>8, <2>9
<1>5. CASE v.ts \in ListTypes
  <2>1. Parts(v) = v.kids /\ v.ts # CLOSXP
    BY <1>5, Types DEF Parts
  <2>2. \A i \in DOMAIN v.kids : v.kids[i] \in Item
    BY <1>3, <2>1 DEF Item
  <2>3. v.kids \in Seq(Item)
    BY <1>3, <2>2
  <2> QED BY <1>2, <1>3, <2>1, <2>3
<1>6. CASE v.ts # CLOSXP /\ v.ts \notin ListTypes
  <2>1. Parts(v) = <<>>
    BY <1>6 DEF Parts
  <2> QED BY <1>2, <2>1
<1> QED BY <1>4, <1>5, <1>6

(* The calls of the parts. *)
PartCalls(v) ==
  IF v.ts = STRSXP THEN [i \in DOMAIN v.kids |-> CharCall(v.kids[i])] ELSE Each(store, Parts(v))

LEMMA NoParts == Each(store, <<>>) = <<>>
<1>1. [i \in DOMAIN <<>> |-> store[<<>>[i]]] = <<>>
  OBVIOUS
<1> QED BY <1>1, FlattenEmpty DEF Each

(* An object is one call and the calls of its parts. *)
LEMMA ObjectCallsAre ==
  ASSUME NEW v \in Item, v.ts # CHARSXP
  PROVE  ObjectCalls(store, v) = <<ObjCall(v)>> \o PartCalls(v)
<1>0. \A c : <<c>> \o <<>> = <<c>>
  OBVIOUS
<1>1. CASE v.ts \in DataTypes
  <2>1. v.ts \notin PairTypes /\ v.ts # VECSXP /\ v.ts # STRSXP /\ v.ts # SYMSXP /\ v.ts # CLOSXP /\ v.ts # ENVSXP
    BY <1>1, Exclusive
  <2>2. ObjectCalls(store, v) = <<Call(v.ts, Width(v.ts), Len(v.data) \div Width(v.ts), v.data)>>
    BY <1>1, <2>1, Zenon DEF ObjectCalls
  <2>3. ObjCall(v) = Call(v.ts, Width(v.ts), Len(v.data) \div Width(v.ts), v.data)
    BY <1>1, Zenon DEF ObjCall
  <2>4. PartCalls(v) = <<>>
    BY <2>1, NoParts DEF PartCalls, Parts, ListTypes
  <2> QED BY <1>0, <2>2, <2>3, <2>4, Zenon
<1>2. CASE v.ts = VECSXP
  <2>1. v.ts \notin DataTypes /\ v.ts \notin PairTypes /\ v.ts # STRSXP /\ v.ts # SYMSXP /\ v.ts # CLOSXP /\ v.ts # ENVSXP
    BY <1>2, Exclusive
  <2>2. ObjectCalls(store, v) = <<Call(VECSXP, 0, Len(v.kids), <<>>)>> \o Each(store, v.kids)
    BY <1>2, <2>1, Zenon DEF ObjectCalls
  <2>3. ObjCall(v) = Call(VECSXP, 0, Len(v.kids), <<>>)
    BY <1>2, <2>1 DEF ObjCall
  <2>4. PartCalls(v) = Each(store, v.kids)
    BY <1>2, <2>1 DEF PartCalls, Parts, ListTypes
  <2> QED BY <2>2, <2>3, <2>4
<1>3. CASE v.ts = STRSXP
  <2>1. v.ts \notin DataTypes /\ v.ts \notin PairTypes /\ v.ts # VECSXP /\ v.ts # SYMSXP /\ v.ts # CLOSXP /\ v.ts # ENVSXP
    BY <1>3, Exclusive
  <2>2. ObjectCalls(store, v)
          = <<Call(STRSXP, 0, Len(v.kids), <<>>)>> \o [i \in DOMAIN v.kids |-> CharCall(v.kids[i])]
    BY <1>3, <2>1, Zenon DEF ObjectCalls
  <2>3. ObjCall(v) = Call(STRSXP, 0, Len(v.kids), <<>>)
    BY <1>3, <2>1 DEF ObjCall
  <2>4. PartCalls(v) = [i \in DOMAIN v.kids |-> CharCall(v.kids[i])]
    BY <1>3 DEF PartCalls
  <2> QED BY <2>2, <2>3, <2>4
<1>4. CASE v.ts = SYMSXP
  <2>1. v.ts \notin DataTypes /\ v.ts \notin PairTypes /\ v.ts # VECSXP /\ v.ts # STRSXP /\ v.ts # CLOSXP /\ v.ts # ENVSXP
    BY <1>4, Exclusive
  <2>2. ObjectCalls(store, v) = <<SymCall(v)>>
    BY <1>4, <2>1, Zenon DEF ObjectCalls
  <2>3. ObjCall(v) = SymCall(v)
    BY <1>4, <2>1 DEF ObjCall
  <2>4. PartCalls(v) = <<>>
    BY <2>1, NoParts DEF PartCalls, Parts, ListTypes
  <2> QED BY <1>0, <2>2, <2>3, <2>4, Zenon
<1>5. CASE v.ts = CLOSXP
  <2>1. v.ts \notin DataTypes /\ v.ts \notin PairTypes /\ v.ts # VECSXP /\ v.ts # STRSXP /\ v.ts # SYMSXP /\ v.ts # ENVSXP
    BY <1>5, Exclusive
  <2>2. ObjectCalls(store, v) = <<Call(CLOSXP, 0, 3, <<>>)>> \o Each(store, ClosureParts(v))
    BY <1>5, <2>1, Zenon DEF ObjectCalls, ClosureParts
  <2>3. ObjCall(v) = Call(CLOSXP, 0, 3, <<>>)
    BY <1>5, <2>1 DEF ObjCall
  <2>4. PartCalls(v) = Each(store, ClosureParts(v))
    BY <1>5, <2>1 DEF PartCalls, Parts
  <2> QED BY <2>2, <2>3, <2>4
<1>6. CASE v.ts \in PairTypes
  <2>1. v.ts \notin DataTypes /\ v.ts # VECSXP /\ v.ts # STRSXP /\ v.ts # SYMSXP /\ v.ts # CLOSXP /\ v.ts # ENVSXP
    BY <1>6, Exclusive
  <2>2. ObjectCalls(store, v) = <<Call(v.ts, 0, Len(v.kids) \div 2, <<>>)>> \o Each(store, v.kids)
    BY <1>6, <2>1, Zenon DEF ObjectCalls
  <2>3. ObjCall(v) = Call(v.ts, 0, Len(v.kids) \div 2, <<>>)
    BY <1>6, <2>1 DEF ObjCall
  <2>4. PartCalls(v) = Each(store, v.kids)
    BY <1>6, <2>1 DEF PartCalls, Parts, ListTypes
  <2> QED BY <2>2, <2>3, <2>4, Zenon
<1>7. CASE v.ts = ENVSXP
  <2>1. v.ts \notin DataTypes /\ v.ts \notin PairTypes /\ v.ts # VECSXP /\ v.ts # STRSXP /\ v.ts # SYMSXP /\ v.ts # CLOSXP
    BY <1>7, Exclusive
  <2>2. ObjectCalls(store, v) = <<Call(ENVSXP, 0, EnvLen(v.id), <<>>)>>
    BY <1>7, <2>1, Zenon DEF ObjectCalls
  <2>3. ObjCall(v) = Call(ENVSXP, 0, EnvLen(v.id), <<>>)
    BY <1>7, <2>1 DEF ObjCall
  <2>4. PartCalls(v) = <<>>
    BY <2>1, NoParts DEF PartCalls, Parts, ListTypes
  <2> QED BY <1>0, <2>2, <2>3, <2>4, Zenon
<1>8. CASE v.ts \notin DataTypes \cup PairTypes \cup {VECSXP, STRSXP, SYMSXP, CLOSXP, ENVSXP}
  <2>2. ObjectCalls(store, v) = <<Call(v.ts, 0, 0, <<>>)>>
    BY <1>8, Zenon DEF ObjectCalls
  <2>3. ObjCall(v) = Call(v.ts, 0, 0, <<>>)
    BY <1>8 DEF ObjCall
  <2>4. PartCalls(v) = <<>>
    BY <1>8, NoParts DEF PartCalls, Parts, ListTypes
  <2> QED BY <1>0, <2>2, <2>3, <2>4, Zenon
<1> QED BY <1>1, <1>2, <1>3, <1>4, <1>5, <1>6, <1>7, <1>8

(* The bytes of what is made of several objects that are not strings. *)
LEMMA EachBytes ==
  ASSUME NEW s \in Seq(Item), \A i \in DOMAIN s : s[i].ts # CHARSXP
  PROVE  Each(store, s) \in Calls /\ Stream(Each(store, s)) = BytesOfAll(s)
<1> DEFINE e == [i \in DOMAIN s |-> store[s[i]]]
<1>1. DOMAIN s = 1 .. Len(s) /\ Len(s) \in Nat
  OBVIOUS
<1>2. \A i \in DOMAIN s : store[s[i]] \in Calls /\ store[s[i]] = CallsFor(s[i])
  BY StoreIs DEF Item, CallsFor
<1>3. e \in Seq(Calls) /\ DOMAIN e = DOMAIN s /\ \A i \in DOMAIN s : e[i] = CallsFor(s[i])
  BY <1>1, <1>2
<1> HIDE DEF e
<1>4. FlattenSeq(e) \in Calls
  BY <1>3, FlattenType DEF Calls
<1>5. Stream(FlattenSeq(e)) = FlattenSeq([i \in DOMAIN e |-> Stream(e[i])])
  BY <1>3, StreamFlatten
<1>6. [i \in DOMAIN e |-> Stream(e[i])] = [i \in DOMAIN s |-> BytesOf(s[i])]
  BY <1>3 DEF BytesOf
<1> QED BY <1>4, <1>5, <1>6 DEF Each, BytesOfAll, e

(* What the parts add to the stream. *)
LEMMA PartBytes ==
  ASSUME NEW v \in Item
  PROVE  PartCalls(v) \in Calls /\ Stream(PartCalls(v)) = BytesOfAll(Parts(v))
<1>1. CASE v.ts = STRSXP
  <2> DEFINE e == [i \in DOMAIN v.kids |-> CharCall(v.kids[i])]
  <2>1. Parts(v) = v.kids /\ v.ts # CLOSXP
    BY <1>1, Types DEF Parts, ListTypes
  <2>2. v.kids \in Seq(Item) /\ \A i \in DOMAIN v.kids : v.kids[i].ts = CHARSXP
    BY <1>1, <2>1, PartsFormed
  <2>3. \A i \in DOMAIN v.kids : CallsFor(v.kids[i]) = <<CharCall(v.kids[i])>>
    BY <2>2 DEF CallsFor
  <2>4. ASSUME NEW i \in DOMAIN v.kids
        PROVE  CharCall(v.kids[i]) \in ACall /\ BytesOf(v.kids[i]) = Bytes(CharCall(v.kids[i]))
    <3>1. v.kids[i] \in Item
      BY <2>2
    <3>2. <<CharCall(v.kids[i])>> \in Calls
      BY <2>3, <3>1, CallsForTyped
    <3> DEFINE c == CharCall(v.kids[i])
    <3> HIDE DEF c
    <3>3. c \in ACall
      <4>1. <<c>> \in Seq(ACall) /\ 1 \in 1 .. Len(<<c>>) /\ <<c>>[1] = c
        BY <3>2 DEF Calls, c
      <4> QED BY <4>1, ElementOfSeq
    <3>4. Stream(<<c>>) = Bytes(c)
      BY <3>3, StreamOne
    <3> QED BY <2>3, <3>3, <3>4 DEF BytesOf, c
  <2>5. DOMAIN v.kids = 1 .. Len(v.kids) /\ Len(v.kids) \in Nat
    BY <2>2
  <2>6. e \in Calls /\ DOMAIN e = DOMAIN v.kids
    BY <2>4, <2>5 DEF Calls
  <2>7. [i \in DOMAIN e |-> Bytes(e[i])] = [i \in DOMAIN v.kids |-> BytesOf(v.kids[i])]
    BY <2>4, <2>6
  <2>8. PartCalls(v) = e
    BY <1>1 DEF PartCalls
  <2> QED BY <2>1, <2>6, <2>7, <2>8 DEF Stream, BytesOfAll
<1>2. CASE v.ts # STRSXP
  <2>1. PartCalls(v) = Each(store, Parts(v))
    BY <1>2 DEF PartCalls
  <2>2. Parts(v) \in Seq(Item) /\ \A i \in DOMAIN Parts(v) : Parts(v)[i].ts # CHARSXP
    BY <1>2, PartsFormed
  <2> QED BY <2>1, <2>2, EachBytes
<1> QED BY <1>1, <1>2

(* The calls of an object are that of its attributes, those of each of them,
   that of the object itself and those of its parts. *)
LEMMA ItemCalls ==
  ASSUME NEW v \in Item
  PROVE  /\ ObjCall(v) \in ACall
         /\ (HasAttrs(v) => AttrCall(v) \in ACall)
         /\ Each(store, v.attr) \in Calls
         /\ CallsFor(v) = (IF HasAttrs(v) THEN <<AttrCall(v)>> \o Each(store, v.attr) ELSE <<>>)
                            \o (<<ObjCall(v)>> \o PartCalls(v))
<1>0. v \in Robject
  BY DEF Item
<1>1. Each(store, v.attr) \in Calls
  BY EachBytes, PartsFormed
<1>2. CASE v.ts = CHARSXP
  <2>1. v.ts \notin AttrTypes /\ v.ts # STRSXP /\ v.ts \notin DataTypes /\ v.ts # SYMSXP /\ v.ts # CLOSXP /\ v.ts \notin ListTypes
    BY <1>2, Types DEF ListTypes
  <2>2. ObjCall(v) = CharCall(v)
    BY <1>2, <2>1 DEF ObjCall
  <2>3. PartCalls(v) = <<>> /\ ~HasAttrs(v)
    BY <2>1, NoParts DEF PartCalls, Parts, HasAttrs
  <2>4. CallsFor(v) = <<CharCall(v)>> /\ <<CharCall(v)>> \in Calls
    BY <1>2, CallsForTyped DEF CallsFor
  <2> DEFINE c == CharCall(v)
  <2> HIDE DEF c
  <2>5. c \in ACall
    <3>1. <<c>> \in Seq(ACall) /\ 1 \in 1 .. Len(<<c>>) /\ <<c>>[1] = c
      BY <2>4 DEF Calls, c
    <3> QED BY <3>1, ElementOfSeq
  <2>6. <<>> \o (<<c>> \o <<>>) = <<c>>
    OBVIOUS
  <2> QED BY <1>1, <2>2, <2>3, <2>4, <2>5, <2>6 DEF c
<1>3. CASE v.ts # CHARSXP
  <2>1. CallsFor(v) = AttrCalls(store, v) \o ObjectCalls(store, v)
    BY <1>0, <1>3, StoreIs DEF CallsFor
  <2>2. AttrCalls(store, v) \in Calls /\ ObjectCalls(store, v) \in Calls
    BY <1>0, StoreIs, StoreOfTyped DEF Below
  <2>3. ObjectCalls(store, v) = <<ObjCall(v)>> \o PartCalls(v) /\ PartCalls(v) \in Calls
    BY <1>3, ObjectCallsAre, PartBytes
  <2>4. AttrCalls(store, v) = IF HasAttrs(v) THEN <<AttrCall(v)>> \o Each(store, v.attr) ELSE <<>>
    BY DEF AttrCalls, HasAttrs, AttrCall
  <2>5. ASSUME NEW c, NEW p \in Calls, <<c>> \o p \in Calls PROVE c \in ACall
    <3>1. (<<c>> \o p)[1] = c /\ 1 \in 1 .. Len(<<c>> \o p)
      BY DEF Calls
    <3> QED BY <2>5, <3>1, ElementOfSeq DEF Calls
  <2>6. ObjCall(v) \in ACall
    BY <2>2, <2>3, <2>5
  <2>7. HasAttrs(v) => AttrCall(v) \in ACall
    BY <1>1, <2>2, <2>4, <2>5
  <2> QED BY <1>1, <2>1, <2>3, <2>4, <2>6, <2>7
<1> QED BY <1>2, <1>3

(* The bytes of an object, and of the object without its attributes, in the
   order in which they are read. *)
LEMMA ItemBytes ==
  ASSUME NEW v \in Item
  PROVE  /\ BytesOf(v) \in Data /\ ObjBytes(v) \in Data
         /\ Header(ObjCall(v)) \in Data /\ ObjCall(v).buf \in Data
         /\ BytesOfAll(Parts(v)) \in Data /\ BytesOfAll(v.attr) \in Data
         /\ ObjBytes(v) = Header(ObjCall(v)) \o (ObjCall(v).buf \o BytesOfAll(Parts(v)))
         /\ (~HasAttrs(v) => BytesOf(v) = ObjBytes(v))
         /\ (HasAttrs(v) => /\ Header(AttrCall(v)) \in Data
                            /\ BytesOf(v) = Header(AttrCall(v)) \o (BytesOfAll(v.attr) \o ObjBytes(v)))
<1> DEFINE h == Header(ObjCall(v))
           d == ObjCall(v).buf
           p == BytesOfAll(Parts(v))
           a == BytesOfAll(v.attr)
           o == ObjBytes(v)
           t == Header(AttrCall(v))
           ca == Each(store, v.attr)
           co == <<ObjCall(v)>>
           cp == PartCalls(v)
<1>1. h \in Data /\ d \in Data /\ ObjCall(v) \in ACall
  BY ItemCalls, HeaderIs
<1>2. p \in Data /\ a \in Data
  BY PartsFormed, BytesOfAllTyped
<1>3. cp \in Calls /\ Stream(cp) = p
  BY PartBytes
<1>4. ca \in Calls /\ Stream(ca) = a
  BY PartsFormed, EachBytes
<1>5. o = (h \o d) \o p
  BY DEF ObjBytes, Bytes
<1>6. co \in Calls /\ Stream(co) = h \o d
  <2>1. Stream(co) = Bytes(ObjCall(v))
    BY <1>1, StreamOne
  <2>2. Bytes(ObjCall(v)) = h \o d
    BY DEF Bytes
  <2>3. co \in Calls
    <3> DEFINE c == ObjCall(v)
    <3> HIDE DEF c
    <3>1. c \in ACall
      BY <1>1 DEF c
    <3>2. <<c>> \in Calls
      BY <3>1 DEF Calls
    <3> QED BY <3>2 DEF c
  <2> QED BY <2>1, <2>2, <2>3
<1>7. CallsFor(v) = (IF HasAttrs(v) THEN <<AttrCall(v)>> \o ca ELSE <<>>) \o (co \o cp)
  BY ItemCalls
<1> HIDE DEF h, d, p, a, o, ca, co, cp
<1>8. o = h \o (d \o p) /\ o \in Data
  <2>1. h \in Data /\ d \in Data /\ p \in Data
    BY <1>1, <1>2
  <2>2. (h \o d) \o p = h \o (d \o p) /\ h \o d \in Data
    <3>1. (h \o d) \o p = h \o (d \o p)
      BY ONLY <2>1, DataAssoc, ZenonT(40)
    <3>2. h \o d \in Data
      BY ONLY <2>1, DataJoin
    <3> QED BY <3>1, <3>2
  <2>3. (h \o d) \o p \in Data
    BY ONLY <2>1, <2>2, DataJoin
  <2> QED BY <1>5, <2>2, <2>3
<1>9. co \o cp \in Calls /\ Stream(co \o cp) = o
  BY <1>3, <1>5, <1>6, StreamConcat
<1> DEFINE cc == co \o cp
<1> HIDE DEF cc
<1>10. CASE ~HasAttrs(v)
  <2>1. <<>> \o cc = cc
    BY <1>9 DEF Calls, cc
  <2>2. CallsFor(v) = cc
    BY <1>7, <1>10, <2>1 DEF cc
  <2>3. BytesOf(v) = o
    BY <1>9, <2>2 DEF BytesOf, cc
  <2> QED BY <1>1, <1>2, <1>8, <1>10, <2>3 DEF h, d, p, a, o
<1>11. CASE HasAttrs(v)
  <2> DEFINE ct == <<AttrCall(v)>>
             cx == ct \o ca
  <2>1. AttrCall(v) \in ACall /\ AttrCall(v).buf = <<>>
    BY <1>11, ItemCalls DEF AttrCall, Call
  <2>2. t \in Data
    BY <2>1, HeaderIs
  <2>3. Bytes(AttrCall(v)) = t \o <<>>
    BY <2>1 DEF Bytes
  <2>4. ct \in Calls /\ Stream(ct) = Bytes(AttrCall(v))
    BY <2>1, StreamOne DEF Calls
  <2> HIDE DEF t, ct
  <2>5. Stream(ct) = t
    <3>1. t \o <<>> = t
      BY <2>2 DEF Data
    <3> QED BY <2>3, <2>4, <3>1
  <2>6. cx \in Calls /\ Stream(cx) = t \o a
    BY <1>4, <2>4, <2>5, StreamConcat
  <2>7. CallsFor(v) = cx \o cc
    BY <1>7, <1>11 DEF ct, cx, cc
  <2> HIDE DEF cx
  <2>8. BytesOf(v) = (t \o a) \o o
    BY <1>9, <2>6, <2>7, StreamConcat DEF BytesOf, cc
  <2>9. (t \o a) \o o = t \o (a \o o) /\ t \o a \in Data
    <3>1. t \in Data /\ a \in Data /\ o \in Data
      BY <1>2, <1>8, <2>2
    <3>2. (t \o a) \o o = t \o (a \o o)
      BY ONLY <3>1, DataAssoc, ZenonT(40)
    <3>3. t \o a \in Data
      BY ONLY <3>1, DataJoin
    <3> QED BY <3>2, <3>3
  <2>10. (t \o a) \o o \in Data
    BY <1>8, <2>9, DataJoin
  <2> QED BY <1>1, <1>2, <1>8, <1>11, <2>2, <2>8, <2>9, <2>10 DEF h, d, p, a, o, t
<1> QED BY <1>10, <1>11

(* Strings and names that dec_buf has room for. *)
AllShort(cs) ==
  \A i \in DOMAIN cs : cs[i].ts \in {CHARSXP, SYMSXP} => cs[i].len < DEC_BUF_SIZE

(* Strings that are short stay so in each part of a stream. *)
LEMMA ShortConcat ==
  ASSUME NEW a \in Calls, NEW b \in Calls, AllShort(a \o b)
  PROVE  AllShort(a) /\ AllShort(b)
<1>1. /\ Len(a \o b) = Len(a) + Len(b) /\ Len(a) \in Nat /\ Len(b) \in Nat
      /\ \A i \in 1 .. Len(a) : (a \o b)[i] = a[i]
      /\ \A i \in 1 .. Len(b) : (a \o b)[Len(a) + i] = b[i]
      /\ a \o b \in Calls
  BY ConcatIs DEF Calls
<1> DEFINE c == a \o b
<1>2. /\ DOMAIN c = 1 .. Len(a) + Len(b) /\ DOMAIN a = 1 .. Len(a) /\ DOMAIN b = 1 .. Len(b)
      /\ \A i \in DOMAIN c : c[i].ts \in {CHARSXP, SYMSXP} => c[i].len < DEC_BUF_SIZE
  BY <1>1 DEF Calls, AllShort
<1>3. /\ \A i \in 1 .. Len(a) : c[i] = a[i]
      /\ \A i \in 1 .. Len(b) : c[Len(a) + i] = b[i]
  BY <1>1
<1> HIDE DEF c
<1>4. AllShort(a)
  <2> SUFFICES ASSUME NEW i \in 1 .. Len(a) PROVE a[i].ts \in {CHARSXP, SYMSXP} => a[i].len < DEC_BUF_SIZE
    BY <1>2 DEF AllShort
  <2>1. i \in DOMAIN c /\ c[i] = a[i]
    BY <1>1, <1>2, <1>3
  <2> QED BY <1>2, <2>1
<1>5. AllShort(b)
  <2> SUFFICES ASSUME NEW i \in 1 .. Len(b) PROVE b[i].ts \in {CHARSXP, SYMSXP} => b[i].len < DEC_BUF_SIZE
    BY <1>2 DEF AllShort
  <2>1. Len(a) + i \in DOMAIN c /\ c[Len(a) + i] = b[i]
    BY <1>1, <1>2, <1>3
  <2> QED BY <1>2, <2>1
<1> QED BY <1>4, <1>5

LEMMA ShortFlatten ==
  ASSUME NEW s \in Seq(Calls), AllShort(FlattenSeq(s))
  PROVE  \A i \in DOMAIN s : AllShort(s[i])
<1> DEFINE u(n) == SubSeq(s, 1, n)
           T == {n \in Nat : n <= Len(s) /\ AllShort(FlattenSeq(u(n))) =>
                               \A i \in 1 .. n : AllShort(s[i])}
<1>0. Len(s) \in Nat /\ DOMAIN s = 1 .. Len(s)
  OBVIOUS
<1>1. 0 \in T /\ T \subseteq Nat
  <2> HIDE DEF u
  <2> QED OBVIOUS
<1>2. ASSUME NEW n \in T PROVE n + 1 \in T
  <2>1. n \in Nat /\ (n <= Len(s) /\ AllShort(FlattenSeq(u(n))) => \A i \in 1 .. n : AllShort(s[i]))
    <3> HIDE DEF u
    <3> QED OBVIOUS
  <2> SUFFICES ASSUME n + 1 <= Len(s), AllShort(FlattenSeq(u(n + 1)))
               PROVE  \A i \in 1 .. n + 1 : AllShort(s[i])
    <3> HIDE DEF u
    <3> QED BY <2>1
  <2> DEFINE x == s[n + 1]
  <2>2. n <= Len(s) /\ n + 1 \in 1 .. Len(s)
    BY <1>0, <2>1
  <2>3. x \in Calls
    BY <2>2
  <2>4. u(n) \in Seq(Calls) /\ u(n + 1) = Append(u(n), x)
    BY <2>1, <2>2
  <2> HIDE DEF u, x
  <2>5. FlattenSeq(Append(u(n), x)) = FlattenSeq(u(n)) \o x /\ FlattenSeq(u(n)) \in Calls
    BY <2>3, <2>4, FlattenAppend, FlattenType DEF Calls
  <2>6. AllShort(FlattenSeq(u(n))) /\ AllShort(x)
    BY <2>3, <2>4, <2>5, ShortConcat
  <2> HIDE DEF T
  <2> QED BY <2>1, <2>2, <2>6 DEF x
<1>3. Len(s) \in T
  <2> HIDE DEF T
  <2> QED BY <1>0, <1>1, <1>2, NatSetInduction
<1>4. u(Len(s)) = s
  OBVIOUS
<1> HIDE DEF u
<1> QED BY <1>0, <1>3, <1>4

(* The strings and names of the components are those of the object. *)
Brief(v) == AllShort(CallsFor(v))

(* The parts and attributes of an object without long strings have none. *)
LEMMA BriefParts ==
  ASSUME NEW v \in Item, Brief(v)
  PROVE  /\ AllShort(<<ObjCall(v)>>)
         /\ \A i \in DOMAIN Parts(v) : Brief(Parts(v)[i])
         /\ (HasAttrs(v) => \A i \in DOMAIN v.attr : Brief(v.attr[i]))
<1> DEFINE ca == Each(store, v.attr)
           co == <<ObjCall(v)>>
           cp == PartCalls(v)
           ct == <<AttrCall(v)>>
           cx == IF HasAttrs(v) THEN ct \o ca ELSE <<>>
           cy == co \o cp
<1>1. ca \in Calls /\ co \in Calls /\ cp \in Calls
  <2>1. ObjCall(v) \in ACall
    BY ItemCalls
  <2> DEFINE c == ObjCall(v)
  <2> HIDE DEF c
  <2>2. <<c>> \in Calls
    BY <2>1 DEF Calls, c
  <2> QED BY <2>2, ItemCalls, PartBytes DEF c
<1>2. HasAttrs(v) => ct \in Calls
  <2>1. HasAttrs(v) => AttrCall(v) \in ACall
    BY ItemCalls
  <2> DEFINE c == AttrCall(v)
  <2> HIDE DEF c
  <2>2. HasAttrs(v) => <<c>> \in Calls
    BY <2>1 DEF Calls, c
  <2> QED BY <2>2 DEF c
<1>3. CallsFor(v) = cx \o cy
  BY ItemCalls
<1> HIDE DEF ca, co, cp, ct
<1>4. cx \in Calls /\ cy \in Calls
  <2>1. <<>> \in Calls
    BY DEF Calls
  <2> QED BY <1>1, <1>2, <2>1, StreamConcat
<1> HIDE DEF cx, cy
<1>5. AllShort(cx) /\ AllShort(cy)
  BY <1>3, <1>4, ShortConcat DEF Brief
<1>6. AllShort(co) /\ AllShort(cp)
  BY <1>1, <1>5, ShortConcat DEF cy
<1>7. HasAttrs(v) => AllShort(ca)
  BY <1>1, <1>2, <1>5, ShortConcat DEF cx
<1>8. ASSUME NEW s \in Seq(Item), \A i \in DOMAIN s : s[i].ts # CHARSXP, AllShort(Each(store, s))
      PROVE  \A i \in DOMAIN s : Brief(s[i])
  <2> DEFINE e == [i \in DOMAIN s |-> store[s[i]]]
  <2>1. DOMAIN s = 1 .. Len(s) /\ Len(s) \in Nat
    OBVIOUS
  <2>2. \A i \in DOMAIN s : store[s[i]] \in Calls /\ store[s[i]] = CallsFor(s[i])
    BY <1>8, StoreIs DEF Item, CallsFor
  <2>3. e \in Seq(Calls) /\ DOMAIN e = DOMAIN s /\ \A i \in DOMAIN s : e[i] = CallsFor(s[i])
    BY <2>1, <2>2
  <2>4. AllShort(FlattenSeq(e))
    BY <1>8 DEF Each
  <2> HIDE DEF e
  <2>5. \A i \in DOMAIN e : AllShort(e[i])
    BY <2>3, <2>4, ShortFlatten
  <2> QED BY <2>3, <2>5 DEF Brief
<1>9. HasAttrs(v) => \A i \in DOMAIN v.attr : Brief(v.attr[i])
  BY <1>7, <1>8, PartsFormed DEF ca
<1>10. \A i \in DOMAIN Parts(v) : Brief(Parts(v)[i])
  <2>1. CASE v.ts # STRSXP
    <3>1. cp = Each(store, Parts(v))
      BY <2>1 DEF cp, PartCalls
    <3>2. Parts(v) \in Seq(Item) /\ \A i \in DOMAIN Parts(v) : Parts(v)[i].ts # CHARSXP
      BY <2>1, PartsFormed
    <3> QED BY <1>6, <1>8, <3>1, <3>2
  <2>2. CASE v.ts = STRSXP
    <3>1. Parts(v) = v.kids
      BY <2>2, Types DEF Parts, ListTypes
    <3>2. cp = [i \in DOMAIN v.kids |-> CharCall(v.kids[i])]
      BY <2>2 DEF cp, PartCalls
    <3>3. \A i \in DOMAIN v.kids : v.kids[i].ts = CHARSXP
      BY <2>2, <3>1, PartsFormed
    <3> SUFFICES ASSUME NEW i \in DOMAIN v.kids PROVE Brief(v.kids[i])
      BY <3>1
    <3> DEFINE c == CharCall(v.kids[i])
    <3>4. CallsFor(v.kids[i]) = <<c>>
      BY <3>3 DEF CallsFor
    <3>5. DOMAIN cp = DOMAIN v.kids /\ cp[i] = c
      BY <3>2
    <3> HIDE DEF c
    <3>6. c.ts \in {CHARSXP, SYMSXP} => c.len < DEC_BUF_SIZE
      BY <1>6, <3>5 DEF AllShort
    <3>7. DOMAIN <<c>> = {1} /\ <<c>>[1] = c
      OBVIOUS
    <3> QED BY <3>4, <3>6, <3>7 DEF Brief, AllShort
  <2> QED BY <2>1, <2>2
<1> QED BY <1>6, <1>9, <1>10 DEF co

LEMMA MaxLength ==
  MAX_LENGTH \in Nat /\ MAX_LENGTH > 3 /\ \A n \in Nat : n <= MAX_LENGTH => n <= 16777215
BY SMT DEF MAX_LENGTH

(* The length that LengthBytes writes is read again. *)
LEMMA LengthRead ==
  ASSUME NEW n \in 0 .. MAX_LENGTH
  PROVE  LengthOf(LengthBytes(n)) = n
<1> DEFINE a == n % 256
           b == (n \div 256) % 256
           c == (n \div 65536) % 256
           l == <<a, b, c, 0, 0, 0, 0>>
<1>1. a + 256 * b + 65536 * c = n
  <2> DEFINE q == n \div 256
             p == q \div 256
             r == n \div 65536
             s == n % 65536
  <2>1. n \in Nat /\ n <= 16777215
    <3>1. n \in Nat /\ n <= MAX_LENGTH
      BY MaxLength, SMT
    <3> QED BY ONLY <3>1, MaxLength, SMT
  <2>2. n = 256 * q + a /\ q \in Nat /\ a \in 0 .. 255
    BY ONLY <2>1, SMT
  <2>3. n = 65536 * r + s /\ r \in Nat /\ s \in Nat /\ s < 65536
    BY ONLY <2>1, SMT
  <2> HIDE DEF a
  <2>4. q = 256 * p + b /\ p \in Nat /\ b \in 0 .. 255
    <3> HIDE DEF q
    <3> QED BY <2>2, SMT DEF q
  <2>5. c = r % 256
    OBVIOUS
  <2> HIDE DEF q, p, r, s, b, c
  <2>6. r = p /\ r <= 255
    BY ONLY <2>1, <2>2, <2>3, <2>4, SMT
  <2>7. c = r
    BY ONLY <2>3, <2>5, <2>6, SMT
  <2> QED BY ONLY <2>2, <2>4, <2>6, <2>7, SMT
<1>2. LengthBytes(n) = l
  BY DEF LengthBytes
<1> HIDE DEF a, b, c
<1>3. l[1] = a /\ l[2] = b /\ l[3] = c /\ l[4] = 0 /\ l[5] = 0 /\ l[6] = 0 /\ l[7] = 0
  OBVIOUS
<1> HIDE DEF l
<1>4. ~ \E i \in 4 .. HeaderSize - 1 : l[i] # 0
  <2> SUFFICES ASSUME NEW i \in 4 .. HeaderSize - 1 PROVE l[i] = 0
    OBVIOUS
  <2>1. i = 4 \/ i = 5 \/ i = 6 \/ i = 7
    BY DEF HeaderSize
  <2> QED BY <1>3, <2>1
<1>5. LengthOf(l) = l[1] + 256 * l[2] + 65536 * l[3]
  BY <1>4, SMT DEF LengthOf
<1> QED BY <1>1, <1>2, <1>3, <1>5, SMT

(* decode_one gets back the type and the length that the sink has put into a header. *)
LEMMA HeaderRead ==
  ASSUME NEW c \in ACall
  PROVE  /\ Header(c)[1] = c.ts
         /\ Tail(Header(c)) = IF c.ts = ENVSXP THEN c.len ELSE LengthBytes(c.len)
         /\ (c.ts # ENVSXP /\ c.len \in 0 .. MAX_LENGTH => LengthOf(Tail(Header(c))) = c.len)
<1> DEFINE l == IF c.ts = ENVSXP THEN c.len ELSE LengthBytes(c.len)
           t == c.ts
<1>1. t \in Byte
  BY HeaderIs, TypesAreBytes
<1>2. l \in Data
  <2>1. CASE c.ts = ENVSXP
    BY <2>1 DEF ACall
  <2>2. CASE c.ts # ENVSXP
    BY <2>2, LengthBytesTyped DEF ACall
  <2> QED BY <2>1, <2>2
<1>3. Header(c) = <<t>> \o l
  BY DEF Header
<1> HIDE DEF l, t
<1>4. (<<t>> \o l)[1] = t /\ Tail(<<t>> \o l) = l
  BY <1>1, <1>2 DEF Data
<1>5. Header(c)[1] = c.ts /\ Tail(Header(c)) = l
  BY <1>3, <1>4 DEF t
<1> HIDE DEF Header
<1> QED BY <1>5, LengthRead DEF l

(* What the call of an object says, type by type. *)
Known == {NILSXP, SYMSXP, CLOSXP, ENVSXP, CHARSXP} \cup ListTypes \cup (DataTypes \ {RAWSXP})

(* What the call for an object says of it: the length that the loader finds in the
   header is that of the data or the number of parts. *)
LEMMA ObjCallIs ==
  ASSUME NEW v \in Item
  PROVE  LET c == ObjCall(v) IN
         /\ c.ts = v.ts /\ c.ts # ATTRSXP
         /\ (v.ts # ENVSXP => c.len \in 0 .. MAX_LENGTH)
         /\ (v.ts \in DataTypes => /\ c.buf = v.data /\ Len(v.data) = c.len * Width(v.ts)
                                   /\ (c.len = 0 => v.data = <<>>))
         /\ (v.ts = SYMSXP /\ c.len = 0 => v.data = <<>> /\ c.buf = <<>>)
         /\ (v.ts \in {SYMSXP, CHARSXP} /\ c.len # 0 => c.buf = Terminated(v.data))
         /\ (v.ts = CHARSXP => c.len # 0)
         /\ (v.ts \in {SYMSXP, CHARSXP} => Len(c.buf) = c.len)
         /\ (v.ts = ENVSXP => c.len = EnvLen(v.id))
         /\ (v.ts \in {VECSXP, STRSXP} => c.len = Len(Parts(v)))
         /\ (v.ts \in PairTypes => c.len > 0 /\ 2 * c.len = Len(Parts(v)))
         /\ (v.ts = CLOSXP => Len(Parts(v)) = 3)
         /\ (v.ts \notin DataTypes \cup {SYMSXP, CHARSXP} => c.buf = <<>> /\ v.data = <<>>)
         /\ (v.ts \notin ListTypes \cup {CLOSXP} => Parts(v) = <<>>)
<1> DEFINE c == ObjCall(v)
           n == Len(v.data)
           m == Len(v.kids)
<1>0. v \in Robject
  BY DEF Item
<1>1. WellFormed(v)
  BY <1>0, ObjectAssumption
<1>2. /\ v.ts # ATTRSXP /\ v.data \in Data /\ v.kids \in Seq(Robject)
      /\ n \in 0 .. MAX_LENGTH - 1 /\ m \in 0 .. MAX_LENGTH - 1
  <2>1. /\ v.ts \in SxpTypes \ {ATTRSXP} /\ v.data \in Seq(0 .. 255) /\ v.kids \in Seq(Robject)
        /\ Len(v.data) < MAX_LENGTH /\ Len(v.kids) < MAX_LENGTH
    BY <1>1 DEF WellFormed
  <2>2. n \in Nat /\ m \in Nat /\ MAX_LENGTH \in Nat
    BY <2>1, MaxLength
  <2> QED BY <2>1, <2>2 DEF Data, Byte
<1>3. v.ts \notin DataTypes \cup {SYMSXP, CHARSXP} => v.data = <<>>
  BY <1>1 DEF WellFormed
<1>4. v.ts \notin ListTypes \cup {CLOSXP} => Parts(v) = <<>>
  BY DEF Parts
<1>c. c = [ts |-> c.ts, el |-> c.el, len |-> c.len, buf |-> c.buf]
  BY ItemCalls DEF ACall
<1>5. CASE v.ts \in DataTypes
  <2>1. v.ts \notin ListTypes \cup {SYMSXP, CLOSXP, ENVSXP, CHARSXP, BCODESXP, NILSXP, VECSXP, STRSXP} \cup PairTypes
    BY <1>5, Types DEF ListTypes
  <2> DEFINE w == Width(v.ts)
             q == n \div w
  <2>2. w \in {4, 8, 16, 1}
    BY <1>5, HeaderCall DEF Width, DataTypes, LGLSXP, INTSXP, REALSXP, CPLXSXP, RAWSXP
  <2>3. n % w = 0
    BY <1>1, <1>5 DEF WellFormed
  <2>4. c = Call(v.ts, w, q, v.data)
    BY <1>5, Zenon DEF ObjCall
  <2>5. c.ts = v.ts /\ c.len = q /\ c.buf = v.data
    BY <2>4 DEF Call
  <2> HIDE DEF w, n
  <2>6. n \in Nat /\ q \in 0 .. MAX_LENGTH /\ n = q * w
    BY <1>2, MaxLength, <2>2, <2>3
  <2> HIDE DEF q
  <2>7. q = 0 => n = 0
    BY <2>2, <2>6
  <2>8. n = 0 => v.data = <<>>
    BY <1>2, EmptySeq DEF n, Data
  <2> HIDE DEF c
  <2> QED BY <1>2, <1>3, <1>4, <1>5, <2>1, <2>5, <2>6, <2>7, <2>8 DEF c, n, w
<1>6. CASE v.ts \in {SYMSXP, CHARSXP}
  <2>1. v.ts \notin ListTypes \cup {CLOSXP, ENVSXP, BCODESXP, NILSXP, VECSXP, STRSXP} \cup PairTypes \cup DataTypes
    BY <1>6, Types DEF ListTypes
  <2> DEFINE t == Terminated(v.data)
  <2>2. t \in Data /\ Len(t) = n + 1
    BY <1>2 DEF Terminated, Data, Byte
  <2>3. c = Call(v.ts, 1, n + 1, t) \/ (v.ts = SYMSXP /\ v.data = <<>> /\ c = Call(v.ts, 1, 0, <<>>))
    <3>1. CASE v.ts = SYMSXP
      BY <2>1, <3>1, Zenon DEF ObjCall, SymCall
    <3>2. CASE v.ts = CHARSXP
      <4>1. v.ts # SYMSXP
        BY <3>2, Types
      <4> QED BY <2>1, <3>2, <4>1, Zenon DEF ObjCall, CharCall
    <3> QED BY <1>6, <3>1, <3>2
  <2>4. SYMSXP # CHARSXP
    BY DEF SYMSXP, CHARSXP
  <2>5. c.ts = v.ts
    BY <2>3 DEF Call
  <2>6. CASE c = Call(v.ts, 1, n + 1, t)
    <3>1. c.len = n + 1 /\ c.buf = t
      BY <2>6 DEF Call
    <3>2. c.len \in 0 .. MAX_LENGTH /\ c.len # 0 /\ Len(c.buf) = c.len
      BY <1>2, MaxLength, <2>2, <3>1
    <3> HIDE DEF c
    <3> QED BY <1>2, <1>4, <1>6, <2>1, <2>5, <3>1, <3>2 DEF c
  <2>7. CASE v.ts = SYMSXP /\ v.data = <<>> /\ c = Call(v.ts, 1, 0, <<>>)
    <3>1. c.len = 0 /\ c.buf = <<>>
      BY <2>7 DEF Call
    <3>2. c.len \in 0 .. MAX_LENGTH /\ Len(c.buf) = c.len
      BY <3>1, MaxLength
    <3> HIDE DEF c
    <3> QED BY <1>2, <1>4, <2>7, <2>1, <2>4, <2>5, <3>1, <3>2 DEF c
  <2> QED BY <2>3, <2>6, <2>7
<1>7. CASE v.ts = ENVSXP
  <2>1. v.ts \notin ListTypes \cup {CLOSXP, SYMSXP, CHARSXP, BCODESXP, NILSXP, VECSXP, STRSXP} \cup PairTypes \cup DataTypes
    BY <1>7, Types DEF ListTypes
  <2>2. c = Call(v.ts, 0, EnvLen(v.id), <<>>)
    BY <1>7, <2>1, Zenon DEF ObjCall
  <2>3. c.ts = v.ts /\ c.len = EnvLen(v.id) /\ c.buf = <<>>
    BY <2>2 DEF Call
  <2> HIDE DEF c
  <2> QED BY <1>2, <1>3, <1>4, <1>7, <2>1, <2>3 DEF c
<1>8. CASE v.ts \notin DataTypes \cup {SYMSXP, CHARSXP, ENVSXP}
  <2> DEFINE k == IF v.ts = CLOSXP THEN 3
                  ELSE IF v.ts \in {VECSXP, STRSXP} THEN m
                  ELSE IF v.ts \in PairTypes THEN m \div 2 ELSE 0
  <2>1. c = Call(v.ts, 0, k, <<>>)
    BY <1>8, Zenon DEF ObjCall
  <2>2. c.ts = v.ts /\ c.len = k /\ c.buf = <<>>
    BY <2>1 DEF Call
  <2>3. k \in 0 .. MAX_LENGTH
    <3>1. m \in 0 .. MAX_LENGTH /\ 3 \in 0 .. MAX_LENGTH /\ 0 \in 0 .. MAX_LENGTH
      BY <1>2, MaxLength
    <3> HIDE DEF m
    <3>2. m \div 2 \in 0 .. MAX_LENGTH
      BY MaxLength, <3>1
    <3> QED BY <3>1, <3>2
  <2>4. v.ts = CLOSXP => Len(Parts(v)) = 3
    BY DEF Parts, ClosureParts
  <2>5. v.ts \in ListTypes => Parts(v) = v.kids /\ v.ts # CLOSXP
    BY Types DEF Parts
  <2>6. v.ts \in {VECSXP, STRSXP} => k = Len(Parts(v))
    BY <2>5 DEF ListTypes
  <2>7. v.ts \in PairTypes => k > 0 /\ 2 * k = Len(Parts(v))
    <3> SUFFICES ASSUME v.ts \in PairTypes PROVE k > 0 /\ 2 * k = m
      BY <2>5 DEF ListTypes
    <3>1. v.kids # <<>> /\ m % 2 = 0
      BY <1>1 DEF WellFormed
    <3>2. m # 0
      BY <1>2, <3>1, EmptySeq
    <3>3. k = m \div 2
      BY <2>5, Types DEF ListTypes
    <3> HIDE DEF m, k
    <3> QED BY <1>2, <3>1, <3>2, <3>3, MaxLength
  <2> HIDE DEF c, k
  <2> QED BY <1>2, <1>3, <1>4, <1>8, <2>2, <2>3, <2>4, <2>6, <2>7 DEF c
<1> QED BY <1>5, <1>6, <1>7, <1>8

(* The name of an environment is read again, all but those of the system are
   the base environment. *)
LEMMA EnvRead ==
  ASSUME NEW id \in {"empty", "global", "base", "custom"}
  PROVE  EnvOf(EnvLen(id)) = IF id = "custom" THEN "base" ELSE id
<1> DEFINE l == EnvLen(id)
           e == <<0, 0, 0, 0, 0, 0, 240>>
           g == <<1, 0, 0, 0, 0, 0, 240>>
           b == <<2, 0, 0, 0, 0, 0, 240>>
           z == <<0, 0, 0, 0, 0, 0, 0>>
<1>1. e # g /\ e # b /\ g # b /\ z # e /\ z # g /\ z # b
  OBVIOUS
<1>2. EnvLen("empty") = e /\ EnvLen("global") = g /\ EnvLen("base") = b /\ EnvLen("custom") = z
  BY DEF EnvLen
<1> HIDE DEF e, g, b, z
<1>3. CASE id = "custom"
  BY <1>1, <1>2, <1>3 DEF EnvOf
<1>4. CASE id \in {"empty", "global", "base"}
  <2>1. \A x \in {"empty", "global", "base"} : EnvLen(x) = EnvLen(id) => x = id
    BY <1>1, <1>2, <1>4
  <2> HIDE DEF EnvLen
  <2>2. id # "custom"
    BY <1>4
  <2> QED BY <1>4, <2>1, <2>2 DEF EnvOf
<1> QED BY <1>3, <1>4

(* A name or string without NUL is read again. *)
LEMMA StringRead ==
  ASSUME NEW s \in Data, \A i \in DOMAIN s : s[i] # 0
  PROVE  CString(Terminated(s)) = s
<1> DEFINE t == Terminated(s)
           n == Len(s)
           zeros == {i \in DOMAIN t : t[i] = 0}
<1>1. /\ n \in Nat /\ t \in Data /\ Len(t) = n + 1 /\ t[n + 1] = 0 /\ DOMAIN t = 1 .. n + 1
      /\ \A i \in 1 .. n : t[i] = s[i]
  BY DEF Terminated, Data, Byte
<1>2. zeros = {n + 1}
  <2>0. n + 1 \in DOMAIN t
    BY <1>1
  <2>1. DOMAIN s = 1 .. n
    BY DEF Data
  <2> HIDE DEF t, n
  <2>2. ASSUME NEW i \in DOMAIN t, t[i] = 0 PROVE i = n + 1
    <3>1. i \in 1 .. n => FALSE
      BY <1>1, <2>1, <2>2
    <3> QED BY <1>1, <3>1
  <2> QED BY <1>1, <2>0, <2>2
<1>3. Least({n + 1}) = n + 1
  BY <1>1 DEF Least
<1>4. CString(t) = Take(t, n)
  <2> HIDE DEF t, n
  <2>1. CString(t) = IF zeros = {} THEN t ELSE Take(t, Least(zeros) - 1)
    BY DEF CString
  <2>2. zeros # {} /\ Least(zeros) - 1 = n
    <3>1. zeros # {} /\ Least(zeros) = n + 1
      BY <1>2, <1>3, Zenon
    <3> HIDE DEF zeros
    <3> QED BY <1>1, <3>1
  <2> HIDE DEF zeros
  <2> QED BY <2>1, <2>2
<1>5. Take(t, n) = s
  BY <1>1 DEF Take, Terminated, Data
<1> QED BY <1>4, <1>5

(* What becomes of an object from what becomes of its components: whether it
   can be loaded, and as what. *)
RestorableOf(f, v) ==
  /\ v.ts \in {NILSXP, SYMSXP, CLOSXP, ENVSXP, STRSXP, VECSXP, BCODESXP, CHARSXP}
               \cup PairTypes \cup (DataTypes \ {RAWSXP})
  /\ \A i \in DOMAIN v.kids : f[v.kids[i]]
  /\ \A i \in DOMAIN v.attr : v.ts \in AttrTypes => f[v.attr[i]]

EachOf(f, s) == [i \in DOMAIN s |-> f[s[i]]]

RestoredOf(f, v) ==
  CASE v.ts = BCODESXP -> f[v.kids[1]]
    [] v.ts = CHARSXP -> String(v.data)
    [] v.ts = ENVSXP -> Environment(IF v.id = "custom" THEN "base" ELSE v.id)
    [] v.ts \in AttrTypes -> [v EXCEPT !.kids = EachOf(f, @), !.attr = EachOf(f, @)]
    [] OTHER -> Robj(v.ts, v.data, EachOf(f, v.kids))

(* RestorableOf and RestoredOf look at the objects below v only. *)
LEMMA RestorableOfSame ==
  ASSUME NEW f, NEW g, NEW v \in Robject, \A w \in Below(v) : f[w] = g[w]
  PROVE  RestorableOf(f, v) = RestorableOf(g, v)
<1>1. \A i \in DOMAIN v.kids : f[v.kids[i]] = g[v.kids[i]]
  BY Formed
<1>2. \A i \in DOMAIN v.attr : f[v.attr[i]] = g[v.attr[i]]
  BY Formed
<1>3. (\A i \in DOMAIN v.kids : f[v.kids[i]]) <=> (\A i \in DOMAIN v.kids : g[v.kids[i]])
  BY <1>1, Zenon
<1>4. (\A i \in DOMAIN v.attr : v.ts \in AttrTypes => f[v.attr[i]])
        <=> (\A i \in DOMAIN v.attr : v.ts \in AttrTypes => g[v.attr[i]])
  BY <1>2, Zenon
<1> QED BY <1>3, <1>4, Zenon DEF RestorableOf

LEMMA EachOfSame ==
  ASSUME NEW f, NEW g, NEW s, \A i \in DOMAIN s : f[s[i]] = g[s[i]]
  PROVE  EachOf(f, s) = EachOf(g, s)
BY DEF EachOf

LEMMA ByteCode ==
  ASSUME NEW v \in Robject, v.ts = BCODESXP
  PROVE  DOMAIN v.kids = {1} /\ v.kids[1] \in Below(v)
<1>1. Len(v.kids) = 1
  BY ObjectAssumption DEF WellFormed
<1>2. DOMAIN v.kids = 1 .. 1
  BY <1>1, Formed
<1> QED BY <1>2, Formed

LEMMA RestoredOfSame ==
  ASSUME NEW f, NEW g, NEW v \in Robject, \A w \in Below(v) : f[w] = g[w]
  PROVE  RestoredOf(f, v) = RestoredOf(g, v)
<1>1. EachOf(f, v.kids) = EachOf(g, v.kids)
  BY Formed, EachOfSame
<1>2. EachOf(f, v.attr) = EachOf(g, v.attr)
  BY Formed, EachOfSame
<1>3. v.ts = BCODESXP => f[v.kids[1]] = g[v.kids[1]]
  BY ByteCode
<1> HIDE DEF EachOf
<1>4. [v EXCEPT !.kids = EachOf(f, @), !.attr = EachOf(f, @)]
        = [v EXCEPT !.kids = EachOf(g, @), !.attr = EachOf(g, @)]
  BY <1>1, <1>2
<1> QED BY <1>1, <1>3, <1>4 DEF RestoredOf

(* The two functions satisfy their equations, by induction on the depth of the
   objects. *)
LEMMA RestorableExists == \E f : f = [v \in Robject |-> RestorableOf(f, v)]
<1> DEFINE Upto(f, n) == \A v \in Robject : Depth[v] < n => f[v] = RestorableOf(f, v)
           T == {n \in Nat : \E f : f = [v \in Robject |-> f[v]] /\ Upto(f, n)}
<1>1. T \subseteq Nat
  OBVIOUS
<1>2. 0 \in T
  <2> DEFINE f == [v \in Robject |-> FALSE]
  <2>1. f = [v \in Robject |-> f[v]]
    OBVIOUS
  <2>2. Upto(f, 0)
    BY Formed
  <2> HIDE DEF Upto
  <2> QED BY <2>1, <2>2
<1>3. ASSUME NEW n \in T PROVE n + 1 \in T
  <2>1. n \in Nat
    OBVIOUS
  <2>2. PICK f : f = [v \in Robject |-> f[v]] /\ Upto(f, n)
    OBVIOUS
  <2> DEFINE g == [v \in Robject |-> IF Depth[v] < n THEN f[v] ELSE RestorableOf(f, v)]
  <2>3. ASSUME NEW v \in Robject, Depth[v] < n + 1 PROVE g[v] = RestorableOf(g, v)
    <3>1. ASSUME NEW w \in Below(v) PROVE f[w] = g[w]
      <4>1. w \in Robject /\ Depth[w] < Depth[v] /\ Depth[w] \in Nat /\ Depth[v] \in Nat
        BY Formed, ObjectAssumption DEF Below
      <4>2. Depth[w] < n
        BY <2>1, <2>3, <4>1
      <4> QED BY <4>1, <4>2
    <3>2. RestorableOf(f, v) = RestorableOf(g, v)
      <4> HIDE DEF g
      <4> QED BY <3>1, RestorableOfSame
    <3>3. g[v] = RestorableOf(f, v)
      <4>1. CASE Depth[v] < n
        <5>1. f[v] = RestorableOf(f, v)
          BY <2>2, <4>1, Zenon
        <5>2. g[v] = f[v]
          BY <4>1, Zenon
        <5> QED BY <5>1, <5>2, Zenon
      <4>2. CASE ~(Depth[v] < n)
        BY <4>2, Zenon
      <4> QED BY <4>1, <4>2
    <3> QED BY <3>2, <3>3, Zenon
  <2>4. g = [v \in Robject |-> g[v]]
    BY Zenon
  <2> HIDE DEF g
  <2>5. Upto(g, n + 1)
    BY <2>3, Zenon
  <2> HIDE DEF Upto
  <2> QED BY <2>1, <2>4, <2>5
<1>4. MAX_DEPTH + 1 \in T
  <2>1. MAX_DEPTH + 1 \in Nat
    BY ObjectAssumption
  <2> HIDE DEF T
  <2> QED BY <1>1, <1>2, <1>3, <2>1, NatSetInduction
<1>5. PICK f : f = [v \in Robject |-> f[v]] /\ Upto(f, MAX_DEPTH + 1)
  BY <1>4
<1>6. ASSUME NEW v \in Robject PROVE f[v] = RestorableOf(f, v)
  <2>1. Depth[v] < MAX_DEPTH + 1
    BY Formed, ObjectAssumption
  <2> QED BY <1>5, <2>1, Zenon
<1>7. [v \in Robject |-> f[v]] = [v \in Robject |-> RestorableOf(f, v)]
  BY <1>6, Zenon
<1> HIDE DEF Upto
<1> QED BY <1>5, <1>7

(* The recursive functions satisfy their equations. *)
LEMMA RestoredExists == \E f : f = [v \in Robject |-> RestoredOf(f, v)]
<1> DEFINE Upto(f, n) == \A v \in Robject : Depth[v] < n => f[v] = RestoredOf(f, v)
           T == {n \in Nat : \E f : f = [v \in Robject |-> f[v]] /\ Upto(f, n)}
<1>1. T \subseteq Nat
  OBVIOUS
<1>2. 0 \in T
  <2> DEFINE f == [v \in Robject |-> <<>>]
  <2>1. f = [v \in Robject |-> f[v]]
    OBVIOUS
  <2>2. Upto(f, 0)
    BY Formed
  <2> HIDE DEF Upto
  <2> QED BY <2>1, <2>2
<1>3. ASSUME NEW n \in T PROVE n + 1 \in T
  <2>1. n \in Nat
    OBVIOUS
  <2>2. PICK f : f = [v \in Robject |-> f[v]] /\ Upto(f, n)
    OBVIOUS
  <2> DEFINE g == [v \in Robject |-> IF Depth[v] < n THEN f[v] ELSE RestoredOf(f, v)]
  <2>3. ASSUME NEW v \in Robject, Depth[v] < n + 1 PROVE g[v] = RestoredOf(g, v)
    <3>1. ASSUME NEW w \in Below(v) PROVE f[w] = g[w]
      <4>1. w \in Robject /\ Depth[w] < Depth[v] /\ Depth[w] \in Nat /\ Depth[v] \in Nat
        BY Formed, ObjectAssumption DEF Below
      <4>2. Depth[w] < n
        BY <2>1, <2>3, <4>1
      <4> QED BY <4>1, <4>2
    <3>2. RestoredOf(f, v) = RestoredOf(g, v)
      <4> HIDE DEF g
      <4> QED BY <3>1, RestoredOfSame
    <3>3. g[v] = RestoredOf(f, v)
      BY <2>2
    <3> QED BY <3>2, <3>3
  <2>4. g = [v \in Robject |-> g[v]]
    OBVIOUS
  <2> HIDE DEF g
  <2>5. Upto(g, n + 1)
    BY <2>3
  <2> HIDE DEF Upto
  <2> QED BY <2>1, <2>4, <2>5
<1>4. MAX_DEPTH + 1 \in T
  <2>1. MAX_DEPTH + 1 \in Nat
    BY ObjectAssumption
  <2> HIDE DEF T
  <2> QED BY <1>1, <1>2, <1>3, <2>1, NatSetInduction
<1>5. PICK f : f = [v \in Robject |-> f[v]] /\ Upto(f, MAX_DEPTH + 1)
  BY <1>4
<1>6. ASSUME NEW v \in Robject PROVE f[v] = RestoredOf(f, v)
  <2>1. Depth[v] < MAX_DEPTH + 1
    BY Formed, ObjectAssumption
  <2> QED BY <1>5, <2>1
<1>7. [v \in Robject |-> f[v]] = [v \in Robject |-> RestoredOf(f, v)]
  BY <1>6
<1> HIDE DEF Upto
<1> QED BY <1>5, <1>7

LEMMA RestorableEquation == \A v \in Robject : Restorable[v] <=> RestorableOf(Restorable, v)
<1> DEFINE E(f) == f = [v \in Robject |-> RestorableOf(f, v)]
<1>1. \E f : E(f)
  BY RestorableExists
<1>2. Restorable = CHOOSE f : E(f)
  BY DEF Restorable, RestorableOf
<1>3. E(Restorable)
  <2> HIDE DEF E
  <2> QED BY <1>1, <1>2
<1> QED BY <1>3, Zenon

LEMMA RestoredEquation == \A v \in Robject : Restored[v] = RestoredOf(Restored, v)
<1> DEFINE E(f) == f = [v \in Robject |-> RestoredOf(f, v)]
<1>1. \E f : E(f)
  BY RestoredExists
<1>2. Restored = CHOOSE f : E(f)
  BY DEF Restored, RestoredOf, EachOf
<1>3. E(Restored)
  <2> HIDE DEF E
  <2> QED BY <1>1, <1>2
<1> QED BY <1>3, Zenon

(* The values of the components, and what decode_one makes of them. *)
Values(s) == EachOf(Restored, s)
AttrValues(v) == IF HasAttrs(v) THEN Values(v.attr) ELSE <<>>
Bare(v) ==
  IF v.ts = ENVSXP THEN Environment(IF v.id = "custom" THEN "base" ELSE v.id)
  ELSE Robj(v.ts, v.data, Values(Parts(v)))

(* The types that decode_one handles, as a set. *)
LEMMA KnownTypes ==
  ASSUME NEW t, t # BCODESXP
  PROVE  t \in {NILSXP, SYMSXP, CLOSXP, ENVSXP, STRSXP, VECSXP, BCODESXP, CHARSXP}
                 \cup PairTypes \cup (DataTypes \ {RAWSXP}) <=> t \in Known
BY DEF Known, ListTypes

(* In the place of byte code there is its expression. *)
LEMMA BodyIs ==
  ASSUME NEW b \in Robject
  PROVE  /\ (Restorable[b] <=> Restorable[BodyExpr(b)])
         /\ Restored[b] = Restored[BodyExpr(b)]
<1>1. CASE b.ts # BCODESXP
  BY <1>1 DEF BodyExpr
<1>2. CASE b.ts = BCODESXP
  <2>1. BodyExpr(b) = b.kids[1] /\ DOMAIN b.kids = {1}
    BY <1>2, ByteCode DEF BodyExpr
  <2>2. Restored[b] = RestoredOf(Restored, b)
    BY RestoredEquation
  <2>3. RestoredOf(Restored, b) = Restored[b.kids[1]]
    <3>1. b.ts # CHARSXP /\ b.ts # ENVSXP /\ b.ts \notin AttrTypes
      BY <1>2 DEF BCODESXP, CHARSXP, ENVSXP, AttrTypes, DataTypes, STRSXP, VECSXP, S4SXP, LGLSXP, INTSXP,
                  REALSXP, CPLXSXP, RAWSXP
    <3> QED BY <1>2, <3>1, Zenon DEF RestoredOf
  <2>4. b.ts \notin AttrTypes
    BY <1>2, Types
  <2>5. RestorableOf(Restorable, b) <=> Restorable[b.kids[1]]
    <3>1. (\A i \in DOMAIN b.kids : Restorable[b.kids[i]]) <=> Restorable[b.kids[1]]
      BY <2>1, Zenon
    <3>2. \A i \in DOMAIN b.attr : b.ts \in AttrTypes => Restorable[b.attr[i]]
      BY <2>4, Zenon
    <3>3. b.ts \in {NILSXP, SYMSXP, CLOSXP, ENVSXP, STRSXP, VECSXP, BCODESXP, CHARSXP}
                    \cup PairTypes \cup (DataTypes \ {RAWSXP})
      BY <1>2
    <3> QED BY <3>1, <3>2, <3>3, Zenon DEF RestorableOf
  <2>6. Restorable[b] <=> Restorable[b.kids[1]]
    BY <2>5, RestorableEquation, Zenon
  <2> QED BY <2>1, <2>2, <2>3, <2>6, Zenon
<1> QED BY <1>1, <1>2

(* The components of a closure, one by one. *)
LEMMA ClosureIs ==
  ASSUME NEW v \in Item, v.ts = CLOSXP
  PROVE  /\ Parts(v) = ClosureParts(v)
         /\ DOMAIN v.kids = 1 .. 3 /\ DOMAIN Parts(v) = 1 .. 3
         /\ v.kids[1] \in Robject /\ v.kids[2] \in Robject /\ v.kids[3] \in Robject
         /\ Parts(v)[1] = v.kids[1] /\ Parts(v)[2] = BodyExpr(v.kids[2]) /\ Parts(v)[3] = v.kids[3]
<1>1. Len(v.kids) = 3 /\ v.kids \in Seq(Robject)
  BY ObjectAssumption DEF WellFormed, Item
<1>2. DOMAIN v.kids = 1 .. 3 /\ v.kids[1] \in Robject /\ v.kids[2] \in Robject /\ v.kids[3] \in Robject
  BY <1>1
<1>3. Parts(v) = ClosureParts(v)
  BY DEF Parts
<1> DEFINE x == v.kids[1]
           y == BodyExpr(v.kids[2])
           z == v.kids[3]
<1>4. Parts(v) = <<x, y, z>>
  BY <1>3 DEF ClosureParts
<1> HIDE DEF x, y, z
<1>5. DOMAIN <<x, y, z>> = 1 .. 3 /\ <<x, y, z>>[1] = x /\ <<x, y, z>>[2] = y /\ <<x, y, z>>[3] = z
  OBVIOUS
<1> QED BY <1>2, <1>3, <1>4, <1>5 DEF x, y, z

(* An item is restored exactly if its type is known and its parts and attributes are. *)
LEMMA RestorableIs ==
  ASSUME NEW v \in Item
  PROVE  Restorable[v] <=>
           /\ v.ts \in Known
           /\ \A i \in DOMAIN Parts(v) : Restorable[Parts(v)[i]]
           /\ HasAttrs(v) => \A i \in DOMAIN v.attr : Restorable[v.attr[i]]
<1>0. v \in Robject /\ v.ts # BCODESXP
  BY DEF Item
<1>1. Restorable[v] <=> RestorableOf(Restorable, v)
  BY <1>0, RestorableEquation, Zenon
<1>2. v.ts \in {NILSXP, SYMSXP, CLOSXP, ENVSXP, STRSXP, VECSXP, BCODESXP, CHARSXP}
                 \cup PairTypes \cup (DataTypes \ {RAWSXP}) <=> v.ts \in Known
  BY <1>0, KnownTypes
<1>3. (\A i \in DOMAIN v.attr : v.ts \in AttrTypes => Restorable[v.attr[i]])
        <=> (HasAttrs(v) => \A i \in DOMAIN v.attr : Restorable[v.attr[i]])
  <2>1. CASE HasAttrs(v)
    BY <2>1, Zenon DEF HasAttrs
  <2>2. CASE v.ts \notin AttrTypes
    BY <2>2, Zenon DEF HasAttrs
  <2>3. CASE v.attr = <<>>
    <3>1. DOMAIN v.attr = {}
      BY <2>3
    <3> QED BY <2>3, <3>1, Zenon DEF HasAttrs
  <2> QED BY <2>1, <2>2, <2>3, Zenon DEF HasAttrs
<1>4. (\A i \in DOMAIN v.kids : Restorable[v.kids[i]])
        <=> (\A i \in DOMAIN Parts(v) : Restorable[Parts(v)[i]])
  <2>1. CASE v.ts = CLOSXP
    <3>1. /\ DOMAIN v.kids = 1 .. 3 /\ DOMAIN Parts(v) = 1 .. 3 /\ v.kids[2] \in Robject
          /\ Parts(v)[1] = v.kids[1] /\ Parts(v)[2] = BodyExpr(v.kids[2]) /\ Parts(v)[3] = v.kids[3]
      BY <2>1, ClosureIs
    <3>2. \A i : i \in 1 .. 3 <=> i = 1 \/ i = 2 \/ i = 3
      OBVIOUS
    <3>3. Restorable[v.kids[2]] <=> Restorable[BodyExpr(v.kids[2])]
      BY <3>1, BodyIs
    <3>4. \A i \in 1 .. 3 : Restorable[v.kids[i]] <=> Restorable[Parts(v)[i]]
      BY <3>1, <3>2, <3>3, Zenon
    <3> QED BY <3>1, <3>4, Zenon
  <2>2. CASE v.ts \in ListTypes
    <3>1. Parts(v) = v.kids
      BY <2>2, Types DEF Parts
    <3> QED BY <3>1, Zenon
  <2>3. CASE v.ts # CLOSXP /\ v.ts \notin ListTypes
    <3>1. Parts(v) = <<>>
      BY <2>3 DEF Parts
    <3>2. v.kids = <<>>
      <4>1. WellFormed(v)
        BY <1>0, ObjectAssumption
      <4>2. v.ts \notin {STRSXP, VECSXP, CLOSXP, BCODESXP} \cup PairTypes => v.kids = <<>>
        BY <4>1 DEF WellFormed
      <4> QED BY <1>0, <2>3, <4>2 DEF ListTypes
    <3> QED BY <3>1, <3>2, Zenon
  <2> QED BY <2>1, <2>2, <2>3
<1> QED BY <1>1, <1>2, <1>3, <1>4, Zenon DEF RestorableOf

(* A name is restored as it was, so that a class is found in the attributes that
   are restored if and only if it was there. *)
LEMMA NameRestored ==
  ASSUME NEW v \in Robject, v.ts = SYMSXP
  PROVE  Restored[v] = v
<1>1. WellFormed(v)
  BY ObjectAssumption
<1>2. /\ v = [ts |-> v.ts, data |-> v.data, kids |-> v.kids, attr |-> v.attr, id |-> v.id,
              object |-> v.object]
      /\ v.attr = <<>> /\ v.object = HasClass(v.attr)
      /\ v.kids = <<>> /\ v.id = "plain"
  <2>1. v.ts \notin {STRSXP, VECSXP, CLOSXP, BCODESXP} \cup PairTypes /\ v.ts # ENVSXP /\ v.ts # CHARSXP
    BY Types DEF ListTypes
  <2>2. /\ v = [ts |-> v.ts, data |-> v.data, kids |-> v.kids, attr |-> v.attr, id |-> v.id,
              object |-> v.object]
        /\ v.ts \in {SYMSXP, CHARSXP} => v.attr = <<>>
        /\ v.object = HasClass(v.attr)
        /\ v.ts \notin {STRSXP, VECSXP, CLOSXP, BCODESXP} \cup PairTypes => v.kids = <<>>
        /\ v.id \in IF v.ts = ENVSXP THEN {"empty", "global", "base", "custom"}
                    ELSE IF v.ts = CHARSXP THEN {"plain", "NA"} ELSE {"plain"}
    BY <1>1 DEF WellFormed
  <2> QED BY <2>1, <2>2
<1>3. HasClass(<<>>) = FALSE
  BY DEF HasClass
<1>4. EachOf(Restored, <<>>) = <<>>
  BY DEF EachOf
<1>5. RestoredOf(Restored, v) = Robj(v.ts, v.data, EachOf(Restored, v.kids))
  <2>1. v.ts # BCODESXP /\ v.ts # CHARSXP /\ v.ts # ENVSXP /\ v.ts \notin AttrTypes
    BY Types
  <2> QED BY <2>1, Zenon DEF RestoredOf
<1>6. Restored[v] = Robj(v.ts, v.data, <<>>)
  BY <1>2, <1>4, <1>5, RestoredEquation, Zenon
<1>7. v.object = FALSE
  BY <1>2, <1>3, Zenon
<1> QED BY <1>2, <1>6, <1>7 DEF Robj

(* Whether there is a class attribute survives the restoring of the attributes. *)
LEMMA ClassRestored ==
  ASSUME NEW v \in Robject
  PROVE  HasClass(Values(v.attr)) = HasClass(v.attr)
<1>1. WellFormed(v)
  BY ObjectAssumption
<1>2. /\ v.attr \in Seq(Robject)
      /\ \A i \in DOMAIN v.attr : i % 2 = 1 => v.attr[i].ts = SYMSXP
  BY <1>1 DEF WellFormed
<1>3. DOMAIN Values(v.attr) = DOMAIN v.attr
  BY DEF Values, EachOf
<1>4. \A i \in DOMAIN v.attr : Values(v.attr)[i] = Restored[v.attr[i]]
  BY DEF Values, EachOf
<1>5. \A i \in DOMAIN v.attr : v.attr[i] \in Robject
  BY <1>2
<1>6. \A i \in DOMAIN v.attr : i % 2 = 1 => Values(v.attr)[i] = v.attr[i]
  BY <1>2, <1>4, <1>5, NameRestored
<1> QED BY <1>3, <1>6, Zenon DEF HasClass

(* Two fields of an object are set. *)
LEMMA KidsAttrSet ==
  ASSUME NEW t, NEW d, NEW k, NEW a, NEW i, NEW o, NEW x, NEW y, NEW r, NEW q,
         r = [ts |-> t, data |-> d, kids |-> k, attr |-> a, id |-> i, object |-> o],
         q = [r EXCEPT !.kids = x, !.attr = y]
  PROVE  q = [ts |-> t, data |-> d, kids |-> x, attr |-> y, id |-> i, object |-> o]
<1>1. q = [ts |-> q.ts, data |-> q.data, kids |-> q.kids, attr |-> q.attr, id |-> q.id,
           object |-> q.object]
  OBVIOUS
<1>2. /\ q.ts = t /\ q.data = d /\ q.kids = x
      /\ q.attr = y /\ q.id = i /\ q.object = o
  OBVIOUS
<1> QED BY ONLY <1>1, <1>2

LEMMA AttrObjectSet ==
  ASSUME NEW t, NEW d, NEW k, NEW a, NEW i, NEW o, NEW x, NEW y, NEW r, NEW q,
         r = [ts |-> t, data |-> d, kids |-> k, attr |-> a, id |-> i, object |-> o],
         q = [r EXCEPT !.attr = x, !.object = y]
  PROVE  q = [ts |-> t, data |-> d, kids |-> k, attr |-> x, id |-> i, object |-> y]
<1>1. q = [ts |-> q.ts, data |-> q.data, kids |-> q.kids, attr |-> q.attr, id |-> q.id,
           object |-> q.object]
  OBVIOUS
<1>2. /\ q.ts = t /\ q.data = d /\ q.kids = k
      /\ q.attr = x /\ q.id = i /\ q.object = y
  OBVIOUS
<1> QED BY ONLY <1>1, <1>2

(* What sfs_load returns for an object. *)
LEMMA RestoredIs ==
  ASSUME NEW v \in Item, v.ts \in Known
  PROVE  Attributed(Bare(v), AttrValues(v)) = Restored[v]
<1>0. v \in Robject /\ v.ts # BCODESXP
  BY DEF Item
<1>1. Restored[v] = RestoredOf(Restored, v)
  BY <1>0, RestoredEquation
<1>2. WellFormed(v)
  BY <1>0, ObjectAssumption
<1>3. v.ts \notin {STRSXP, VECSXP, CLOSXP, BCODESXP} \cup PairTypes => v.kids = <<>>
  BY <1>2 DEF WellFormed
<1>4. Values(<<>>) = <<>>
  BY DEF Values, EachOf
<1>5. CASE v.ts = CHARSXP
  <2>1. v.ts \notin AttrTypes /\ v.ts \notin ListTypes /\ v.ts # CLOSXP /\ v.ts # ENVSXP
    BY <1>5, Types
  <2>2. AttrValues(v) = <<>> /\ Parts(v) = <<>>
    BY <2>1 DEF AttrValues, HasAttrs, Parts
  <2>3. RestoredOf(Restored, v) = String(v.data)
    BY <1>0, <1>5, <2>1, Zenon DEF RestoredOf
  <2>4. Bare(v) = Robj(v.ts, v.data, <<>>)
    BY <1>4, <2>1, <2>2 DEF Bare
  <2> QED BY <1>1, <1>5, <2>2, <2>3, <2>4 DEF Attributed, String
<1>6. CASE v.ts = ENVSXP
  <2>1. v.ts \notin AttrTypes /\ v.ts # CHARSXP
    BY <1>6, Types
  <2>2. AttrValues(v) = <<>>
    BY <2>1 DEF AttrValues, HasAttrs
  <2>3. RestoredOf(Restored, v) = Environment(IF v.id = "custom" THEN "base" ELSE v.id)
    BY <1>0, <1>6, <2>1, Zenon DEF RestoredOf
  <2>4. Bare(v) = Environment(IF v.id = "custom" THEN "base" ELSE v.id)
    BY <1>6, Zenon DEF Bare
  <2> QED BY <1>1, <2>2, <2>3, <2>4, Zenon DEF Attributed
<1>7. CASE v.ts \in AttrTypes
  <2>1. v.ts # CHARSXP /\ v.ts # ENVSXP /\ v.ts # CLOSXP /\ v.ts \notin PairTypes
    BY <1>7, Types
  <2>2. Parts(v) = v.kids
    <3>1. CASE v.ts \in ListTypes
      BY <2>1, <3>1 DEF Parts
    <3>2. CASE v.ts \notin ListTypes
      BY <1>0, <1>3, <2>1, <3>2 DEF Parts, ListTypes
    <3> QED BY <3>1, <3>2
  <2>3. RestoredOf(Restored, v) = [v EXCEPT !.kids = EachOf(Restored, @), !.attr = EachOf(Restored, @)]
    BY <1>0, <1>7, <2>1, Zenon DEF RestoredOf
  <2>4. Bare(v) = Robj(v.ts, v.data, Values(v.kids))
    BY <2>1, <2>2 DEF Bare
  <2>5. /\ v = [ts |-> v.ts, data |-> v.data, kids |-> v.kids, attr |-> v.attr, id |-> v.id,
                object |-> v.object]
        /\ v.object = HasClass(v.attr)
    BY <1>2 DEF WellFormed
  <2>6. v.id = "plain"
    <3>1. v.id \in IF v.ts = ENVSXP THEN {"empty", "global", "base", "custom"}
                   ELSE IF v.ts = CHARSXP THEN {"plain", "NA"} ELSE {"plain"}
      BY <1>2 DEF WellFormed
    <3> QED BY <2>1, <3>1
  <2> DEFINE k == Values(v.kids)
             a == Values(v.attr)
             o == HasClass(v.attr)
             r == [ts |-> v.ts, data |-> v.data, kids |-> k, attr |-> a, id |-> "plain", object |-> o]
  <2>7. Restored[v] = [v EXCEPT !.kids = k, !.attr = a]
    BY <1>1, <2>3 DEF Values
  <2> HIDE DEF k, a, o
  <2>8. Restored[v] = r
    <3>1. [v EXCEPT !.kids = k, !.attr = a]
            = [ts |-> v.ts, data |-> v.data, kids |-> k, attr |-> a, id |-> v.id, object |-> v.object]
      <4> DEFINE rr == [ts |-> v.ts, data |-> v.data, kids |-> v.kids, attr |-> v.attr, id |-> v.id,
                       object |-> v.object]
      <4>1. v = rr
        BY <2>5
      <4>2. [rr EXCEPT !.kids = k, !.attr = a]
            = [ts |-> v.ts, data |-> v.data, kids |-> k, attr |-> a, id |-> v.id, object |-> v.object]
        <5> DEFINE t == v.ts
                   d == v.data
                   q == v.kids
                   p == v.attr
                   i == v.id
                   f == v.object
        <5> HIDE DEF t, d, q, p, i, f
        <5>1. rr = [ts |-> t, data |-> d, kids |-> q, attr |-> p, id |-> i, object |-> f]
          BY DEF t, d, q, p, i, f
        <5> HIDE DEF rr
        <5> DEFINE w == [rr EXCEPT !.kids = k, !.attr = a]
        <5>2. w = [rr EXCEPT !.kids = k, !.attr = a]
          OBVIOUS
        <5> HIDE DEF w
        <5>3. w = [ts |-> t, data |-> d, kids |-> k, attr |-> a, id |-> i, object |-> f]
          BY <5>1, <5>2, KidsAttrSet
        <5> QED BY <5>3 DEF t, d, i, f, w
      <4> HIDE DEF rr
      <4> QED BY <4>1, <4>2, Zenon
    <3>2. v.object = o
      BY <2>5, Zenon DEF o
    <3> QED BY <2>6, <2>7, <3>1, <3>2, Zenon
  <2>9. CASE v.attr = <<>>
    <3>1. AttrValues(v) = <<>> /\ a = <<>>
      BY <1>4, <2>9, Zenon DEF AttrValues, HasAttrs, a
    <3>2. o = FALSE
      BY <2>9 DEF o, HasClass
    <3>3. Attributed(Bare(v), AttrValues(v)) = Robj(v.ts, v.data, k)
      BY <2>4, <3>1, Zenon DEF Attributed, k
    <3> QED BY <2>8, <3>1, <3>2, <3>3 DEF Robj
  <2>10. CASE v.attr # <<>>
    <3>1. AttrValues(v) = a
      BY <1>7, <2>10, Zenon DEF AttrValues, HasAttrs, a
    <3>2. a # <<>>
      <4>1. DOMAIN v.attr # {}
        BY <1>0, <2>10, Formed
      <4>2. DOMAIN a = DOMAIN v.attr
        BY DEF a, Values, EachOf
      <4> QED BY <4>1, <4>2
    <3>3. HasClass(a) = o
      BY <1>0, ClassRestored, Zenon DEF a, o
    <3>4. Attributed(Bare(v), AttrValues(v)) = [Robj(v.ts, v.data, k) EXCEPT !.attr = a, !.object = o]
      <4>1. Attributed(Bare(v), AttrValues(v)) = WithAttr(Robj(v.ts, v.data, k), a)
        BY <2>4, <3>1, <3>2, Zenon DEF Attributed, k
      <4> QED BY <3>3, <4>1, Zenon DEF WithAttr
    <3>5. [Robj(v.ts, v.data, k) EXCEPT !.attr = a, !.object = o] = r
      <4>1. Robj(v.ts, v.data, k)
              = [ts |-> v.ts, data |-> v.data, kids |-> k, attr |-> <<>>, id |-> "plain", object |-> FALSE]
        BY Zenon DEF Robj
      <4> DEFINE b == Robj(v.ts, v.data, k)
                 t == v.ts
                 d == v.data
      <4> HIDE DEF b, t, d
      <4>2. b = [ts |-> t, data |-> d, kids |-> k, attr |-> <<>>, id |-> "plain", object |-> FALSE]
        BY <4>1 DEF b, t, d
      <4> DEFINE w == [b EXCEPT !.attr = a, !.object = o]
      <4>3. w = [b EXCEPT !.attr = a, !.object = o]
        OBVIOUS
      <4> HIDE DEF w
      <4>4. w = [ts |-> t, data |-> d, kids |-> k, attr |-> a, id |-> "plain", object |-> o]
        BY <4>2, <4>3, AttrObjectSet
      <4> QED BY <4>4, Zenon DEF b, t, d, w
    <3> QED BY <2>8, <3>4, <3>5, Zenon
  <2> QED BY <2>9, <2>10
<1>8. CASE v.ts \notin AttrTypes \cup {CHARSXP, ENVSXP}
  <2>1. AttrValues(v) = <<>>
    BY <1>8, Zenon DEF AttrValues, HasAttrs
  <2>2. RestoredOf(Restored, v) = Robj(v.ts, v.data, EachOf(Restored, v.kids))
    BY <1>0, <1>8, Zenon DEF RestoredOf
  <2>3. Bare(v) = Robj(v.ts, v.data, Values(Parts(v)))
    BY <1>8, Zenon DEF Bare
  <2>4. Values(Parts(v)) = Values(v.kids)
    <3>1. CASE v.ts = CLOSXP
      <4>1. /\ DOMAIN v.kids = 1 .. 3 /\ DOMAIN Parts(v) = 1 .. 3 /\ v.kids[2] \in Robject
            /\ Parts(v)[1] = v.kids[1] /\ Parts(v)[2] = BodyExpr(v.kids[2]) /\ Parts(v)[3] = v.kids[3]
        BY <3>1, ClosureIs
      <4>2. \A i : i \in 1 .. 3 <=> i = 1 \/ i = 2 \/ i = 3
        OBVIOUS
      <4>3. Restored[v.kids[2]] = Restored[BodyExpr(v.kids[2])]
        BY <4>1, BodyIs
      <4>4. \A i \in 1 .. 3 : Restored[v.kids[i]] = Restored[Parts(v)[i]]
        BY <4>1, <4>2, <4>3, Zenon
      <4> QED BY <4>1, <4>4 DEF Values, EachOf
    <3>2. CASE v.ts # CLOSXP
      <4>1. CASE v.ts \in ListTypes
        BY <3>2, <4>1 DEF Parts
      <4>2. CASE v.ts \notin ListTypes
        BY <1>0, <1>3, <3>2, <4>2 DEF Parts, ListTypes
      <4> QED BY <4>1, <4>2
    <3> QED BY <3>1, <3>2
  <2> QED BY <1>1, <2>1, <2>2, <2>3, <2>4, Zenon DEF Attributed, Values
<1> QED BY <1>5, <1>6, <1>7, <1>8

-----------------------------------------------------------------------------
(* The stack of the loader and what it stands for.                         *)

(* For every sfs_load that has been called: its object, and the bytes that its
   caller still expects after those of the object. *)
Context == [v : Item, rest : Data]

Frame(phase, ts, want, kids, attr) ==
  [phase |-> phase, ts |-> ts, want |-> want, kids |-> kids, attr |-> attr]

AttrsDone(v) == HasAttrs(v) => \A i \in DOMAIN v.attr : Restorable[v.attr[i]]

(* The first k components are done. *)
Done(s, k) == [i \in 1 .. k |-> Restored[s[i]]]

(* d is the k-th component, and after are the bytes behind the last. *)
Part(s, k, d, after) ==
  /\ d.v = s[k]
  /\ d.rest = BytesFrom(s, k + 1) \o after
  /\ \A i \in 1 .. k - 1 : Restorable[s[i]]

(* The frame of an sfs_load for c that waits for the sfs_load for d: one of its
   attributes, or one of the components of a list. *)
Waits(fr, c, d) ==
  \/ /\ HasAttrs(c.v)
     /\ \E k \in 1 .. Len(c.v.attr) :
          /\ fr = Frame("attr", ATTRSXP, Len(c.v.attr), Done(c.v.attr, k - 1), <<>>)
          /\ Part(c.v.attr, k, d, ObjBytes(c.v) \o c.rest)
  \/ /\ c.v.ts \in ListTypes \cup {CLOSXP}
     /\ AttrsDone(c.v)
     /\ \E k \in 1 .. Len(Parts(c.v)) :
          /\ fr = Frame("kids", c.v.ts, Len(Parts(c.v)), Done(Parts(c.v), k - 1), AttrValues(c.v))
          /\ Part(Parts(c.v), k, d, c.rest)

IsSeq(s) == \E S : s \in Seq(S)

(* o is loaded, and nothing is expected after it. *)
Chain(o, st, cx) ==
  /\ IsSeq(st) /\ cx \in Seq(Context)
  /\ Len(cx) = Len(st) /\ Len(cx) > 0
  /\ cx[Len(cx)] = [v |-> o, rest |-> <<>>]
  /\ \A i \in 1 .. Len(cx) : Brief(cx[i].v) /\ (Restorable[o] => Restorable[cx[i].v])
  /\ \A i \in 2 .. Len(cx) : Waits(st[i], cx[i], cx[i - 1])

(* One element before a sequence. *)
LEMMA Prepended ==
  ASSUME NEW S, NEW s \in Seq(S), NEW x
  PROVE  /\ IsSeq(<<x>> \o s)
         /\ Len(<<x>> \o s) = Len(s) + 1 /\ Len(s) \in Nat
         /\ (<<x>> \o s)[1] = x
         /\ \A i \in 1 .. Len(s) : (<<x>> \o s)[i + 1] = s[i]
         /\ \A i \in 2 .. Len(s) + 1 : (<<x>> \o s)[i] = s[i - 1]
         /\ Tail(<<x>> \o s) = s
<1> DEFINE T == S \cup {x}
           r == <<x>> \o s
<1>1. s \in Seq(T) /\ <<x>> \in Seq(T) /\ Len(s) \in Nat
  <2>1. x \in T
    OBVIOUS
  <2>2. s \in Seq(T)
    <3>1. S \subseteq T
      OBVIOUS
    <3>2. DOMAIN s = 1 .. Len(s) /\ \A i \in 1 .. Len(s) : s[i] \in S
      OBVIOUS
    <3> HIDE DEF T
    <3> QED BY <3>1, <3>2
  <2> HIDE DEF T
  <2> QED BY <2>1, <2>2
<1> HIDE DEF T
<1>2. /\ r \in Seq(T) /\ Len(r) = 1 + Len(s) /\ r[1] = x
      /\ \A i \in 1 .. Len(s) : r[1 + i] = s[i]
  <2>1. Len(<<x>>) = 1 /\ <<x>>[1] = x
    OBVIOUS
  <2> DEFINE q == <<x>>
  <2> HIDE DEF q
  <2>2. q \in Seq(T) /\ s \in Seq(T) /\ Len(q) = 1 /\ q[1] = x
    BY <1>1, <2>1 DEF q
  <2>3. /\ q \o s \in Seq(T) /\ Len(q \o s) = Len(q) + Len(s)
        /\ \A i \in 1 .. Len(q) : (q \o s)[i] = q[i]
        /\ \A i \in 1 .. Len(s) : (q \o s)[Len(q) + i] = s[i]
    BY ONLY <2>2, ConcatIs, SMTT(30)
  <2> QED BY <2>2, <2>3 DEF q
<1> HIDE DEF r
<1>3. \A i \in 2 .. Len(s) + 1 : r[i] = s[i - 1]
  <2> SUFFICES ASSUME NEW i \in 2 .. Len(s) + 1 PROVE r[i] = s[i - 1]
    OBVIOUS
  <2>1. i - 1 \in 1 .. Len(s) /\ 1 + (i - 1) = i
    BY <1>1
  <2> QED BY <1>2, <2>1
<1>4. Tail(r) = s
  <2>1. Tail(r) \in Seq(T) /\ Len(Tail(r)) = Len(s) /\ \A i \in 1 .. Len(s) : Tail(r)[i] = r[i + 1]
    BY <1>1, <1>2
  <2>2. \A i \in 1 .. Len(s) : Tail(r)[i] = s[i]
    BY <1>1, <1>2, <2>1
  <2> QED BY <1>1, <2>1, <2>2, SeqEqual
<1>5. \A i \in 1 .. Len(s) : r[i + 1] = s[i]
  BY <1>1, <1>2
<1> QED BY <1>1, <1>2, <1>3, <1>4, <1>5 DEF r, IsSeq

LEMMA TwoElements ==
  ASSUME NEW x, NEW y
  PROVE  <<x>> \o <<y>> = <<x, y>>
<1> DEFINE S == {x, y}
           a == <<x>>
           b == <<y>>
           c == <<x, y>>
           d == a \o b
<1>1. x \in S /\ y \in S
  OBVIOUS
<1> HIDE DEF S
<1>2. /\ a \in Seq(S) /\ b \in Seq(S) /\ c \in Seq(S)
      /\ Len(a) = 1 /\ Len(b) = 1 /\ Len(c) = 2 /\ a[1] = x /\ b[1] = y /\ c[1] = x /\ c[2] = y
  BY <1>1
<1> HIDE DEF a, b, c
<1>3. /\ d \in Seq(S) /\ Len(d) = Len(a) + Len(b)
      /\ \A i \in 1 .. Len(a) : d[i] = a[i]
      /\ \A i \in 1 .. Len(b) : d[Len(a) + i] = b[i]
  <2>1. a \in Seq(S) /\ b \in Seq(S)
    BY <1>2
  <2> QED BY ONLY <2>1, ConcatIs DEF d
<1> HIDE DEF d
<1>4. d[1] = x /\ d[2] = y /\ Len(d) = 2
  <2>1. 1 \in 1 .. Len(a) /\ 1 \in 1 .. Len(b) /\ Len(a) + 1 = 2
    BY <1>2
  <2> QED BY <1>2, <1>3, <2>1
<1>5. \A i \in 1 .. Len(d) : d[i] = c[i]
  BY <1>2, <1>4
<1>6. d = c
  BY <1>2, <1>3, <1>4, <1>5, SeqEqual
<1> QED BY <1>6 DEF a, b, c, d

(* The frame on top is replaced. *)
LEMMA ChainTop ==
  ASSUME NEW o, NEW st, NEW cx, Chain(o, st, cx), NEW f
  PROVE  /\ Chain(o, <<f>> \o Tail(st), cx)
         /\ (<<f>> \o Tail(st))[1] = f
         /\ Len(<<f>> \o Tail(st)) = Len(st)
<1> DEFINE q == Tail(st)
           r == <<f>> \o q
<1>1. PICK S : st \in Seq(S)
  BY DEF Chain, IsSeq
<1>2. Len(st) \in Nat /\ Len(st) > 0
  BY <1>1 DEF Chain
<1>3. q \in Seq(S) /\ Len(q) = Len(st) - 1 /\ \A i \in 1 .. Len(q) : q[i] = st[i + 1]
  BY <1>1, <1>2
<1> HIDE DEF q
<1>4. IsSeq(r) /\ Len(r) = Len(q) + 1 /\ r[1] = f /\ \A i \in 2 .. Len(q) + 1 : r[i] = q[i - 1]
  BY <1>3, Prepended
<1> HIDE DEF r
<1>5. Len(r) = Len(st)
  BY <1>2, <1>3, <1>4
<1>6. ASSUME NEW i \in 2 .. Len(cx) PROVE r[i] = st[i]
  <2>1. Len(cx) = Len(st)
    BY DEF Chain
  <2>2. i \in 2 .. Len(q) + 1 /\ i - 1 \in 1 .. Len(q) /\ (i - 1) + 1 = i
    BY <1>2, <1>3, <2>1
  <2> QED BY <1>3, <1>4, <2>2
<1>7. Chain(o, r, cx)
  BY <1>4, <1>5, <1>6 DEF Chain
<1> QED BY <1>4, <1>5, <1>7 DEF q, r

(* sfs_load is called for a component. *)
LEMMA ChainPush ==
  ASSUME NEW o, NEW st, NEW cx, Chain(o, st, cx), NEW f, NEW d \in Context,
         Brief(d.v), Restorable[cx[1].v] => Restorable[d.v], Waits(f, cx[1], d)
  PROVE  /\ Chain(o, <<NewFrame, f>> \o Tail(st), <<d>> \o cx)
         /\ (<<NewFrame, f>> \o Tail(st))[1] = NewFrame
         /\ (<<d>> \o cx)[1] = d
<1> DEFINE q == <<f>> \o Tail(st)
           r == <<NewFrame>> \o q
           cy == <<d>> \o cx
<1>1. Chain(o, q, cx) /\ q[1] = f
  BY ChainTop
<1>2. PICK S : q \in Seq(S)
  BY <1>1 DEF Chain, IsSeq
<1>3. /\ cx \in Seq(Context) /\ Len(cx) = Len(q) /\ Len(cx) > 0 /\ Len(cx) \in Nat
      /\ cx[Len(cx)] = [v |-> o, rest |-> <<>>]
      /\ \A i \in 1 .. Len(cx) : Brief(cx[i].v) /\ (Restorable[o] => Restorable[cx[i].v])
      /\ \A i \in 2 .. Len(cx) : Waits(q[i], cx[i], cx[i - 1])
  <2> HIDE DEF q
  <2>1. cx \in Seq(Context)
    BY <1>1 DEF Chain
  <2>2. Len(cx) \in Nat
    BY <2>1
  <2> QED BY <1>1, <2>2 DEF Chain
<1>4. r = <<NewFrame, f>> \o Tail(st)
  <2>1. PICK R : st \in Seq(R)
    BY DEF Chain, IsSeq
  <2> DEFINE t == Tail(st)
             U == R \cup {NewFrame, f}
             a == <<NewFrame>>
             b == <<f>>
  <2>2. t \in Seq(R)
    <3>1. st # <<>>
      BY <2>1 DEF Chain
    <3> QED BY <2>1, <3>1
  <2> HIDE DEF t
  <2>3. t \in Seq(U)
    <3>1. DOMAIN t = 1 .. Len(t) /\ \A i \in 1 .. Len(t) : t[i] \in U
      BY <2>2
    <3> HIDE DEF U
    <3> QED BY <2>2, <3>1
  <2>4. a \in Seq(U) /\ b \in Seq(U)
    <3>1. NewFrame \in U /\ f \in U
      OBVIOUS
    <3> HIDE DEF U, NewFrame
    <3> QED BY <3>1
  <2>5. a \o b = <<NewFrame, f>>
    <3> DEFINE z == NewFrame
    <3> HIDE DEF z
    <3>1. <<z>> \o <<f>> = <<z, f>>
      BY TwoElements
    <3> QED BY <3>1 DEF z
  <2> HIDE DEF U, a, b
  <2>6. (a \o b) \o t = a \o (b \o t)
    BY ONLY <2>3, <2>4, ConcatAssoc
  <2> QED BY <2>5, <2>6 DEF a, b, t
<1> HIDE DEF q
<1>5. /\ IsSeq(r) /\ Len(r) = Len(q) + 1 /\ r[1] = NewFrame
      /\ \A i \in 2 .. Len(q) + 1 : r[i] = q[i - 1]
  BY <1>2, Prepended
<1>6. /\ cy \in Seq(Context) /\ Len(cy) = Len(cx) + 1 /\ cy[1] = d
      /\ \A i \in 2 .. Len(cx) + 1 : cy[i] = cx[i - 1]
  <2>1. cy \in Seq(Context)
    BY <1>3, PrependList
  <2> QED BY <1>3, <2>1, Prepended
<1> HIDE DEF r, cy
<1>7. cy[Len(cy)] = [v |-> o, rest |-> <<>>]
  <2>1. Len(cy) \in 2 .. Len(cx) + 1 /\ Len(cy) - 1 = Len(cx)
    BY <1>3, <1>6
  <2> QED BY <1>3, <1>6, <2>1
<1>8. ASSUME NEW i \in 1 .. Len(cy)
      PROVE  Brief(cy[i].v) /\ (Restorable[o] => Restorable[cy[i].v])
  <2>1. CASE i = 1
    <3>1. 1 \in 1 .. Len(cx)
      BY <1>3
    <3> QED BY <1>3, <1>6, <2>1, <3>1
  <2>2. CASE i # 1
    <3>1. i \in 2 .. Len(cx) + 1 /\ i - 1 \in 1 .. Len(cx)
      BY <1>3, <1>6, <2>2
    <3> QED BY <1>3, <1>6, <3>1
  <2> QED BY <2>1, <2>2
<1>9. ASSUME NEW i \in 2 .. Len(cy) PROVE Waits(r[i], cy[i], cy[i - 1])
  <2>1. i \in 2 .. Len(cx) + 1 /\ i \in 2 .. Len(q) + 1
    BY <1>3, <1>6
  <2>2. r[i] = q[i - 1] /\ cy[i] = cx[i - 1]
    BY <1>5, <1>6, <2>1
  <2>3. CASE i = 2
    <3>1. r[i] = f /\ cy[i] = cx[1] /\ cy[i - 1] = d
      BY <1>1, <1>6, <2>2, <2>3
    <3> QED BY <3>1
  <2>4. CASE i # 2
    <3>1. i - 1 \in 2 .. Len(cx) /\ i - 1 \in 2 .. Len(cx) + 1
      BY <1>3, <2>1, <2>4
    <3>2. cy[i - 1] = cx[(i - 1) - 1]
      BY <1>6, <3>1
    <3>3. Waits(q[i - 1], cx[i - 1], cx[(i - 1) - 1])
      BY <1>3, <3>1
    <3> QED BY <2>2, <3>2, <3>3
  <2> QED BY <2>3, <2>4
<1>10. Len(cy) = Len(r) /\ Len(cy) > 0
  BY <1>3, <1>5, <1>6
<1>11. Chain(o, r, cy)
  BY <1>5, <1>6, <1>7, <1>8, <1>9, <1>10 DEF Chain
<1> QED BY <1>4, <1>5, <1>6, <1>11 DEF cy

(* sfs_load returns to another. *)
LEMMA ChainPop ==
  ASSUME NEW o, NEW st, NEW cx, Chain(o, st, cx), Len(st) > 1, NEW f
  PROVE  /\ Chain(o, <<f>> \o Drop(st, 2), Tail(cx))
         /\ (<<f>> \o Drop(st, 2))[1] = f
         /\ Tail(<<f>> \o Drop(st, 2)) = Drop(st, 2)
         /\ Tail(cx)[1] = cx[2]
         /\ cx[1] \in Context /\ cx[2] \in Context
         /\ Waits(st[2], cx[2], cx[1])
<1> DEFINE q == Drop(st, 2)
           r == <<f>> \o q
           cy == Tail(cx)
<1>1. PICK S : st \in Seq(S)
  BY DEF Chain, IsSeq
<1>2. /\ cx \in Seq(Context) /\ Len(cx) = Len(st) /\ Len(cx) \in Nat /\ Len(cx) > 1
      /\ cx[Len(cx)] = [v |-> o, rest |-> <<>>]
      /\ \A i \in 1 .. Len(cx) : Brief(cx[i].v) /\ (Restorable[o] => Restorable[cx[i].v])
      /\ \A i \in 2 .. Len(cx) : Waits(st[i], cx[i], cx[i - 1])
  <2>1. cx \in Seq(Context) /\ Len(cx) = Len(st)
    BY DEF Chain
  <2>2. Len(cx) \in Nat
    BY <2>1
  <2> QED BY <2>1, <2>2 DEF Chain
<1>3. /\ q \in Seq(S) /\ Len(q) = Len(st) - 2
      /\ \A i \in 1 .. Len(q) : q[i] = st[2 + i]
  <2> DEFINE n == 2
  <2>1. n \in 0 .. Len(st)
    BY <1>2
  <2> HIDE DEF n
  <2>2. /\ Drop(st, n) \in Seq(S) /\ Len(Drop(st, n)) = Len(st) - n
        /\ \A i \in 1 .. Len(st) - n : Drop(st, n)[i] = st[n + i]
    BY <1>1, <2>1, CutParts DEF Drop
  <2> QED BY <2>2 DEF n
<1> HIDE DEF q
<1>4. /\ IsSeq(r) /\ Len(r) = Len(q) + 1 /\ r[1] = f /\ Tail(r) = q
      /\ \A i \in 2 .. Len(q) + 1 : r[i] = q[i - 1]
  BY <1>3, Prepended
<1>5. cy \in Seq(Context) /\ Len(cy) = Len(cx) - 1 /\ \A i \in 1 .. Len(cy) : cy[i] = cx[i + 1]
  BY <1>2
<1> HIDE DEF r, cy
<1>6. cy[Len(cy)] = [v |-> o, rest |-> <<>>]
  <2>1. Len(cy) \in 1 .. Len(cy) /\ Len(cy) + 1 = Len(cx)
    BY <1>2, <1>5
  <2> QED BY <1>2, <1>5, <2>1
<1>7. ASSUME NEW i \in 1 .. Len(cy)
      PROVE  Brief(cy[i].v) /\ (Restorable[o] => Restorable[cy[i].v])
  <2>1. i + 1 \in 1 .. Len(cx)
    BY <1>2, <1>5
  <2> QED BY <1>2, <1>5, <2>1
<1>8. ASSUME NEW i \in 2 .. Len(cy) PROVE Waits(r[i], cy[i], cy[i - 1])
  <2>1. /\ i + 1 \in 2 .. Len(cx) /\ i \in 1 .. Len(cy) /\ i - 1 \in 1 .. Len(cy)
        /\ i \in 2 .. Len(q) + 1 /\ i - 1 \in 1 .. Len(q)
    BY <1>2, <1>3, <1>5
  <2>2. r[i] = st[2 + (i - 1)] /\ 2 + (i - 1) = i + 1
    <3> DEFINE j == i - 1
    <3>1. j \in 1 .. Len(q) /\ 2 + j = i + 1
      BY <2>1
    <3>2. r[i] = q[j]
      BY <1>4, <2>1
    <3> HIDE DEF j
    <3>3. q[j] = st[2 + j]
      BY <1>3, <3>1
    <3> QED BY <3>1, <3>2, <3>3 DEF j
  <2>3. cy[i] = cx[i + 1] /\ cy[i - 1] = cx[(i - 1) + 1] /\ (i - 1) + 1 = (i + 1) - 1
    BY <1>5, <2>1
  <2>4. Waits(st[i + 1], cx[i + 1], cx[(i + 1) - 1])
    BY <1>2, <2>1
  <2> QED BY <2>2, <2>3, <2>4
<1>9. Len(cy) = Len(r) /\ Len(cy) > 0
  BY <1>2, <1>3, <1>4, <1>5
<1>10. Chain(o, r, cy)
  BY <1>4, <1>5, <1>6, <1>7, <1>8, <1>9 DEF Chain
<1>11. cy[1] = cx[2] /\ cx[1] \in Context /\ cx[2] \in Context
  <2>1. 1 \in 1 .. Len(cy) /\ 1 \in 1 .. Len(cx) /\ 2 \in 1 .. Len(cx)
    BY <1>2, <1>5
  <2> QED BY <1>2, <1>5, <2>1
<1>12. Waits(st[2], cx[2], cx[1])
  <2>1. 2 \in 2 .. Len(cx) /\ 2 - 1 = 1
    BY <1>2
  <2>2. Waits(st[2], cx[2], cx[2 - 1])
    BY <1>2, <2>1
  <2> QED BY <2>1, <2>2
<1> QED BY <1>4, <1>10, <1>11, <1>12 DEF q, r, cy

-----------------------------------------------------------------------------
(* What can still be read.                                                 *)

(* Data of no bytes, and the concatenation of data. *)
LEMMA NoData ==
  ASSUME NEW a \in Data
  PROVE  /\ <<>> \in Data /\ <<>> \o a = a /\ a \o <<>> = a
         /\ Len(a) \in Nat /\ Len(<<>>) = 0 /\ (Len(a) = 0 <=> a = <<>>)
BY EmptySeq DEF Data

LEMMA DataConcat ==
  ASSUME NEW a \in Data, NEW b \in Data
  PROVE  /\ a \o b \in Data /\ Len(a \o b) = Len(a) + Len(b)
         /\ (a \o b = <<>> => a = <<>> /\ b = <<>>)
<1>1. a \o b \in Data /\ Len(a \o b) = Len(a) + Len(b)
  BY ConcatIs DEF Data
<1>2. Len(a) \in Nat /\ Len(b) \in Nat /\ (Len(a) = 0 => a = <<>>) /\ (Len(b) = 0 => b = <<>>)
  BY NoData
<1>3. a \o b = <<>> => Len(a \o b) = 0
  BY NoData
<1> DEFINE c == a \o b
<1> HIDE DEF c
<1>4. c = <<>> => Len(a) = 0 /\ Len(b) = 0
  <2>1. Len(c) = Len(a) + Len(b) /\ (c = <<>> => Len(c) = 0)
    BY <1>1, <1>3 DEF c
  <2> QED BY <1>2, <2>1
<1> QED BY <1>1, <1>2, <1>4 DEF c

(* Data that begins with as many bytes begins with the same. *)
LEMMA SamePrefix ==
  ASSUME NEW a \in Data, NEW b \in Data, NEW c \in Data, NEW d \in Data,
         a \o b = c \o d, Len(a) = Len(c)
  PROVE  a = c /\ b = d
<1> DEFINE x == a \o b
           y == c \o d
<1>0. a \in Data /\ b \in Data /\ c \in Data /\ d \in Data
  OBVIOUS
<1>1. /\ Len(x) = Len(a) + Len(b) /\ Len(a) \in Nat /\ Len(b) \in Nat
      /\ \A i \in 1 .. Len(a) : x[i] = a[i]
      /\ \A i \in 1 .. Len(b) : x[Len(a) + i] = b[i]
  BY ONLY <1>0, ConcatIs DEF Data
<1>2. /\ Len(y) = Len(c) + Len(d) /\ Len(c) \in Nat /\ Len(d) \in Nat
      /\ \A i \in 1 .. Len(c) : y[i] = c[i]
      /\ \A i \in 1 .. Len(d) : y[Len(c) + i] = d[i]
  BY ONLY <1>0, ConcatIs DEF Data
<1>3. x = y
  OBVIOUS
<1> HIDE DEF x, y
<1>4. a = c
  <2>1. \A i \in 1 .. Len(a) : a[i] = c[i]
    BY <1>1, <1>2, <1>3
  <2> QED BY <2>1, SeqEqual DEF Data
<1>5. b = d
  <2>1. Len(b) = Len(d)
    BY <1>1, <1>2, <1>3
  <2>2. \A i \in 1 .. Len(b) : b[i] = d[i]
    BY <1>1, <1>2, <1>3, <2>1
  <2> QED BY <2>1, <2>2, SeqEqual DEF Data
<1> QED BY <1>4, <1>5

(* The bytes of the calls to come are those of the next, and the rest. *)
LEMMA StreamHead ==
  ASSUME NEW cs \in Calls, cs # <<>>
  PROVE  /\ Head(cs) \in ACall /\ Tail(cs) \in Calls
         /\ Stream(cs) = Header(Head(cs)) \o (Head(cs).buf \o Stream(Tail(cs)))
         /\ Stream(cs) # <<>>
<1> DEFINE c == Head(cs)
           t == Tail(cs)
           a == <<c>>
<1>1. c \in ACall /\ t \in Calls
  BY DEF Calls
<1>2. cs = a \o t /\ a \in Calls
  <2>1. c \in ACall
    BY <1>1
  <2> HIDE DEF c
  <2>2. a \in Calls
    BY <2>1 DEF Calls
  <2>3. Len(t) = Len(cs) - 1 /\ Len(cs) \in Nat /\ Len(cs) > 0 /\ cs[1] = c
        /\ \A i \in 1 .. Len(t) : t[i] = cs[i + 1]
    BY DEF Calls, c
  <2> DEFINE r == a \o t
  <2>4. /\ Len(r) = Len(t) + 1 /\ r[1] = c /\ r \in Calls
        /\ \A i \in 2 .. Len(t) + 1 : r[i] = t[i - 1]
    <3>1. t \in Seq(ACall)
      BY <1>1 DEF Calls
    <3> HIDE DEF t
    <3> QED BY <2>1, <3>1, Prepended, PrependList DEF Calls
  <2> HIDE DEF r, t
  <2>5. \A i \in 1 .. Len(cs) : cs[i] = r[i]
    <3> SUFFICES ASSUME NEW i \in 1 .. Len(cs) PROVE cs[i] = r[i]
      OBVIOUS
    <3>1. CASE i = 1
      BY <2>3, <2>4, <3>1
    <3>2. CASE i # 1
      <4>1. i - 1 \in 1 .. Len(t) /\ i \in 2 .. Len(t) + 1 /\ (i - 1) + 1 = i
        BY <2>3, <3>2
      <4> QED BY <2>3, <2>4, <4>1
    <3> QED BY <3>1, <3>2
  <2>6. Len(cs) = Len(r)
    BY <2>3, <2>4
  <2>7. cs = r
    BY <2>4, <2>5, <2>6, SeqEqual DEF Calls
  <2> QED BY <2>2, <2>7 DEF r
<1>3. Stream(cs) = Stream(a) \o Stream(t)
  BY <1>1, <1>2, StreamConcat
<1>4. Stream(a) = Header(c) \o c.buf
  BY <1>1, StreamOne DEF Bytes
<1>5. Header(c) \in Data /\ c.buf \in Data /\ Stream(t) \in Data /\ Len(Header(c)) = HeaderSize
  BY <1>1, HeaderIs, StreamTyped
<1> DEFINE h == Header(c)
           d == c.buf
           s == Stream(t)
<1>6. Stream(cs) = (h \o d) \o s
  BY <1>3, <1>4
<1>7. h \in Data /\ d \in Data /\ s \in Data /\ Len(h) = HeaderSize
  BY <1>5
<1> HIDE DEF h, d, s
<1>8. (h \o d) \o s = h \o (d \o s) /\ d \o s \in Data
  <2>1. (h \o d) \o s = h \o (d \o s)
    BY ONLY <1>7, DataAssoc, ZenonT(40)
  <2>2. d \o s \in Data
    BY ONLY <1>7, DataJoin
  <2> QED BY <2>1, <2>2
<1>9. h \o (d \o s) # <<>>
  <2>1. Len(h) # 0
    BY <1>7 DEF HeaderSize
  <2>2. h # <<>>
    BY <1>7, <2>1, NoData
  <2> QED BY <1>7, <1>8, <2>2, DataConcat
<1> QED BY <1>1, <1>6, <1>8, <1>9 DEF h, d, s

(* y is ahead of the reader: the bytes on the wire, and those that the writer
   will still write unless the medium has failed, in which case some of y are
   lost. *)
Ahead(y) ==
  /\ wire \in Data /\ left \in Data /\ calls \in Calls
  /\ \E x \in Data : /\ y = wire \o x
                     /\ (~Damaged => x = left \o Stream(calls))
                     /\ (Damaged => x # <<>>)

(* Ahead depends on what the loader and the writer share only. *)
LEMMA AheadKeeps ==
  ASSUME NEW CONSTANT y, Ahead(y), UNCHANGED <<wire, left, calls, medium>>
  PROVE  Ahead(y)'
BY DEF Ahead, Damaged

(* Whatever fd_store writes, and wherever it fails, what is ahead of the reader
   stays the same. *)
LEMMA WriterAhead ==
  ASSUME NEW CONSTANT y, Ahead(y), sfs_store, sink \in {"file", "sock"}
  PROVE  Ahead(y)'
<1>1. /\ wire \in Data /\ left \in Data /\ calls \in Calls
  BY DEF Ahead
<1>2. PICK x : /\ x \in Data /\ y = wire \o x
                /\ (~Damaged => x = left \o Stream(calls))
                /\ (Damaged => x # <<>>)
  BY DEF Ahead
<1> DEFINE s == Stream(calls)
           k == Head(calls)
           h == Header(k)
           d == k.buf
           r == Stream(Tail(calls))
<1>3. /\ s \in Data
      /\ (calls # <<>> => /\ k \in ACall /\ Tail(calls) \in Calls
                          /\ h \in Data /\ Len(h) = HeaderSize /\ d \in Data /\ r \in Data
                          /\ s = h \o (d \o r) /\ s # <<>> /\ d \o r \in Data)
  <2>1. s \in Data
    BY <1>1, StreamTyped
  <2>2. ASSUME calls # <<>>
        PROVE  /\ k \in ACall /\ Tail(calls) \in Calls /\ s = h \o (d \o r) /\ s # <<>>
    BY <1>1, <2>2, StreamHead
  <2>3. ASSUME calls # <<>>
        PROVE  h \in Data /\ Len(h) = HeaderSize /\ d \in Data /\ r \in Data
    BY <2>2, <2>3, HeaderIs, StreamTyped
  <2> HIDE DEF s, k, h, d, r
  <2>4. ASSUME calls # <<>> PROVE d \o r \in Data
    BY <2>3, <2>4, DataConcat
  <2> QED BY <2>1, <2>2, <2>3, <2>4
<1>g. ASSUME Damaged, medium' = medium, wire' = wire, left' \in Data, calls' \in Calls
      PROVE  Ahead(y)'
  <2>1. Damaged'
    BY <1>g DEF Damaged
  <2> HIDE DEF s, k, h, d, r
  <2> QED BY <1>1, <1>2, <1>g, <2>1 DEF Ahead
<1>4. CASE fd_write_header
  <2>0. /\ left = <<>> /\ calls # <<>> /\ calls' = Tail(calls)
        /\ left' = d /\ medium' = medium
        /\ wire' = IF medium = "good" THEN wire \o h ELSE wire
    BY <1>4 DEF fd_write_header, NextCall, Written
  <2>g. CASE Damaged
    <3>1. wire' = wire /\ left' \in Data /\ calls' \in Calls
      BY <1>3, <2>0, <2>g DEF Damaged
    <3> QED BY <1>g, <2>0, <2>g, <3>1
  <2> SUFFICES ASSUME ~Damaged PROVE Ahead(y)'
    BY <2>g
  <2>1. /\ left = <<>> /\ ~Damaged /\ calls # <<>> /\ calls' = Tail(calls)
        /\ wire' = wire \o h /\ left' = d /\ ~Damaged'
    BY <2>0 DEF Damaged
  <2> DEFINE z == d \o r
             w == wire
  <2>2. w \in Data /\ h \in Data /\ z \in Data
    BY <1>1, <1>3, <2>1
  <2>3. x = h \o z
    BY <1>2, <1>3, <2>1, NoData
  <2>4. left' \o Stream(calls') = z
    BY <2>1
  <2> HIDE DEF h, z, w, s, k, d, r
  <2>5. (w \o h) \o z = w \o (h \o z) /\ w \o h \in Data
    <3>1. (w \o h) \o z = w \o (h \o z)
      BY ONLY <2>2, DataAssoc, ZenonT(40)
    <3>2. w \o h \in Data
      BY ONLY <2>2, DataJoin
    <3> QED BY <3>1, <3>2
  <2>6. y = wire' \o z /\ wire' \in Data
    BY <1>2, <2>1, <2>3, <2>5 DEF w
  <2>7. left' \in Data /\ calls' \in Calls
    BY <1>3, <2>1
  <2> QED BY <2>1, <2>2, <2>4, <2>6, <2>7 DEF Ahead
<1>5. CASE fd_write_header_fails
  <2>1. /\ left = <<>> /\ calls # <<>> /\ calls' = Tail(calls)
        /\ wire' = wire /\ left' = d /\ Damaged'
    BY <1>5 DEF fd_write_header_fails, NextCall, Damaged
  <2>2. x # <<>>
    <3>1. <<>> \o s = s
      BY <1>3, NoData
    <3> QED BY <1>2, <1>3, <2>1, <3>1
  <2>3. left' \in Data /\ calls' \in Calls
    BY <1>3, <2>1
  <2> QED BY <1>1, <1>2, <2>1, <2>2, <2>3 DEF Ahead
<1>6. ASSUME NEW n \in 0 .. HeaderSize - 1, fd_write_header_short(n)
      PROVE  Ahead(y)'
  <2>a. /\ left = <<>> /\ calls # <<>> /\ calls' = Tail(calls) /\ left' = left
        /\ wire' = IF medium = "good" THEN wire \o Take(h, n) ELSE wire
        /\ medium' = IF medium = "gap" THEN "gap" ELSE "broken"
    BY <1>6 DEF fd_write_header_short, NextCall, Written, Breaks
  <2>b. Damaged'
    BY <2>a DEF Damaged
  <2>0. /\ left = <<>> /\ calls # <<>> /\ calls' = Tail(calls) /\ left' = left
        /\ wire' = IF medium = "good" THEN wire \o Take(h, n) ELSE wire
        /\ Damaged'
    BY <2>a, <2>b
  <2>g. CASE Damaged
    <3>1. wire' = wire /\ left' \in Data /\ calls' \in Calls
      BY <1>1, <1>3, <2>0, <2>g DEF Damaged
    <3> HIDE DEF s, k, h, d, r
    <3> QED BY <1>1, <1>2, <2>0, <2>g, <3>1 DEF Ahead
  <2> SUFFICES ASSUME ~Damaged PROVE Ahead(y)'
    BY <2>g
  <2>1. /\ left = <<>> /\ ~Damaged /\ calls # <<>> /\ calls' = Tail(calls)
        /\ wire' = wire \o Take(h, n) /\ left' = left /\ Damaged'
    BY <2>0 DEF Damaged
  <2> DEFINE z == d \o r
             w == wire
             a == Take(h, n)
             b == Drop(h, n)
  <2>2. w \in Data /\ h \in Data /\ z \in Data /\ Len(h) = 8
    BY <1>1, <1>3, <2>1 DEF HeaderSize
  <2>3. x = h \o z
    BY <1>2, <1>3, <2>1, NoData
  <2> HIDE DEF h, z, w, s, k, d, r
  <2>4. n \in 0 .. Len(h)
    BY <1>6, <2>2 DEF HeaderSize
  <2>5. a \in Data /\ b \in Data /\ Len(b) = Len(h) - n /\ h = a \o b
    BY <2>2, <2>4, TakeDrop
  <2> HIDE DEF a, b
  <2>6. (a \o b) \o z = a \o (b \o z) /\ b \o z \in Data
    <3>1. a \in Data /\ b \in Data /\ z \in Data
      BY <2>2, <2>5
    <3>2. (a \o b) \o z = a \o (b \o z)
      BY ONLY <3>1, DataAssoc, ZenonT(40)
    <3>3. b \o z \in Data
      BY ONLY <3>1, DataJoin
    <3> QED BY <3>2, <3>3
  <2> DEFINE q == b \o z
  <2>7. q \in Data /\ q # <<>>
    <3>1. Len(b) # 0
      BY <1>6, <2>2, <2>5 DEF HeaderSize
    <3>2. b # <<>>
      BY <2>5, <3>1, NoData
    <3> QED BY <2>2, <2>5, <2>6, <3>2, DataConcat
  <2> HIDE DEF q
  <2>8. (w \o a) \o q = w \o (a \o q) /\ w \o a \in Data
    <3>1. w \in Data /\ a \in Data /\ q \in Data
      BY <2>2, <2>5, <2>7
    <3>2. (w \o a) \o q = w \o (a \o q)
      BY ONLY <3>1, DataAssoc, ZenonT(40)
    <3>3. w \o a \in Data
      BY ONLY <3>1, DataJoin
    <3> QED BY <3>2, <3>3
  <2>9. y = wire' \o q /\ wire' \in Data
    BY <1>2, <2>1, <2>3, <2>5, <2>6, <2>8 DEF w, a, q
  <2>10. left' \in Data /\ calls' \in Calls
    BY <1>1, <1>3, <2>1
  <2> QED BY <2>1, <2>7, <2>9, <2>10 DEF Ahead
<1>7. ASSUME NEW n \in 1 .. Len(left), fd_write_data(n)
      PROVE  Ahead(y)'
  <2>0. /\ calls' = calls /\ left' = Drop(left, n) /\ medium' = medium
        /\ wire' = IF medium = "good" THEN wire \o Take(left, n) ELSE wire
    BY <1>7 DEF fd_write_data, Written
  <2>g. CASE Damaged
    <3>1. n \in 0 .. Len(left)
      BY <1>1, <1>7, NoData
    <3>2. Drop(left, n) \in Data
      BY <1>1, <3>1, TakeDrop
    <3>3. wire' = wire /\ left' \in Data /\ calls' \in Calls
      BY <1>1, <2>0, <2>g, <3>2 DEF Damaged
    <3> QED BY <1>g, <2>0, <2>g, <3>3
  <2> SUFFICES ASSUME ~Damaged PROVE Ahead(y)'
    BY <2>g
  <2>1. /\ ~Damaged /\ calls' = calls
        /\ wire' = wire \o Take(left, n) /\ left' = Drop(left, n) /\ ~Damaged'
    BY <2>0 DEF Damaged
  <2> DEFINE w == wire
             l == left
             a == Take(l, n)
             b == Drop(l, n)
  <2>2. w \in Data /\ l \in Data /\ s \in Data
    BY <1>1, <1>3
  <2>3. x = l \o s
    BY <1>2, <2>1
  <2>4. n \in 0 .. Len(l)
    <3>1. Len(left) \in Nat
      BY <1>1, NoData
    <3> QED BY <1>7, <3>1
  <2> HIDE DEF w, l
  <2>5. a \in Data /\ b \in Data /\ l = a \o b
    BY <2>2, <2>4, TakeDrop
  <2>6. b \o s = left' \o Stream(calls')
    BY <2>1 DEF l
  <2> HIDE DEF a, b, s, k, h, d, r
  <2>7. (a \o b) \o s = a \o (b \o s) /\ b \o s \in Data
    <3>1. a \in Data /\ b \in Data /\ s \in Data
      BY <2>2, <2>5
    <3>2. (a \o b) \o s = a \o (b \o s)
      BY ONLY <3>1, DataAssoc, ZenonT(40)
    <3>3. b \o s \in Data
      BY ONLY <3>1, DataJoin
    <3> QED BY <3>2, <3>3
  <2> DEFINE q == b \o s
  <2>8. q \in Data
    BY <2>7
  <2> HIDE DEF q
  <2>9. (w \o a) \o q = w \o (a \o q) /\ w \o a \in Data
    <3>1. w \in Data /\ a \in Data /\ q \in Data
      BY <2>2, <2>5, <2>8
    <3>2. (w \o a) \o q = w \o (a \o q)
      BY ONLY <3>1, DataAssoc, ZenonT(40)
    <3>3. w \o a \in Data
      BY ONLY <3>1, DataJoin
    <3> QED BY <3>2, <3>3
  <2>10. y = wire' \o q /\ wire' \in Data
    BY <1>2, <2>1, <2>3, <2>5, <2>7, <2>9 DEF w, a, q, l
  <2>11. left' \in Data /\ calls' \in Calls
    BY <1>1, <2>1, <2>5 DEF b, l
  <2> QED BY <2>1, <2>6, <2>8, <2>10, <2>11 DEF Ahead, q
<1>8. CASE fd_write_data_fails
  <2>1. left # <<>> /\ UNCHANGED <<wire, left, calls>> /\ Damaged'
    BY <1>8 DEF fd_write_data_fails, Breaks, Damaged
  <2>2. x # <<>>
    BY <1>1, <1>2, <1>3, <2>1, DataConcat
  <2> QED BY <1>1, <1>2, <2>1, <2>2 DEF Ahead
<1>9. CASE C_file_store
  BY <1>9, AheadKeeps DEF C_file_store, NoCall
<1> HIDE DEF s, k, h, d, r
<1> QED
  BY <1>4, <1>5, <1>6, <1>7, <1>8, <1>9
     DEF sfs_store, mem_add_buf, C_mem_store, stat_add, C_stat_store, http_store_malloc, http_add,
         http_store, Storing

(* The reader takes n bytes. *)
LEMMA ReaderAhead ==
  ASSUME NEW CONSTANT y, Ahead(y), NEW n \in 0 .. Len(wire),
         wire' = Drop(wire, n), UNCHANGED <<left, calls, medium>>
  PROVE  \E z \in Data : y = Take(wire, n) \o z /\ Ahead(z)'
<1>1. /\ wire \in Data /\ left \in Data /\ calls \in Calls
  BY DEF Ahead
<1>2. PICK x : /\ x \in Data /\ y = wire \o x
                /\ (~Damaged => x = left \o Stream(calls))
                /\ (Damaged => x # <<>>)
  BY DEF Ahead
<1> DEFINE w == wire
           a == Take(w, n)
           b == Drop(w, n)
<1>3. w \in Data /\ n \in 0 .. Len(w)
  BY <1>1
<1>4. wire' = b /\ y = w \o x
  BY <1>2
<1> HIDE DEF w
<1>5. a \in Data /\ b \in Data /\ w = a \o b
  BY <1>3, TakeDrop
<1> HIDE DEF a, b
<1>6. (a \o b) \o x = a \o (b \o x) /\ b \o x \in Data
  <2>1. a \in Data /\ b \in Data /\ x \in Data
    BY <1>2, <1>5
  <2>2. (a \o b) \o x = a \o (b \o x)
    BY ONLY <2>1, DataAssoc, ZenonT(40)
  <2>3. b \o x \in Data
    BY ONLY <2>1, DataJoin
  <2> QED BY <2>2, <2>3
<1>7. PICK z : z \in Data /\ z = b \o x
  BY <1>6
<1>8. Ahead(z)'
  <2>1. wire' \in Data /\ left' \in Data /\ calls' \in Calls
    BY <1>1, <1>4, <1>5
  <2>2. z = wire' \o x
    BY <1>4, <1>7
  <2>3. Stream(calls') = Stream(calls) /\ Damaged' = Damaged
    BY DEF Damaged
  <2> QED BY <1>2, <2>1, <2>2, <2>3 DEF Ahead
<1>9. y = a \o z
  BY <1>4, <1>5, <1>6, <1>7
<1> QED BY <1>7, <1>8, <1>9 DEF a, w

(* The medium has not failed, and all is written. *)
LEMMA AllWritten ==
  ASSUME NEW CONSTANT y, Ahead(y), ~Damaged, left = <<>>, calls = <<>>
  PROVE  y = wire
<1>1. wire \in Data
  BY DEF Ahead
<1>2. PICK x : x \in Data /\ y = wire \o x /\ x = left \o Stream(calls)
  BY DEF Ahead
<1>3. x = <<>>
  BY <1>2, StreamEmpty, NoData
<1> QED BY <1>1, <1>2, <1>3, NoData

(* Nothing is ahead. *)
LEMMA NothingAhead ==
  ASSUME Ahead(<<>>)
  PROVE  wire = <<>> /\ left = <<>> /\ calls = <<>>
<1>1. /\ wire \in Data /\ left \in Data /\ calls \in Calls
  BY DEF Ahead
<1>2. PICK x : /\ x \in Data /\ <<>> = wire \o x
                /\ (~Damaged => x = left \o Stream(calls))
                /\ (Damaged => x # <<>>)
  BY DEF Ahead
<1>3. wire = <<>> /\ x = <<>>
  BY <1>1, <1>2, DataConcat
<1>4. left = <<>> /\ Stream(calls) = <<>>
  <2> DEFINE s == Stream(calls)
  <2>1. s \in Data
    BY <1>1, StreamTyped
  <2> HIDE DEF s
  <2>2. x = left \o s
    BY <1>2, <1>3 DEF s
  <2> QED BY <1>1, <1>3, <2>1, <2>2, DataConcat DEF s
<1>5. calls = <<>>
  BY <1>1, <1>4, StreamHead
<1> QED BY <1>3, <1>4, <1>5

(* When sfs_load may be called. *)
Loadable ==
  \/ sink = "sock"
  \/ sink \in {"mem", "http"} /\ wpc = "stored" /\ Len(bufs) = 1
  \/ sink = "file" /\ wpc \in {"stored", "failed"}

(* A store that has ended leaves nothing to be written but in a medium that has
   failed; memory never does. *)
WriterInv ==
  /\ (sink \in {"mem", "http", "stat"} => left = <<>> /\ ~Damaged)
  /\ (wpc = "stored" => left = <<>> /\ calls = <<>>)
  /\ (sink = "file" /\ wpc = "failed" => Damaged)
  /\ (rpc # "idle" => Loadable)

(* Before it is loaded, the whole object is ahead. *)
IdleInv ==
  rpc = "idle" /\ (sink \in {"file", "sock"} \/ (sink \in {"mem", "http"} /\ Loadable)) =>
    Ahead(BytesOf(obj))

(* The object that is stored is an item, its calls are those of store. *)
LEMMA ObjectIs ==
  ASSUME obj \in Object
  PROVE  /\ obj \in Item /\ CallsFor(obj) = All /\ BytesOf(obj) = Stream(All)
         /\ All \in Calls
<1>1. obj \in Robject /\ obj.ts \notin {CHARSXP, BCODESXP}
  BY IOAssumption
<1>2. obj \in Item
  BY <1>1 DEF Item
<1> QED BY <1>1, <1>2, AllCalls DEF CallsFor, BytesOf

(* The store leaves the loader alone, and nothing but a socket is loaded while
   it stores. *)
LEMMA StoreKeeps ==
  ASSUME sfs_store
  PROVE  /\ UNCHANGED <<obj, sink, rpc, stack, need, got, val>>
         /\ (WriterInv /\ rpc # "idle" => sink = "sock")
<1> USE DEF loadVars
<1>1. UNCHANGED <<obj, sink, rpc, stack, need, got, val>>
  BY DEF sfs_store, mem_add_buf, C_mem_store, stat_add, C_stat_store, fd_write_header,
         fd_write_header_fails, fd_write_header_short, fd_write_data, fd_write_data_fails,
         C_file_store, http_store_malloc, http_add, http_store
<1>2. wpc = "store" \/ (sink = "http" /\ wpc = "malloc")
  BY DEF sfs_store, mem_add_buf, C_mem_store, stat_add, C_stat_store, fd_write_header,
         fd_write_header_fails, fd_write_header_short, fd_write_data, fd_write_data_fails,
         C_file_store, http_store_malloc, http_add, http_store, Storing
<1> QED BY <1>1, <1>2 DEF WriterInv, Loadable

(* The whole object is in memory. *)
LEMMA StoredAhead ==
  ASSUME SinksInv, WriterInv, C_mem_store \/ http_store, Loadable', sink \in {"mem", "http"}
  PROVE  Ahead(BytesOf(obj))'
<1>1. /\ obj \in Object /\ calls \in Calls /\ Len(calls) <= Len(All)
      /\ calls = <<>> /\ UNCHANGED <<obj, sink, calls, bufs, left, medium>> /\ wpc = "store"
      /\ left = <<>> /\ ~Damaged
  BY DEF SinksInv, CallsInv, C_mem_store, http_store, NoCall, WriterInv, Storing
<1>2. Len(bufs) = 1 /\ wpc' = "stored"
  <2>1. sink' \in {"mem", "http"}
    BY <1>1
  <2> QED BY <1>1, <2>1 DEF Loadable
<1>3. Stored = Stream(All) /\ Stored \in Data
  <2>1. All \in Calls /\ Len(All) \in Nat /\ Len(<<>>) = 0
    BY <1>1, AllCalls DEF Calls
  <2>2. Len(All) - Len(calls) = Len(All)
    BY <1>1, <2>1
  <2>3. SubSeq(All, 1, Len(All)) = All
    BY <2>1 DEF Calls
  <2>4. Made = All
    BY <2>2, <2>3 DEF Made, Take, All
  <2> QED BY <2>1, <2>4, StreamTyped DEF Stored
<1>4. wire' = Stored
  <2>1. CASE C_mem_store
    <3>1. sink = "mem"
      BY <2>1 DEF C_mem_store, Storing
    <3>2. bufs \in Seq(Buf) /\ Contents(bufs) = Stored
      BY <3>1 DEF SinksInv, MemInv
    <3> DEFINE b == bufs[1]
    <3>3. b \in Buf /\ b.d \in Data /\ DOMAIN bufs = {1}
      BY <1>2, <3>2 DEF Buf
    <3>4. [i \in DOMAIN bufs |-> bufs[i].d] = <<b.d>>
      BY <3>3
    <3>5. Contents(bufs) = b.d
      <4> DEFINE e == b.d
      <4>1. e \in Seq(Byte)
        BY <3>3 DEF Data
      <4> HIDE DEF e
      <4>2. FlattenSeq(<<e>>) = e
        BY <4>1, FlattenOne
      <4> QED BY <3>4, <4>2 DEF Contents, e
    <3>6. ASSUME NEW g PROVE collapse_buf(bufs, g) = b.d
      <4> DEFINE reach(i) == {k \in DOMAIN bufs : Len(bufs[k].d) >= i}
                 last(i) == CHOOSE k \in reach(i) : \A m \in reach(i) : m <= k
                 e == b.d
      <4>1. e \in Seq(Byte) /\ e = [i \in 1 .. Len(e) |-> e[i]]
        BY <3>3 DEF Data
      <4>2. ASSUME NEW i \in 1 .. Len(e)
            PROVE  (IF reach(i) = {} THEN g ELSE bufs[last(i)].d[i]) = e[i]
        <5>1. reach(i) = {1}
          BY <3>3, <4>1
        <5>2. last(i) = 1
          BY <5>1
        <5> QED BY <5>1, <5>2
      <4>3. collapse_buf(bufs, g)
              = [i \in 1 .. Len(Contents(bufs)) |-> IF reach(i) = {} THEN g ELSE bufs[last(i)].d[i]]
        BY DEF collapse_buf
      <4> HIDE DEF reach, last
      <4>4. collapse_buf(bufs, g) = [i \in 1 .. Len(e) |-> e[i]]
        BY <3>5, <4>2, <4>3
      <4> QED BY <4>1, <4>4
    <3> QED BY <2>1, <3>2, <3>5, <3>6 DEF C_mem_store
  <2>2. CASE http_store
    <3>1. sink = "http"
      BY <2>2 DEF http_store, Storing
    <3>2. PICK a \in http_store_finish(api) :
               /\ wpc' = IF a.res = 0 THEN "stored" ELSE "failed"
               /\ wire' = IF a.res = 0 THEN FlattenSeq(a.chunks) ELSE wire
      BY <2>2 DEF http_store
    <3>3. a.res = 0 /\ wire' = FlattenSeq(a.chunks)
      BY <1>2, <3>2
    <3>4. api \in AnyApi
      BY <3>1 DEF SinksInv, HttpInv
    <3>5. api.res = 0 /\ wire' = Sent(api)
      BY <3>3, <3>4, HcFinishSends
    <3>6. Sent(api) = Stored
      BY <1>1, <3>1, <3>5 DEF SinksInv, HttpInv
    <3> QED BY <3>5, <3>6
  <2> QED BY <2>1, <2>2
<1>5. BytesOf(obj)' = Stream(All)
  <2>1. BytesOf(obj)' = BytesOf(obj)
    BY <1>1 DEF BytesOf, CallsFor
  <2> QED BY <1>1, <2>1, ObjectIs
<1>6. PICK y : y = Stream(All)
  OBVIOUS
<1>7. Ahead(y)'
  <2>1. wire' = y /\ y \in Data
    BY <1>3, <1>4, <1>6
  <2>2. <<>> \in Data /\ y = y \o <<>>
    BY <2>1, NoData
  <2>3. left' \o Stream(calls') = <<>> /\ ~Damaged'
    BY <1>1, StreamEmpty, NoData DEF Damaged
  <2> QED BY <1>1, <2>1, <2>2, <2>3 DEF Ahead
<1>8. BytesOf(obj)' = y
  BY <1>5, <1>6
<1> QED BY <1>7, <1>8 DEF Ahead

(* No step of the loader goes back to before the load. *)
LEMMA LoadGoes ==
  ASSUME sfs_load \/ fetch_error \/ fetch_interrupted
  PROVE  /\ rpc' # "idle"
         /\ (rpc = "idle" => load_begins)
<1>1. CASE load_begins
  BY <1>1 DEF load_begins, Fetches
<1>2. CASE fetch_buf
  BY <1>2 DEF fetch_buf, LoadEnds, Fetching
<1>3. ASSUME NEW n \in 1 .. Len(wire), fetch_read(n)
      PROVE  rpc' # "idle" /\ rpc # "idle"
  BY <1>3 DEF fetch_read, Fetching
<1>4. CASE fetch_closed
  BY <1>4 DEF fetch_closed, LoadEnds, Fetching
<1>5. CASE sfs_load_attributes
  BY <1>5 DEF sfs_load_attributes, AtHeader, Fetched, Descends, Fetches
<1>6. CASE decode_one_simple
  BY <1>6 DEF decode_one_simple, IsObject, AtHeader, Fetched, Returns
<1>7. CASE decode_one_fetch
  BY <1>7 DEF decode_one_fetch, IsObject, AtHeader, Fetched, FetchesData, Fetches
<1>8. CASE decode_one_long
  BY <1>8 DEF decode_one_long, LoadEnds, IsObject, AtHeader, Fetched, Returns
<1>9. CASE decode_one_kids
  BY <1>9 DEF decode_one_kids, IsObject, AtHeader, Fetched, Descends, Fetches
<1>10. CASE decode_one_error
  BY <1>10 DEF decode_one_error, LoadEnds, AtHeader, Fetched
<1>11. CASE decode_one_data
  BY <1>11 DEF decode_one_data, Fetched, Returns
<1>12. CASE sfs_load_returns
  BY <1>12 DEF sfs_load_returns, Fetches
<1>13. CASE fetch_error
  BY <1>13 DEF fetch_error, Fetching
<1>14. CASE fetch_interrupted
  BY <1>14 DEF fetch_interrupted, LoadEnds, Fetching
<1> QED
  BY <1>1, <1>2, <1>3, <1>4, <1>5, <1>6, <1>7, <1>8, <1>9, <1>10, <1>11, <1>12, <1>13, <1>14
     DEF sfs_load

(* WriterInv and IdleInv are inductive. *)
LEMMA WriterInit ==
  ASSUME Init
  PROVE  WriterInv /\ IdleInv
<1>1. /\ obj \in Object /\ calls = All /\ left = <<>> /\ wire = <<>> /\ ~Damaged /\ rpc = "idle"
      /\ wpc = IF sink = "http" THEN "malloc" ELSE "store"
  BY DEF Init, All, Damaged
<1>2. WriterInv
  BY <1>1 DEF WriterInv
<1>3. All \in Calls /\ BytesOf(obj) = Stream(All)
  BY <1>1, ObjectIs
<1>4. Ahead(BytesOf(obj))
  <2> DEFINE s == Stream(All)
  <2>1. s \in Data
    BY <1>3, StreamTyped
  <2>2. s = left \o Stream(calls)
    BY <1>1, <2>1, NoData
  <2> HIDE DEF s
  <2>3. s = wire \o s /\ <<>> \in Data
    BY <1>1, <2>1, NoData
  <2> QED BY <1>1, <1>3, <2>1, <2>2, <2>3 DEF Ahead, s
<1> QED BY <1>2, <1>4 DEF IdleInv

LEMMA WriterStep ==
  ASSUME WriterInv, [Next]_vars
  PROVE  WriterInv'
<1> USE DEF storeVars, loadVars
<1>1. CASE sfs_store
  <2>1. UNCHANGED <<obj, sink, rpc>> /\ (rpc # "idle" => sink = "sock")
    BY <1>1, StoreKeeps
  <2>2. rpc' # "idle" => Loadable'
    BY <2>1 DEF Loadable
  <2>3. wpc # "stored" /\ (sink = "file" => wpc # "failed")
    BY <1>1
       DEF sfs_store, mem_add_buf, C_mem_store, stat_add, C_stat_store, fd_write_header,
           fd_write_header_fails, fd_write_header_short, fd_write_data, fd_write_data_fails,
           C_file_store, http_store_malloc, http_add, http_store, Storing
  <2>4. sink \in {"mem", "http", "stat"} => left' = <<>> /\ ~Damaged'
    BY <1>1, <2>1
       DEF sfs_store, mem_add_buf, C_mem_store, stat_add, C_stat_store, fd_write_header,
           fd_write_header_fails, fd_write_header_short, fd_write_data, fd_write_data_fails,
           C_file_store, http_store_malloc, http_add, http_store, Storing, WriterInv, Damaged
  <2>5. CASE mem_add_buf \/ stat_add \/ fd_write_header \/ fd_write_header_fails
             \/ (\E n \in 1 .. Len(left) : fd_write_data(n)) \/ http_store_malloc \/ http_add
    <3>1. wpc' # "stored" /\ (sink = "file" => wpc' # "failed")
      BY <2>3, <2>5 DEF mem_add_buf, stat_add, fd_write_header,
           fd_write_header_fails, fd_write_data, http_store_malloc, http_add
    <3> QED BY <2>1, <2>2, <2>4, <3>1 DEF WriterInv
  <2>6. CASE (\E n \in 0 .. HeaderSize - 1 : fd_write_header_short(n)) \/ fd_write_data_fails
    <3>1. wpc' # "stored" /\ Damaged'
      BY <2>6 DEF fd_write_header_short, fd_write_data_fails, Breaks, Damaged
    <3> QED BY <2>1, <2>2, <2>4, <3>1 DEF WriterInv
  <2>7. CASE C_mem_store \/ C_stat_store \/ C_file_store \/ http_store
    <3>1. calls' = <<>>
      BY <2>7 DEF C_mem_store, C_stat_store, C_file_store, http_store, NoCall
    <3>2. CASE C_mem_store \/ http_store
      <4>1. sink \in {"mem", "http"}
        BY <3>2 DEF C_mem_store, http_store, Storing
      <4> QED BY <2>1, <2>2, <2>4, <3>1, <4>1 DEF WriterInv
    <3>3. CASE C_file_store
      <4>1. left' = <<>> /\ wpc' = "stored"
        BY <3>3 DEF C_file_store
      <4> QED BY <2>1, <2>2, <2>4, <3>1, <4>1 DEF WriterInv
    <3>4. CASE C_stat_store
      <4>1. left' = left /\ wpc' = "stored" /\ sink = "stat"
        BY <3>4 DEF C_stat_store, Storing
      <4>2. left = <<>>
        BY <4>1 DEF WriterInv
      <4> QED BY <2>1, <2>2, <2>4, <3>1, <4>1, <4>2 DEF WriterInv
    <3> QED BY <2>7, <3>2, <3>3, <3>4
  <2> QED BY <1>1, <2>5, <2>6, <2>7 DEF sfs_store
<1>2. CASE sfs_load \/ fetch_error \/ fetch_interrupted
  <2>1. UNCHANGED <<obj, sink, calls, wpc, left, bufs>>
    BY <1>2, LoadKeeps
  <2>2. rpc = "idle" => load_begins
    BY <1>2, LoadGoes
  <2>3. Loadable
    BY <2>2 DEF load_begins, Loadable, WriterInv
  <2>4. Loadable'
    BY <2>1, <2>3 DEF Loadable
  <2>5. medium' = medium \/ (Damaged' /\ sink \notin {"mem", "http", "stat"})
    BY <1>2
       DEF sfs_load, Breaks, Damaged, load_begins, fetch_buf, fetch_read, fetch_closed, sfs_load_attributes,
           decode_one_simple, decode_one_fetch, decode_one_long, decode_one_kids, decode_one_error,
           decode_one_data, sfs_load_returns, fetch_error, fetch_interrupted, LoadEnds, Unchanged,
           Fetching
  <2>6. Damaged' = Damaged \/ (Damaged' /\ sink \notin {"mem", "http", "stat"})
    BY <2>5 DEF Damaged
  <2> QED BY <2>1, <2>4, <2>6 DEF WriterInv
<1>3. CASE UNCHANGED vars
  BY <1>3 DEF vars, WriterInv, Loadable, Damaged
<1> QED BY <1>1, <1>2, <1>3 DEF Next

LEMMA IdleStep ==
  ASSUME SinksInv, WriterInv, IdleInv, [Next]_vars
  PROVE  IdleInv'
<1>0. PICK y : y = BytesOf(obj)
  OBVIOUS
<1>1. ASSUME UNCHANGED obj PROVE BytesOf(obj)' = y
  BY <1>0, <1>1 DEF BytesOf, CallsFor
<1>2. CASE sfs_store
  <2>1. UNCHANGED <<obj, sink, rpc>>
    BY <1>2, StoreKeeps
  <2>2. ASSUME rpc = "idle", sink \in {"file", "sock"}
        PROVE  Ahead(y)'
    <3>1. Ahead(y)
      BY <1>0, <2>2 DEF IdleInv
    <3> QED BY <1>2, <2>2, <3>1, WriterAhead
  <2>3. ASSUME rpc = "idle", sink \in {"mem", "http"}, Loadable'
        PROVE  Ahead(BytesOf(obj))'
    <3>1. wpc' = "stored"
      BY <2>1, <2>3 DEF Loadable
    <3>2. C_mem_store \/ http_store
      BY <1>2, <2>3, <3>1
         DEF sfs_store, mem_add_buf, stat_add, C_stat_store, fd_write_header,
           fd_write_header_fails, fd_write_header_short, fd_write_data, fd_write_data_fails,
           C_file_store, http_store_malloc, http_add, Storing
    <3> QED BY <2>3, <3>2, StoredAhead
  <2>4. ASSUME rpc = "idle", sink \in {"file", "sock"}
        PROVE  Ahead(BytesOf(obj))'
    <3>1. Ahead(y)' /\ BytesOf(obj)' = y
      BY <1>1, <2>1, <2>2, <2>4
    <3> QED BY <3>1 DEF Ahead
  <2> QED BY <2>1, <2>3, <2>4 DEF IdleInv
<1>3. CASE sfs_load \/ fetch_error \/ fetch_interrupted
  BY <1>3, LoadGoes DEF IdleInv
<1>4. CASE UNCHANGED vars
  <2>1. UNCHANGED <<obj, sink, rpc, wpc, bufs, wire, left, calls, medium>>
    BY <1>4 DEF vars, storeVars, loadVars
  <2>2. ASSUME Ahead(BytesOf(obj)) PROVE Ahead(BytesOf(obj))'
    <3>1. Ahead(y)
      BY <1>0, <2>2
    <3>2. Ahead(y)'
      BY <2>1, <3>1, AheadKeeps
    <3>3. BytesOf(obj)' = y
      BY <1>1, <2>1
    <3> QED BY <3>2, <3>3 DEF Ahead
  <2>3. Loadable' = Loadable
    BY <2>1 DEF Loadable
  <2> QED BY <2>1, <2>2, <2>3 DEF IdleInv
<1> QED BY <1>2, <1>3, <1>4 DEF Next

-----------------------------------------------------------------------------
(* What is fetched.                                                        *)

(* The sfs_load of frame fr for c fetches the bytes w, and z follow: the header
   of its attributes, the header of the object, or its data. *)
Expects(fr, c, w, z) ==
  \/ /\ HasAttrs(c.v)
     /\ fr = NewFrame
     /\ w = Header(AttrCall(c.v))
     /\ z = BytesOfAll(c.v.attr) \o (ObjBytes(c.v) \o c.rest)
  \/ /\ AttrsDone(c.v)
     /\ fr = Frame(IF HasAttrs(c.v) THEN "object" ELSE "header", NILSXP, 0, <<>>, AttrValues(c.v))
     /\ w = Header(ObjCall(c.v))
     /\ z = ObjCall(c.v).buf \o (BytesOfAll(Parts(c.v)) \o c.rest)
  \/ /\ AttrsDone(c.v)
     /\ c.v.ts \in (DataTypes \ {RAWSXP}) \cup {SYMSXP, CHARSXP}
     /\ fr = Frame("data", c.v.ts, 0, <<>>, AttrValues(c.v))
     /\ w = ObjCall(c.v).buf
     /\ z = c.rest

(* What there is on the wire for the item of a frame. *)
LEMMA ContextIs ==
  ASSUME NEW c \in Context
  PROVE  /\ c.v \in Item /\ c.rest \in Data
         /\ Header(ObjCall(c.v)) \in Data /\ Len(Header(ObjCall(c.v))) = HeaderSize
         /\ ObjCall(c.v).buf \in Data /\ ObjCall(c.v) \in ACall
         /\ BytesOfAll(Parts(c.v)) \in Data /\ BytesOfAll(c.v.attr) \in Data
         /\ ObjBytes(c.v) \in Data /\ BytesOf(c.v) \in Data
         /\ (HasAttrs(c.v) => /\ Header(AttrCall(c.v)) \in Data
                              /\ Len(Header(AttrCall(c.v))) = HeaderSize
                              /\ AttrCall(c.v) \in ACall)
<1>1. c.v \in Item /\ c.rest \in Data
  BY DEF Context
<1>2. ObjCall(c.v) \in ACall /\ (HasAttrs(c.v) => AttrCall(c.v) \in ACall)
  BY <1>1, ItemCalls
<1>3. Len(Header(ObjCall(c.v))) = HeaderSize /\ (HasAttrs(c.v) => Len(Header(AttrCall(c.v))) = HeaderSize)
  BY <1>2, HeaderIs
<1> QED BY <1>1, <1>2, <1>3, ItemBytes

(* The header of an object is fetched. *)
LEMMA ObjectStarts ==
  ASSUME NEW c \in Context, AttrsDone(c.v)
  PROVE  \E w \in Data, z \in Data :
            /\ Len(w) = HeaderSize
            /\ Expects(Frame(IF HasAttrs(c.v) THEN "object" ELSE "header", NILSXP, 0, <<>>,
                             AttrValues(c.v)), c, w, z)
            /\ w \o z = ObjBytes(c.v) \o c.rest
<1> DEFINE h == Header(ObjCall(c.v))
           b == ObjCall(c.v).buf
           p == BytesOfAll(Parts(c.v))
           r == c.rest
           bp == b \o p
           pr == p \o r
           z == b \o pr
<1>1. h \in Data /\ b \in Data /\ p \in Data /\ r \in Data /\ Len(h) = HeaderSize
  BY ContextIs
<1>2. ObjBytes(c.v) = h \o bp
  BY ContextIs, ItemBytes
<1>3. Expects(Frame(IF HasAttrs(c.v) THEN "object" ELSE "header", NILSXP, 0, <<>>,
                    AttrValues(c.v)), c, h, z)
  BY DEF Expects
<1> HIDE DEF h, b, p, r
<1>4. bp \in Data /\ pr \in Data
  BY <1>1, DataConcat
<1>5. bp \o r = z /\ z \in Data
  <2>1. b \in Data /\ p \in Data /\ r \in Data
    BY <1>1
  <2>2. (b \o p) \o r = b \o (p \o r)
    BY ONLY <2>1, DataAssoc, ZenonT(40)
  <2>3. z \in Data
    BY <1>1, <1>4, DataConcat
  <2> QED BY <2>2, <2>3
<1> HIDE DEF bp, pr, z
<1>6. (h \o bp) \o r = h \o (bp \o r)
  <2>1. h \in Data /\ bp \in Data /\ r \in Data
    BY <1>1, <1>4
  <2> QED BY ONLY <2>1, DataAssoc, ZenonT(40)
<1>7. h \o z = ObjBytes(c.v) \o c.rest
  BY <1>2, <1>5, <1>6 DEF r
<1> QED BY <1>1, <1>3, <1>5, <1>7

(* The first header of an object with or without attributes is fetched. *)
LEMMA Starts ==
  ASSUME NEW c \in Context
  PROVE  \E w \in Data, z \in Data :
            /\ Len(w) = HeaderSize
            /\ Expects(NewFrame, c, w, z)
            /\ w \o z = BytesOf(c.v) \o c.rest
<1>1. CASE HasAttrs(c.v)
  <2> DEFINE h == Header(AttrCall(c.v))
             b == BytesOfAll(c.v.attr)
             p == ObjBytes(c.v)
             r == c.rest
             bp == b \o p
             pr == p \o r
             z == b \o pr
  <2>1. h \in Data /\ b \in Data /\ p \in Data /\ r \in Data /\ Len(h) = HeaderSize
    BY <1>1, ContextIs
  <2>2. BytesOf(c.v) = h \o bp
    BY <1>1, ContextIs, ItemBytes
  <2>3. Expects(NewFrame, c, h, z)
    BY <1>1 DEF Expects
  <2> HIDE DEF h, b, p, r
  <2>4. bp \in Data /\ pr \in Data
    BY <2>1, DataConcat
  <2>5. bp \o r = z /\ z \in Data
    <3>1. b \in Data /\ p \in Data /\ r \in Data
      BY <2>1
    <3>2. (b \o p) \o r = b \o (p \o r)
      BY ONLY <3>1, DataAssoc, ZenonT(40)
    <3>3. z \in Data
      BY <2>1, <2>4, DataConcat
    <3> QED BY <3>2, <3>3
  <2> HIDE DEF bp, pr, z
  <2>6. (h \o bp) \o r = h \o (bp \o r)
    <3>1. h \in Data /\ bp \in Data /\ r \in Data
      BY <2>1, <2>4
    <3> QED BY ONLY <3>1, DataAssoc, ZenonT(40)
  <2>7. h \o z = BytesOf(c.v) \o c.rest
    BY <2>2, <2>5, <2>6 DEF r
  <2> QED BY <2>1, <2>3, <2>5, <2>7
<1>2. CASE ~HasAttrs(c.v)
  <2>1. AttrsDone(c.v) /\ AttrValues(c.v) = <<>>
    BY <1>2 DEF AttrsDone, AttrValues
  <2>2. Frame(IF HasAttrs(c.v) THEN "object" ELSE "header", NILSXP, 0, <<>>, AttrValues(c.v))
          = NewFrame
    BY <1>2, <2>1 DEF Frame, NewFrame
  <2>3. BytesOf(c.v) = ObjBytes(c.v)
    BY <1>2, ContextIs, ItemBytes
  <2> QED BY <2>1, <2>2, <2>3, ObjectStarts
<1> QED BY <1>1, <1>2

IsFrame(fr, phase, ts, want, kids, attr) == fr = Frame(phase, ts, want, kids, attr)

(* An attribute header is read. *)
ExpectsAttr(fr, c, w, z) == Expects(fr, c, w, z) /\ fr.phase = "header" /\ w[1] = ATTRSXP

(* The frame after the header of an attribute list, which holds half as many
   attributes as elements. *)
LEMMA AttrRead ==
  ASSUME NEW c \in Context, NEW fr, NEW w, NEW z, ExpectsAttr(fr, c, w, z)
  PROVE  /\ HasAttrs(c.v)
         /\ IsFrame(fr, "header", NILSXP, 0, <<>>, <<>>)
         /\ z = BytesOfAll(c.v.attr) \o (ObjBytes(c.v) \o c.rest)
         /\ 2 * LengthOf(Tail(w)) = Len(c.v.attr) /\ LengthOf(Tail(w)) > 0
<1>0. Expects(fr, c, w, z) /\ fr.phase = "header" /\ w[1] = ATTRSXP
  BY DEF ExpectsAttr
<1>1. fr # Frame("data", c.v.ts, 0, <<>>, AttrValues(c.v))
  BY <1>0 DEF Frame
<1>2. w # Header(ObjCall(c.v))
  <2>1. Header(ObjCall(c.v))[1] = ObjCall(c.v).ts
    BY ContextIs, HeaderRead
  <2>2. ObjCall(c.v).ts # ATTRSXP
    BY ContextIs, ObjCallIs
  <2> QED BY <1>0, <2>1, <2>2
<1>3. HasAttrs(c.v) /\ fr = NewFrame /\ w = Header(AttrCall(c.v))
      /\ z = BytesOfAll(c.v.attr) \o (ObjBytes(c.v) \o c.rest)
  BY <1>0, <1>1, <1>2 DEF Expects
<1> DEFINE n == Len(c.v.attr)
           m == n \div 2
<1>4. AttrCall(c.v) \in ACall /\ AttrCall(c.v).ts = ATTRSXP /\ AttrCall(c.v).len = m
  BY <1>3, ContextIs DEF AttrCall, AttrCount, Call
<1>5. n \in Nat /\ n < MAX_LENGTH /\ n % 2 = 0 /\ n # 0
  <2>1. c.v \in Robject
    BY ContextIs DEF Item
  <2>2. WellFormed(c.v)
    BY <2>1, ObjectAssumption
  <2>3. c.v.attr \in Seq(Robject) /\ Len(c.v.attr) < MAX_LENGTH /\ Len(c.v.attr) % 2 = 0
    BY <2>2 DEF WellFormed
  <2>4. c.v.attr # <<>>
    BY <1>3 DEF HasAttrs
  <2> QED BY <2>3, <2>4, EmptySeq
<1> HIDE DEF n, m
<1>6. 2 * m = n /\ m > 0 /\ m \in 0 .. MAX_LENGTH
  <2>1. m = n \div 2 /\ MAX_LENGTH \in Nat
    BY MaxLength DEF m
  <2> QED BY ONLY <1>5, <2>1, SMT
<1>7. LengthOf(Tail(w)) = m
  <2>1. ATTRSXP # ENVSXP
    BY DEF ATTRSXP, ENVSXP
  <2> QED BY <1>3, <1>4, <1>6, <2>1, HeaderRead
<1> QED BY <1>3, <1>6, <1>7 DEF n, IsFrame, Frame, NewFrame

(* The header of an object is read. *)
LEMMA ObjectRead ==
  ASSUME NEW c \in Context, NEW fr, NEW w, NEW z, Expects(fr, c, w, z),
         fr.phase \in {"header", "object"}, ~(fr.phase = "header" /\ w[1] = ATTRSXP)
  PROVE  /\ AttrsDone(c.v)
         /\ fr = Frame(fr.phase, NILSXP, 0, <<>>, AttrValues(c.v))
         /\ fr.attr = AttrValues(c.v)
         /\ w[1] = c.v.ts
         /\ z = ObjCall(c.v).buf \o (BytesOfAll(Parts(c.v)) \o c.rest)
         /\ (c.v.ts = ENVSXP => Tail(w) = EnvLen(c.v.id))
         /\ (c.v.ts # ENVSXP => LengthOf(Tail(w)) = ObjCall(c.v).len)
<1>1. fr # Frame("data", c.v.ts, 0, <<>>, AttrValues(c.v))
  BY DEF Frame
<1>2. ~(HasAttrs(c.v) /\ fr = NewFrame /\ w = Header(AttrCall(c.v)))
  <2>1. SUFFICES ASSUME HasAttrs(c.v), fr = NewFrame, w = Header(AttrCall(c.v)) PROVE FALSE
    OBVIOUS
  <2>2. w[1] = AttrCall(c.v).ts
    BY <2>1, ContextIs, HeaderRead
  <2>3. AttrCall(c.v).ts = ATTRSXP /\ fr.phase = "header"
    BY <2>1 DEF AttrCall, Call, NewFrame
  <2> QED BY <2>2, <2>3
<1>3. /\ AttrsDone(c.v)
      /\ fr = Frame(IF HasAttrs(c.v) THEN "object" ELSE "header", NILSXP, 0, <<>>, AttrValues(c.v))
      /\ w = Header(ObjCall(c.v))
      /\ z = ObjCall(c.v).buf \o (BytesOfAll(Parts(c.v)) \o c.rest)
  BY <1>1, <1>2 DEF Expects
<1>4. fr = Frame(fr.phase, NILSXP, 0, <<>>, AttrValues(c.v)) /\ fr.attr = AttrValues(c.v)
  BY <1>3 DEF Frame
<1>5. ObjCall(c.v) \in ACall /\ ObjCall(c.v).ts = c.v.ts /\ c.v \in Item
  BY ContextIs, ObjCallIs
<1>6. w[1] = c.v.ts
  BY <1>3, <1>5, HeaderRead
<1>7. c.v.ts = ENVSXP => Tail(w) = EnvLen(c.v.id)
  <2>1. c.v.ts = ENVSXP => ObjCall(c.v).len = EnvLen(c.v.id)
    BY <1>5, ObjCallIs
  <2> QED BY <1>3, <1>5, <2>1, HeaderRead
<1>8. c.v.ts # ENVSXP => LengthOf(Tail(w)) = ObjCall(c.v).len
  <2>1. c.v.ts # ENVSXP => ObjCall(c.v).len \in 0 .. MAX_LENGTH
    BY <1>5, ObjCallIs
  <2> QED BY <1>3, <1>5, <2>1, HeaderRead
<1> QED BY <1>3, <1>4, <1>6, <1>7, <1>8

(* Fields of a frame are set. *)
TypeSet(r, q, u) == [r EXCEPT !.phase = q, !.ts = u]

(* What the updates of a frame make of it. *)
LEMMA TypeSetIs ==
  ASSUME NEW p, NEW t, NEW n, NEW k, NEW a, NEW q, NEW u, NEW r,
         IsFrame(r, p, t, n, k, a)
  PROVE  IsFrame(TypeSet(r, q, u), q, u, n, k, a)
<1>1. r = [phase |-> p, ts |-> t, want |-> n, kids |-> k, attr |-> a]
  BY DEF Frame, IsFrame
<1>2. ASSUME NEW s, s = [r EXCEPT !.phase = q, !.ts = u] PROVE s = Frame(q, u, n, k, a)
  <2>1. s = [phase |-> s.phase, ts |-> s.ts, want |-> s.want, kids |-> s.kids, attr |-> s.attr]
    BY <1>1, <1>2
  <2>2. s.phase = q /\ s.ts = u /\ s.want = n /\ s.kids = k /\ s.attr = a
    BY <1>1, <1>2
  <2> QED BY ONLY <2>1, <2>2 DEF Frame
<1> QED BY <1>2 DEF IsFrame, TypeSet

WantSet(r, q, u, m) == [r EXCEPT !.phase = q, !.ts = u, !.want = m]

LEMMA WantSetIs ==
  ASSUME NEW p, NEW t, NEW n, NEW k, NEW a, NEW q, NEW u, NEW m, NEW r,
         IsFrame(r, p, t, n, k, a)
  PROVE  IsFrame(WantSet(r, q, u, m), q, u, m, k, a)
<1>1. r = [phase |-> p, ts |-> t, want |-> n, kids |-> k, attr |-> a]
  BY DEF Frame, IsFrame
<1>2. ASSUME NEW s, s = [r EXCEPT !.phase = q, !.ts = u, !.want = m] PROVE s = Frame(q, u, m, k, a)
  <2>1. s = [phase |-> s.phase, ts |-> s.ts, want |-> s.want, kids |-> s.kids, attr |-> s.attr]
    BY <1>1, <1>2
  <2>2. s.phase = q /\ s.ts = u /\ s.want = m /\ s.kids = k /\ s.attr = a
    BY <1>1, <1>2
  <2> QED BY ONLY <2>1, <2>2 DEF Frame
<1> QED BY <1>2 DEF IsFrame, WantSet

AttrSet(r, q, l) == [r EXCEPT !.phase = q, !.attr = l]

LEMMA AttrSetIs ==
  ASSUME NEW p, NEW t, NEW n, NEW k, NEW a, NEW q, NEW l, NEW r,
         IsFrame(r, p, t, n, k, a)
  PROVE  IsFrame(AttrSet(r, q, l), q, t, n, k, l)
<1>1. r = [phase |-> p, ts |-> t, want |-> n, kids |-> k, attr |-> a]
  BY DEF Frame, IsFrame
<1>2. ASSUME NEW s, s = [r EXCEPT !.phase = q, !.attr = l] PROVE s = Frame(q, t, n, k, l)
  <2>1. s = [phase |-> s.phase, ts |-> s.ts, want |-> s.want, kids |-> s.kids, attr |-> s.attr]
    BY <1>1, <1>2
  <2>2. s.phase = q /\ s.ts = t /\ s.want = n /\ s.kids = k /\ s.attr = l
    BY <1>1, <1>2
  <2> QED BY ONLY <2>1, <2>2 DEF Frame
<1> QED BY <1>2 DEF IsFrame, AttrSet

KidsSet(r, l) == [r EXCEPT !.kids = l]

LEMMA KidsSetIs ==
  ASSUME NEW p, NEW t, NEW n, NEW k, NEW a, NEW l, NEW r,
         IsFrame(r, p, t, n, k, a)
  PROVE  IsFrame(KidsSet(r, l), p, t, n, l, a)
<1>1. r = [phase |-> p, ts |-> t, want |-> n, kids |-> k, attr |-> a]
  BY DEF Frame, IsFrame
<1>2. ASSUME NEW s, s = [r EXCEPT !.kids = l] PROVE s = Frame(p, t, n, l, a)
  <2>1. s = [phase |-> s.phase, ts |-> s.ts, want |-> s.want, kids |-> s.kids, attr |-> s.attr]
    BY <1>1, <1>2
  <2>2. s.phase = p /\ s.ts = t /\ s.want = n /\ s.kids = l /\ s.attr = a
    BY <1>1, <1>2
  <2> QED BY ONLY <2>1, <2>2 DEF Frame
<1> QED BY <1>2 DEF IsFrame, KidsSet

(* A fetch has got some of w, after which z is expected, and y is to be read. *)
Fetch(cx, w, z, y) ==
  /\ Chain(obj, stack, cx)
  /\ w \in Data /\ z \in Data /\ y \in Data /\ Ahead(y)
  /\ Expects(stack[1], cx[1], w, z)
  /\ need = Len(w) /\ got \in Data /\ Len(got) <= need
  /\ got \o y = w \o z
  /\ (sink \in {"mem", "http"} => got = <<>> \/ Len(got) = need)

(* decode_one returns for the object on top. *)
Return(cx) ==
  /\ Chain(obj, stack, cx)
  /\ stack[1].attr = AttrValues(cx[1].v)
  /\ val = Bare(cx[1].v)
  /\ Restorable[cx[1].v]
  /\ Ahead(cx[1].rest)

Loading ==
  /\ (rpc = "fetch" => \E cx, w, z, y : Fetch(cx, w, z, y))
  /\ (rpc = "return" => \E cx : Return(cx))
  /\ (rpc = "loaded" => Restorable[obj] /\ val = Restored[obj] /\ Ahead(<<>>))
  /\ (rpc = "error" => Damaged \/ ~Restorable[obj])

LoadInv == Short => Loading

LEMMA LeastOf ==
  ASSUME NEW S, S \subseteq Nat, S # {}
  PROVE  Least(S) \in Nat /\ \A m \in S : Least(S) <= m
<1>1. \E i \in S : \A j \in S : i <= j
  BY LeastElement
<1>2. Least(S) \in S /\ \A m \in S : Least(S) <= m
  BY <1>1 DEF Least
<1> QED BY <1>2

(* Nothing of what is fetched is lost while the medium holds. *)
LEMMA EnoughAhead ==
  ASSUME NEW CONSTANT cx, NEW CONSTANT w, NEW CONSTANT z, NEW CONSTANT y,
         Fetch(cx, w, z, y), ~Damaged, left = <<>>, calls = <<>>
  PROVE  y = wire /\ Len(got) + Len(wire) >= need
<1>1. y = wire /\ w \in Data /\ z \in Data /\ y \in Data /\ got \in Data /\ need = Len(w)
      /\ got \o y = w \o z
  BY AllWritten DEF Fetch
<1>2. Len(got \o y) = Len(got) + Len(y) /\ Len(w \o z) = Len(w) + Len(z)
  BY <1>1, DataConcat
<1>3. Len(got) \in Nat /\ Len(y) \in Nat /\ Len(w) \in Nat /\ Len(z) \in Nat
  BY <1>1, NoData
<1> QED BY <1>1, <1>2, <1>3

(* Fetching a header or data keeps the invariant: what has been got is the front of
   what is expected, and the rest is ahead. *)
LEMMA FetchBuf ==
  ASSUME Loading, WriterInv, fetch_buf
  PROVE  Loading'
<1> USE DEF storeVars, loadVars
<1>1. /\ sink \in {"mem", "http"} /\ rpc = "fetch" /\ Len(got) < need
      /\ UNCHANGED <<obj, sink, left, calls, medium, stack, need, val>>
  BY DEF fetch_buf, Fetching, LoadEnds
<1>2. PICK cx, w, z, y : Fetch(cx, w, z, y)
  BY <1>1 DEF Loading
<1>3. left = <<>> /\ calls = <<>> /\ ~Damaged
  BY <1>1 DEF WriterInv, Loadable
<1>4. y = wire /\ Len(got) + Len(wire) >= need
  BY <1>2, <1>3, EnoughAhead
<1>5. /\ w \in Data /\ z \in Data /\ y \in Data /\ Ahead(y) /\ got \in Data
      /\ need = Len(w) /\ got \o y = w \o z
      /\ (got = <<>> \/ Len(got) = need)
  BY <1>1, <1>2 DEF Fetch
<1>6. Len(w) \in Nat /\ Len(got) \in Nat /\ Len(wire) \in Nat /\ Len(<<>>) = 0
  BY <1>4, <1>5, NoData
<1>7. got = <<>>
  BY <1>1, <1>5, <1>6
<1>8. y = w \o z /\ need \in 0 .. Len(wire)
  <2>1. <<>> \o y = y
    BY <1>5, NoData
  <2> QED BY <1>4, <1>5, <1>6, <1>7, <2>1
<1>9. got' = Take(wire, need) /\ wire' = Drop(wire, need) /\ rpc' = rpc
  BY <1>8 DEF fetch_buf
<1>10. \E u \in Data : y = Take(wire, need) \o u /\ Ahead(u)'
  BY <1>1, <1>5, <1>8, <1>9, ReaderAhead
<1>11. PICK u : u \in Data /\ y = Take(wire, need) \o u /\ Ahead(u)'
  BY <1>10
<1>12. got' \in Data /\ Len(got') = need
  <2>1. wire \in Data
    BY <1>4, <1>5
  <2> QED BY <1>8, <1>9, <2>1, TakeDrop
<1>13. Fetch(cx, w, z, u)'
  <2>1. got' \o u = w \o z
    BY <1>8, <1>9, <1>11
  <2>2. need' = Len(w) /\ Len(got') <= need' /\ Len(got') = need'
    BY <1>1, <1>5, <1>6, <1>12
  <2>3. Chain(obj', stack', cx) /\ Expects(stack'[1], cx[1], w, z)
    BY <1>1, <1>2 DEF Fetch
  <2> QED BY <1>5, <1>11, <1>12, <2>1, <2>2, <2>3 DEF Fetch
<1> QED BY <1>1, <1>9, <1>13 DEF Loading

LEMMA FetchRead ==
  ASSUME Loading, NEW n \in 1 .. Len(wire), fetch_read(n)
  PROVE  Loading'
<1> USE DEF storeVars, loadVars
<1>1. /\ sink \in {"file", "sock"} /\ rpc = "fetch" /\ Len(got) < need
      /\ n \in 1 .. Least({MAX_RECV_SIZE, need - Len(got), Len(wire)})
      /\ got' = got \o Take(wire, n) /\ wire' = Drop(wire, n) /\ rpc' = rpc
      /\ UNCHANGED <<obj, sink, left, calls, medium, stack, need, val>>
  BY DEF fetch_read, Fetching, Received
<1>2. PICK cx, w, z, y : Fetch(cx, w, z, y)
  BY <1>1 DEF Loading
<1>3. /\ w \in Data /\ z \in Data /\ y \in Data /\ Ahead(y) /\ got \in Data
      /\ need = Len(w) /\ got \o y = w \o z
  BY <1>2 DEF Fetch
<1>4. wire \in Data
  BY <1>3 DEF Ahead
<1>5. Len(w) \in Nat /\ Len(got) \in Nat /\ Len(wire) \in Nat
  BY <1>3, <1>4, NoData
<1>6. n <= Len(wire) /\ n <= need - Len(got) /\ n \in Nat
  <2> DEFINE S == {MAX_RECV_SIZE, need - Len(got), Len(wire)}
             b == Least(S)
  <2>1. S \subseteq Nat /\ S # {}
    BY <1>1, <1>3, <1>5, IOAssumption
  <2>2. need - Len(got) \in S /\ Len(wire) \in S
    OBVIOUS
  <2>3. n \in 1 .. b
    BY <1>1
  <2> HIDE DEF S
  <2>4. b \in Nat /\ b <= need - Len(got) /\ b <= Len(wire)
    BY <2>1, <2>2, LeastOf
  <2> HIDE DEF b
  <2> QED BY <1>3, <1>5, <2>3, <2>4
<1>7. n \in 0 .. Len(wire)
  BY <1>5, <1>6
<1>8. \E u \in Data : y = Take(wire, n) \o u /\ Ahead(u)'
  BY <1>1, <1>3, <1>7, ReaderAhead
<1>9. PICK u : u \in Data /\ y = Take(wire, n) \o u /\ Ahead(u)'
  BY <1>8
<1> DEFINE t == Take(wire, n)
           g == got
<1>10. t \in Data /\ Len(t) = n /\ g \in Data
  BY <1>3, <1>4, <1>7, TakeDrop
<1>11. got' = g \o t /\ y = t \o u /\ u \in Data
  BY <1>1, <1>9
<1> HIDE DEF t, g
<1>12. (g \o t) \o u = g \o (t \o u)
  <2>1. g \in Data /\ t \in Data /\ u \in Data
    BY <1>10, <1>11
  <2> QED BY ONLY <2>1, DataAssoc, ZenonT(40)
<1>13. g \o t \in Data /\ Len(g \o t) = Len(g) + Len(t)
  BY <1>10, DataConcat
<1>14. Fetch(cx, w, z, u)'
  <2>1. got' \o u = w \o z
    BY <1>3, <1>11, <1>12 DEF g
  <2>2. need' = Len(w) /\ Len(got') <= need'
    BY <1>1, <1>3, <1>5, <1>6, <1>10, <1>11, <1>13 DEF g
  <2>3. Chain(obj', stack', cx) /\ Expects(stack'[1], cx[1], w, z)
    BY <1>1, <1>2 DEF Fetch
  <2>4. sink' \notin {"mem", "http"} /\ got' \in Data
    BY <1>1, <1>11, <1>13
  <2> QED BY <1>3, <1>9, <2>1, <2>2, <2>3, <2>4 DEF Fetch
<1> QED BY <1>1, <1>14 DEF Loading

(* A source that ends, fails or is interrupted does so only before the last byte of
   the object has arrived, or when the medium has failed. *)
LEMMA FetchEnds ==
  ASSUME Loading, WriterInv, fetch_closed \/ fetch_error \/ fetch_interrupted
  PROVE  Loading'
<1> USE DEF storeVars, loadVars
<1>1. CASE fetch_closed
  <2>1. /\ sink \in {"file", "sock"} /\ rpc = "fetch" /\ Len(got) < need /\ wire = <<>>
        /\ sink = "file" \/ Damaged
        /\ rpc' = "error" /\ UNCHANGED <<obj, medium>>
    BY <1>1 DEF fetch_closed, Fetching, LoadEnds, Damaged
  <2>2. Damaged
    <3>1. SUFFICES ASSUME ~Damaged PROVE FALSE
      OBVIOUS
    <3>2. sink = "file" /\ left = <<>> /\ calls = <<>>
      BY <2>1, <3>1 DEF WriterInv, Loadable
    <3>3. PICK cx, w, z, y : Fetch(cx, w, z, y)
      BY <2>1 DEF Loading
    <3>4. Len(got) + Len(wire) >= need
      BY <3>1, <3>2, <3>3, EnoughAhead
    <3>5. Len(wire) = 0 /\ Len(got) \in Nat /\ need \in Nat
      BY <2>1, <3>3, NoData DEF Fetch
    <3> QED BY <2>1, <3>4, <3>5
  <2>3. Damaged'
    BY <2>1, <2>2 DEF Damaged
  <2> QED BY <2>1, <2>3 DEF Loading
<1>2. CASE fetch_error
  BY <1>2 DEF fetch_error, Loading, Breaks, Damaged
<1>3. CASE fetch_interrupted
  BY <1>3 DEF fetch_interrupted, LoadEnds, Loading
<1> QED BY <1>1, <1>2, <1>3

(* The components that are done. *)
LEMMA DoneIs ==
  ASSUME NEW s \in Seq(Item)
  PROVE  /\ Done(s, 0) = <<>> /\ Done(s, Len(s)) = Values(s)
         /\ \A k \in 0 .. Len(s) : Len(Done(s, k)) = k
         /\ \A k \in 1 .. Len(s) : Append(Done(s, k - 1), Restored[s[k]]) = Done(s, k)
<1>1. Len(s) \in Nat /\ DOMAIN s = 1 .. Len(s)
  OBVIOUS
<1> DEFINE R == {Restored[s[i]] : i \in DOMAIN s}
<1>2. ASSUME NEW k \in 0 .. Len(s)
      PROVE  /\ Done(s, k) \in Seq(R) /\ Len(Done(s, k)) = k
             /\ \A i \in 1 .. k : Done(s, k)[i] = Restored[s[i]]
  <2>1. \A i \in 1 .. k : Restored[s[i]] \in R
    BY <1>1
  <2> HIDE DEF R
  <2>2. k \in Nat
    BY <1>1
  <2> QED BY <2>1, <2>2 DEF Done
<1>3. Done(s, 0) = <<>>
  <2>1. 0 \in 0 .. Len(s)
    BY <1>1
  <2>2. Done(s, 0) \in Seq(R) /\ Len(Done(s, 0)) = 0
    BY <1>2, <2>1
  <2> HIDE DEF R
  <2> QED BY <2>2, EmptySeq
<1>4. Done(s, Len(s)) = Values(s)
  BY <1>1 DEF Done, Values, EachOf
<1>5. ASSUME NEW k \in 1 .. Len(s)
      PROVE  Append(Done(s, k - 1), Restored[s[k]]) = Done(s, k)
  <2> DEFINE a == Done(s, k - 1)
             x == Restored[s[k]]
             b == Done(s, k)
             c == Append(a, x)
  <2>1. k - 1 \in 0 .. Len(s) /\ k \in 0 .. Len(s) /\ (k - 1) + 1 = k
    BY <1>1
  <2>2. x \in R
    BY <1>1
  <2>3. /\ a \in Seq(R) /\ Len(a) = k - 1 /\ \A i \in 1 .. k - 1 : a[i] = Restored[s[i]]
        /\ b \in Seq(R) /\ Len(b) = k /\ \A i \in 1 .. k : b[i] = Restored[s[i]]
    BY <1>2, <2>1
  <2>4. b[k] = x
    BY <2>3
  <2> HIDE DEF R, a, b, x
  <2>5. c \in Seq(R) /\ Len(c) = k /\ c[k] = x /\ \A i \in 1 .. k - 1 : c[i] = a[i]
    <3>1. c \in Seq(R) /\ Len(c) = Len(a) + 1 /\ c[Len(a) + 1] = x /\ \A i \in 1 .. Len(a) : c[i] = a[i]
      BY <2>2, <2>3, AppendProperties
    <3> QED BY <2>1, <2>3, <3>1
  <2> HIDE DEF c
  <2>6. \A i \in 1 .. k : c[i] = b[i]
    <3> SUFFICES ASSUME NEW i \in 1 .. k PROVE c[i] = b[i]
      OBVIOUS
    <3>1. CASE i = k
      BY <2>4, <2>5, <3>1
    <3>2. CASE i # k
      <4>1. i \in 1 .. k - 1
        BY <1>1, <3>2
      <4> QED BY <2>3, <2>5, <4>1
    <3> QED BY <3>1, <3>2
  <2>7. c = b
    BY <2>3, <2>5, <2>6, SeqEqual
  <2> QED BY <2>7 DEF a, b, c, x
<1> QED BY <1>2, <1>3, <1>4, <1>5

AllDone(s, n) == \A i \in 1 .. n : Restorable[s[i]]

(* The next component to be loaded, and what the bytes to come are to it. *)
LEMMA NextPart ==
  ASSUME NEW s \in Seq(Item), NEW after \in Data, NEW k \in 1 .. Len(s), AllDone(s, k - 1)
  PROVE  \E d \in Context :
            /\ Part(s, k, d, after)
            /\ d.v = s[k]
            /\ BytesFrom(s, k) \o after = BytesOf(d.v) \o d.rest
<1> DEFINE b == BytesOf(s[k])
           f == BytesFrom(s, k + 1)
           r == f \o after
           d == [v |-> s[k], rest |-> r]
<1>1. Len(s) \in Nat /\ k + 1 \in 1 .. Len(s) + 1 /\ s[k] \in Item
  OBVIOUS
<1>2. f \in Data /\ BytesFrom(s, k) = b \o f
  BY <1>1, BytesFromIs
<1>3. b \in Data
  BY <1>1, CallsForTyped
<1> HIDE DEF b, f
<1>4. r \in Data
  BY <1>2, DataConcat
<1>5. (b \o f) \o after = b \o (f \o after)
  <2>1. b \in Data /\ f \in Data /\ after \in Data
    BY <1>2, <1>3
  <2> QED BY ONLY <2>1, DataAssoc, ZenonT(40)
<1>6. d \in Context
  BY <1>1, <1>4 DEF Context
<1>7. d.v = s[k] /\ d.rest = r
  OBVIOUS
<1>8. Part(s, k, d, after)
  BY <1>7 DEF Part, AllDone, f
<1>9. BytesFrom(s, k) \o after = BytesOf(d.v) \o d.rest
  BY <1>2, <1>5, <1>7 DEF b
<1> HIDE DEF d
<1> QED BY <1>6, <1>7, <1>8, <1>9

(* The fetch is complete. *)
LEMMA AllFetched ==
  ASSUME NEW CONSTANT cx, NEW CONSTANT w, NEW CONSTANT z, NEW CONSTANT y,
         Fetch(cx, w, z, y), Len(got) = need
  PROVE  /\ got = w /\ Ahead(z) /\ w \in Data /\ z \in Data
         /\ Chain(obj, stack, cx) /\ cx[1] \in Context /\ Brief(cx[1].v)
         /\ (Restorable[obj] => Restorable[cx[1].v])
         /\ Expects(stack[1], cx[1], w, z)
<1>1. /\ w \in Data /\ z \in Data /\ y \in Data /\ got \in Data /\ Ahead(y)
      /\ got \o y = w \o z /\ Len(got) = Len(w)
      /\ Chain(obj, stack, cx) /\ Expects(stack[1], cx[1], w, z)
  BY DEF Fetch
<1>2. got = w /\ y = z
  BY <1>1, SamePrefix
<1>3. cx \in Seq(Context) /\ Len(cx) > 0 /\ Len(cx) \in Nat
  <2>1. cx \in Seq(Context) /\ Len(cx) > 0
    BY <1>1 DEF Chain
  <2> QED BY <2>1
<1>4. cx[1] \in Context /\ 1 \in 1 .. Len(cx)
  BY <1>3
<1>5. Brief(cx[1].v) /\ (Restorable[obj] => Restorable[cx[1].v])
  BY <1>1, <1>4 DEF Chain
<1> QED BY <1>1, <1>2, <1>4, <1>5

(* A fetch begins. *)
LEMMA FetchBegins ==
  ASSUME NEW CONSTANT cx, NEW CONSTANT w, NEW CONSTANT z, NEW CONSTANT y,
         Ahead(y), UNCHANGED <<wire, left, calls, medium>>,
         w \in Data, z \in Data, y = w \o z,
         Chain(obj', stack', cx), Expects(stack'[1], cx[1], w, z), Fetches(Len(w))
  PROVE  Loading'
<1>1. Ahead(y)'
  BY AheadKeeps
<1>2. y \in Data
  BY DataConcat
<1>3. need' = Len(w) /\ got' = <<>> /\ rpc' = "fetch"
  BY DEF Fetches
<1>4. Len(w) \in Nat /\ Len(<<>>) = 0 /\ <<>> \in Data /\ <<>> \o y = y
  BY <1>2, NoData
<1>5. /\ need' = Len(w) /\ got' \in Data /\ Len(got') <= need' /\ got' \o y = w \o z
  BY <1>3, <1>4
<1>6. Fetch(cx, w, z, y)'
  BY <1>1, <1>2, <1>3, <1>5 DEF Fetch
<1> QED BY <1>3, <1>6 DEF Loading

(* sfs_load is called for a component. *)
LEMMA Descent ==
  ASSUME NEW CONSTANT st, NEW CONSTANT cx, Chain(obj, st, cx), NEW CONSTANT f,
         NEW CONSTANT d \in Context, Brief(d.v), Restorable[cx[1].v] => Restorable[d.v],
         Waits(f, cx[1], d),
         NEW CONSTANT y, Ahead(y), y = BytesOf(d.v) \o d.rest,
         UNCHANGED <<obj, wire, left, calls, medium>>,
         stack' = <<NewFrame, f>> \o Tail(st), Fetches(HeaderSize)
  PROVE  Loading'
<1>1. /\ Chain(obj, <<NewFrame, f>> \o Tail(st), <<d>> \o cx)
      /\ (<<NewFrame, f>> \o Tail(st))[1] = NewFrame
      /\ (<<d>> \o cx)[1] = d
  BY ChainPush
<1>2. PICK w \in Data, z \in Data :
            /\ Len(w) = HeaderSize
            /\ Expects(NewFrame, d, w, z)
            /\ w \o z = BytesOf(d.v) \o d.rest
  BY Starts
<1>3. PICK cy : cy = <<d>> \o cx
  OBVIOUS
<1>4. Chain(obj', stack', cy) /\ Expects(stack'[1], cy[1], w, z) /\ Fetches(Len(w)) /\ y = w \o z
  BY <1>1, <1>2, <1>3
<1> QED BY <1>2, <1>4, FetchBegins

(* The header of an attribute list: the loader is called for the first attribute. *)
LEMMA LoadAttributes ==
  ASSUME Loading, sfs_load_attributes
  PROVE  Loading'
<1> USE DEF storeVars
<1>1. /\ rpc = "fetch" /\ Len(got) = need /\ Top.phase = "header" /\ got[1] = ATTRSXP
      /\ stack' = <<NewFrame, [Top EXCEPT !.phase = "attr", !.ts = ATTRSXP, !.want = 2 * HdrLen]>>
                  \o Tail(stack)
      /\ Fetches(HeaderSize)
      /\ UNCHANGED <<obj, wire, left, calls, medium>>
  BY DEF sfs_load_attributes, AtHeader, Fetched, Ts, Descends, Unchanged
<1>2. PICK cx, w, z, y : Fetch(cx, w, z, y)
  BY <1>1 DEF Loading
<1>3. /\ got = w /\ Ahead(z) /\ Chain(obj, stack, cx) /\ cx[1] \in Context /\ Brief(cx[1].v)
      /\ Expects(stack[1], cx[1], w, z)
  BY <1>1, <1>2, AllFetched
<1>4. PICK c : c = cx[1]
  OBVIOUS
<1>5. /\ HasAttrs(c.v) /\ Top = NewFrame
      /\ z = BytesOfAll(c.v.attr) \o (ObjBytes(c.v) \o c.rest)
      /\ 2 * HdrLen = Len(c.v.attr) /\ 2 * HdrLen > 0
  <2>0. PICK fr : fr = stack[1]
    OBVIOUS
  <2>1. /\ HasAttrs(c.v) /\ IsFrame(fr, "header", NILSXP, 0, <<>>, <<>>)
        /\ z = BytesOfAll(c.v.attr) \o (ObjBytes(c.v) \o c.rest)
        /\ 2 * LengthOf(Tail(w)) = Len(c.v.attr) /\ LengthOf(Tail(w)) > 0
    <3>1. c \in Context /\ ExpectsAttr(fr, c, w, z)
      BY <1>1, <1>3, <1>4, <2>0 DEF Top, ExpectsAttr
    <3> QED BY ONLY <3>1, AttrRead, Zenon
  <2>2. Len(c.v.attr) \in Nat
    BY <1>3, <1>4, PartsFormed, ContextIs
  <2>3. Len(c.v.attr) # 0
    <3>1. c.v.attr \in Seq(Item) /\ c.v.attr # <<>>
      BY <1>3, <1>4, <2>1, PartsFormed, ContextIs DEF HasAttrs
    <3> QED BY <3>1, EmptySeq
  <2>4. fr = NewFrame
    BY <2>1 DEF IsFrame, Frame, NewFrame
  <2> QED BY <1>3, <2>0, <2>1, <2>2, <2>3, <2>4 DEF Top, HdrLen
<1> DEFINE s == c.v.attr
           after == ObjBytes(c.v) \o c.rest
<1>6. s \in Seq(Item) /\ Len(s) > 0 /\ Len(s) \in Nat /\ after \in Data /\ c.v \in Item
  <2>1. c.v \in Item /\ s \in Seq(Item)
    BY <1>3, <1>4, ContextIs, PartsFormed
  <2>2. after \in Data
    BY <1>3, <1>4, ContextIs, DataConcat
  <2>3. Len(s) \in Nat
    BY <2>1
  <2> QED BY <1>5, <2>1, <2>2, <2>3
<1>7. PICK k : k = 1
  OBVIOUS
<1>a. k \in 1 .. Len(s) /\ AllDone(s, k - 1) /\ k - 1 = 0
  BY <1>6, <1>7 DEF AllDone
<1>8. \E d \in Context : /\ Part(s, k, d, after) /\ d.v = s[k]
                         /\ BytesFrom(s, k) \o after = BytesOf(d.v) \o d.rest
  <2>1. s \in Seq(Item) /\ after \in Data
    BY <1>6
  <2> HIDE DEF s, after
  <2> QED BY ONLY <2>1, <1>a, NextPart
<1>9. PICK d : /\ d \in Context /\ Part(s, k, d, after) /\ d.v = s[k]
               /\ BytesFrom(s, k) \o after = BytesOf(d.v) \o d.rest
  BY <1>8
<1>10. z = BytesOf(d.v) \o d.rest
  <2>1. BytesFrom(s, 1) = BytesOfAll(s)
    BY <1>6, BytesFromIs
  <2> QED BY <1>5, <1>7, <1>9, <2>1
<1>11. PICK f : f = [Top EXCEPT !.phase = "attr", !.ts = ATTRSXP, !.want = 2 * HdrLen]
  OBVIOUS
<1>12. f = Frame("attr", ATTRSXP, Len(s), <<>>, <<>>)
  <2>1. Top = Frame("header", NILSXP, 0, <<>>, <<>>)
    BY <1>5 DEF NewFrame, Frame
  <2>2. PICK r, m : r = Top /\ m = 2 * HdrLen
    OBVIOUS
  <2>3. IsFrame(r, "header", NILSXP, 0, <<>>, <<>>)
    BY <2>1, <2>2 DEF IsFrame
  <2>4. IsFrame(WantSet(r, "attr", ATTRSXP, m), "attr", ATTRSXP, m, <<>>, <<>>)
    BY ONLY <2>3, WantSetIs
  <2>5. f = WantSet(r, "attr", ATTRSXP, m)
    BY <1>11, <2>2 DEF WantSet
  <2> QED BY <1>5, <2>2, <2>4, <2>5 DEF IsFrame
<1>13. Waits(f, c, d)
  <2>1. Done(s, 0) = <<>>
    BY <1>6, DoneIs
  <2>2. Done(s, k - 1) = <<>>
    BY <1>a, <2>1
  <2> QED BY <1>5, <1>a, <1>9, <1>12, <2>2 DEF Waits
<1>b. k \in DOMAIN s /\ c.v \in Item /\ Brief(c.v) /\ HasAttrs(c.v) /\ d.v = s[k]
  <2>1. DOMAIN s = 1 .. Len(s)
    BY <1>6
  <2> HIDE DEF s, after
  <2> QED BY <1>3, <1>4, <1>5, <1>6, <1>a, <1>9, <2>1
<1>14. Brief(d.v)
  BY ONLY <1>b, BriefParts
<1>15. Restorable[c.v] => Restorable[d.v]
  BY ONLY <1>b, RestorableIs
<1>16. PICK st : st = stack
  OBVIOUS
<1>17. Chain(obj, st, cx) /\ stack' = <<NewFrame, f>> \o Tail(st)
  BY <1>1, <1>3, <1>11, <1>16
<1> HIDE DEF s, after
<1> QED BY <1>1, <1>3, <1>4, <1>9, <1>10, <1>13, <1>14, <1>15, <1>17, Descent

(* What is known when the header of an object is there. *)
LEMMA AtObject ==
  ASSUME Loading, IsObject
  PROVE  \E cx, z : LET c == cx[1] IN
            /\ Chain(obj, stack, cx) /\ c \in Context /\ c.v \in Item /\ c.rest \in Data /\ Brief(c.v)
            /\ (Restorable[obj] => Restorable[c.v])
            /\ AttrsDone(c.v)
            /\ Top = Frame(Top.phase, NILSXP, 0, <<>>, AttrValues(c.v))
            /\ Top.attr = AttrValues(c.v)
            /\ Ts = c.v.ts
            /\ (c.v.ts = ENVSXP => Tail(got) = EnvLen(c.v.id))
            /\ (c.v.ts # ENVSXP => HdrLen = ObjCall(c.v).len)
            /\ Ahead(z)
            /\ z = ObjCall(c.v).buf \o (BytesOfAll(Parts(c.v)) \o c.rest)
<1>1. /\ rpc = "fetch" /\ Len(got) = need /\ Top.phase \in {"header", "object"}
      /\ ~(Top.phase = "header" /\ got[1] = ATTRSXP)
  BY DEF IsObject, AtHeader, Fetched, Ts
<1>2. PICK cx, w, z, y : Fetch(cx, w, z, y)
  BY <1>1 DEF Loading
<1>3. /\ got = w /\ Ahead(z) /\ Chain(obj, stack, cx) /\ cx[1] \in Context /\ Brief(cx[1].v)
      /\ Expects(stack[1], cx[1], w, z) /\ (Restorable[obj] => Restorable[cx[1].v])
  BY <1>1, <1>2, AllFetched
<1>4. PICK c : c = cx[1]
  OBVIOUS
<1>5. PICK fr : fr = stack[1]
  OBVIOUS
<1>6. /\ AttrsDone(c.v)
      /\ fr = Frame(fr.phase, NILSXP, 0, <<>>, AttrValues(c.v))
      /\ fr.attr = AttrValues(c.v)
      /\ w[1] = c.v.ts
      /\ z = ObjCall(c.v).buf \o (BytesOfAll(Parts(c.v)) \o c.rest)
      /\ (c.v.ts = ENVSXP => Tail(w) = EnvLen(c.v.id))
      /\ (c.v.ts # ENVSXP => LengthOf(Tail(w)) = ObjCall(c.v).len)
  <2>1. /\ c \in Context /\ Expects(fr, c, w, z) /\ fr.phase \in {"header", "object"}
        /\ ~(fr.phase = "header" /\ w[1] = ATTRSXP)
    BY <1>1, <1>3, <1>4, <1>5 DEF Top
  <2> QED BY ONLY <2>1, ObjectRead
<1>7. c.v \in Item /\ c.rest \in Data
  BY <1>3, <1>4, ContextIs
<1> QED BY <1>3, <1>4, <1>5, <1>6, <1>7 DEF Top, Ts, HdrLen

(* decode_one returns. *)
LEMMA ReturnBegins ==
  ASSUME NEW CONSTANT cx, Chain(obj, stack, cx), stack[1].attr = AttrValues(cx[1].v),
         Restorable[cx[1].v], NEW CONSTANT y, y = cx[1].rest, Ahead(y),
         UNCHANGED <<obj, wire, left, calls, medium>>,
         Returns(Bare(cx[1].v))
  PROVE  Loading'
<1>1. stack' = stack /\ rpc' = "return" /\ val' = Bare(cx[1].v)
  BY DEF Returns
<1>2. Ahead(y)'
  BY AheadKeeps
<1>3. Return(cx)'
  BY <1>1, <1>2 DEF Return
<1> QED BY <1>1, <1>3 DEF Loading

(* An object without data or components. *)
LEMMA NothingMore ==
  ASSUME NEW c \in Context, ObjCall(c.v).buf = <<>>, Parts(c.v) = <<>>
  PROVE  /\ ObjCall(c.v).buf \o (BytesOfAll(Parts(c.v)) \o c.rest) = c.rest
         /\ (AttrsDone(c.v) /\ c.v.ts \in Known => Restorable[c.v])
         /\ Values(Parts(c.v)) = <<>>
<1>1. c.v \in Item /\ c.rest \in Data
  BY ContextIs
<1>2. BytesOfAll(<<>>) = <<>>
  <2>1. <<>> \in Seq(Item) /\ Len(<<>>) = 0
    OBVIOUS
  <2>2. BytesFrom(<<>>, 0 + 1) = <<>> /\ BytesFrom(<<>>, 1) = BytesOfAll(<<>>)
    BY <2>1, BytesFromIs
  <2> QED BY <2>2
<1>3. <<>> \o (<<>> \o c.rest) = c.rest
  BY <1>1, NoData
<1>4. Values(<<>>) = <<>>
  BY DEF Values, EachOf
<1>5. AttrsDone(c.v) /\ c.v.ts \in Known => Restorable[c.v]
  <2> DEFINE v == c.v
             p == Parts(v)
  <2>1. v \in Item /\ \A i \in DOMAIN p : Restorable[p[i]]
    BY <1>1
  <2>2. Restorable[v] <=> /\ v.ts \in Known
                          /\ \A i \in DOMAIN p : Restorable[p[i]]
                          /\ HasAttrs(v) => \A i \in DOMAIN v.attr : Restorable[v.attr[i]]
    BY ONLY <2>1, RestorableIs
  <2> HIDE DEF p
  <2> QED BY <2>1, <2>2, Zenon DEF AttrsDone
<1> QED BY <1>1, <1>2, <1>3, <1>4, <1>5

(* What AtObject says, of a context and the bytes that follow. *)
ReadObject(cx, z) ==
  LET c == cx[1] IN
  /\ Chain(obj, stack, cx) /\ c \in Context /\ c.v \in Item /\ c.rest \in Data /\ Brief(c.v)
  /\ (Restorable[obj] => Restorable[c.v])
  /\ AttrsDone(c.v)
  /\ Top = Frame(Top.phase, NILSXP, 0, <<>>, AttrValues(c.v))
  /\ Top.attr = AttrValues(c.v)
  /\ Ts = c.v.ts
  /\ (c.v.ts = ENVSXP => Tail(got) = EnvLen(c.v.id))
  /\ (c.v.ts # ENVSXP => HdrLen = ObjCall(c.v).len)
  /\ Ahead(z)
  /\ z = ObjCall(c.v).buf \o (BytesOfAll(Parts(c.v)) \o c.rest)

(* The header of the object itself: what follows are its data or its parts. *)
LEMMA ReadsObject ==
  ASSUME Loading, IsObject
  PROVE  \E cx, z : ReadObject(cx, z)
BY AtObject DEF ReadObject

(* An object without data is complete after its header. *)
LEMMA DecodeSimple ==
  ASSUME Loading, decode_one_simple
  PROVE  Loading'
<1> USE DEF storeVars
<1>1. IsObject /\ UNCHANGED <<obj, wire, left, calls, medium>>
  BY DEF decode_one_simple, Unchanged
<1>2. PICK cx, z : ReadObject(cx, z)
  BY <1>1, ReadsObject
<1>3. PICK c, v : c = cx[1] /\ v = c.v
  OBVIOUS
<1>4. /\ Chain(obj, stack, cx) /\ c \in Context /\ v \in Item /\ AttrsDone(v)
      /\ stack[1].attr = AttrValues(v) /\ Ts = v.ts
      /\ (v.ts = ENVSXP => Tail(got) = EnvLen(v.id))
      /\ (v.ts # ENVSXP => HdrLen = ObjCall(v).len)
      /\ Ahead(z) /\ z = ObjCall(v).buf \o (BytesOfAll(Parts(v)) \o c.rest)
  BY <1>2, <1>3 DEF ReadObject, Top
<1>5. ASSUME v.ts \in Known, ObjCall(v).buf = <<>>, Parts(v) = <<>>, Returns(Bare(v))
      PROVE  Loading'
  <2>1. c \in Context /\ ObjCall(c.v).buf = <<>> /\ Parts(c.v) = <<>>
    BY <1>3, <1>4, <1>5
  <2>2. /\ ObjCall(c.v).buf \o (BytesOfAll(Parts(c.v)) \o c.rest) = c.rest
        /\ (AttrsDone(c.v) /\ c.v.ts \in Known => Restorable[c.v])
    BY <2>1, NothingMore
  <2>3. z = c.rest /\ Restorable[v]
    BY <1>3, <1>4, <1>5, <2>2
  <2>4. Chain(obj, stack, cx) /\ stack[1].attr = AttrValues(cx[1].v) /\ Restorable[cx[1].v]
        /\ z = cx[1].rest /\ Ahead(z) /\ Returns(Bare(cx[1].v))
    BY <1>3, <1>4, <1>5, <2>3
  <2> QED BY <1>1, <2>4, ReturnBegins
<1>6. ASSUME v.ts # ENVSXP, v.data = <<>>, Parts(v) = <<>>
      PROVE  Bare(v) = Robj(v.ts, <<>>, <<>>)
  <2>1. Values(<<>>) = <<>>
    BY DEF Values, EachOf
  <2> QED BY <1>6, <2>1 DEF Bare
<1>7. CASE Ts = NILSXP /\ Returns(R_NilValue)
  <2>1. v.ts = NILSXP /\ v.ts # ENVSXP /\ v.ts \in Known
    BY <1>4, <1>7 DEF NILSXP, ENVSXP, Known
  <2>2. ObjCall(v).buf = <<>> /\ v.data = <<>> /\ Parts(v) = <<>>
    <3>1. v.ts \notin DataTypes \cup {SYMSXP, CHARSXP} /\ v.ts \notin ListTypes \cup {CLOSXP}
      BY <2>1, Types
    <3> QED BY <1>4, <3>1, ObjCallIs
  <2>3. Bare(v) = R_NilValue
    BY <1>6, <2>1, <2>2 DEF R_NilValue
  <2> QED BY <1>5, <1>7, <2>1, <2>2, <2>3
<1>8. CASE Ts = ENVSXP /\ Returns(Environment(EnvOf(Tail(got))))
  <2>1. v.ts = ENVSXP /\ v.ts \in Known
    BY <1>4, <1>8 DEF Known
  <2>2. ObjCall(v).buf = <<>> /\ Parts(v) = <<>>
    <3>1. v.ts \notin DataTypes \cup {SYMSXP, CHARSXP} /\ v.ts \notin ListTypes \cup {CLOSXP}
      BY <2>1, Types
    <3> QED BY <1>4, <3>1, ObjCallIs
  <2>3. v.id \in {"empty", "global", "base", "custom"}
    <3>1. v \in Robject
      BY <1>4 DEF Item
    <3>2. WellFormed(v)
      BY <3>1, ObjectAssumption
    <3> QED BY <2>1, <3>2 DEF WellFormed
  <2>4. EnvOf(EnvLen(v.id)) = IF v.id = "custom" THEN "base" ELSE v.id
    BY <2>3, EnvRead
  <2>5. Bare(v) = Environment(EnvOf(Tail(got)))
    BY <1>4, <2>1, <2>4 DEF Bare
  <2> QED BY <1>5, <1>8, <2>1, <2>2, <2>5
<1>9. CASE Ts = SYMSXP /\ HdrLen = 0 /\ Returns(R_MissingArg)
  <2>1. v.ts = SYMSXP /\ v.ts # ENVSXP /\ v.ts \in Known
    BY <1>4, <1>9 DEF SYMSXP, ENVSXP, Known
  <2>2. ObjCall(v).buf = <<>> /\ v.data = <<>> /\ Parts(v) = <<>>
    <3>1. v.ts \notin ListTypes \cup {CLOSXP}
      BY <2>1, Types
    <3> QED BY <1>4, <1>9, <2>1, <3>1, ObjCallIs
  <2>3. Bare(v) = R_MissingArg
    BY <1>6, <2>1, <2>2 DEF R_MissingArg, Symbol
  <2> QED BY <1>5, <1>9, <2>1, <2>2, <2>3
<1>10. CASE /\ Ts \in (DataTypes \ {RAWSXP}) \cup {VECSXP, STRSXP} \cup PairTypes /\ HdrLen = 0
            /\ Returns(IF Ts \in PairTypes THEN R_NilValue ELSE Robj(Ts, <<>>, <<>>))
  <2>1. v.ts \in (DataTypes \ {RAWSXP}) \cup {VECSXP, STRSXP} \cup PairTypes /\ v.ts \in Known
    BY <1>4, <1>10 DEF Known, ListTypes
  <2>2. v.ts # ENVSXP
    BY <2>1, Types DEF ListTypes
  <2>3. ObjCall(v).len = 0
    BY <1>4, <1>10, <2>2
  <2>4. v.ts \notin PairTypes
    BY <1>4, <2>3, ObjCallIs
  <2>5. ObjCall(v).buf = <<>> /\ v.data = <<>> /\ Parts(v) = <<>>
    <3>1. CASE v.ts \in DataTypes
      <4>1. v.ts \notin ListTypes \cup {CLOSXP}
        BY <3>1, Types
      <4> QED BY <1>4, <2>3, <3>1, <4>1, ObjCallIs
    <3>2. CASE v.ts \in {VECSXP, STRSXP}
      <4>1. v.ts \notin DataTypes \cup {SYMSXP, CHARSXP}
        BY <3>2, Types DEF ListTypes
      <4>2. Len(Parts(v)) = 0
        BY <1>4, <2>3, <3>2, ObjCallIs
      <4>3. Parts(v) \in Seq(Item)
        BY <1>4, PartsFormed
      <4> QED BY <1>4, <4>1, <4>2, <4>3, EmptySeq, ObjCallIs
    <3> QED BY <2>1, <2>4, <3>1, <3>2
  <2>6. Bare(v) = Robj(Ts, <<>>, <<>>)
    BY <1>4, <1>6, <2>2, <2>5
  <2>7. Returns(Bare(v))
    BY <1>4, <1>10, <2>4, <2>6
  <2> QED BY <1>5, <2>1, <2>5, <2>7
<1> QED BY <1>7, <1>8, <1>9, <1>10 DEF decode_one_simple

(* An object with data: they are fetched. *)
LEMMA DecodeFetch ==
  ASSUME Loading, decode_one_fetch
  PROVE  Loading'
<1> USE DEF storeVars
<1>1. IsObject /\ HdrLen > 0 /\ UNCHANGED <<obj, wire, left, calls, medium>>
      /\ \/ Ts \in DataTypes \ {RAWSXP} /\ FetchesData(Ts, HdrLen * Width(Ts))
         \/ Ts \in {SYMSXP, CHARSXP} /\ FetchesData(Ts, HdrLen)
  BY DEF decode_one_fetch, Unchanged
<1>2. PICK cx, z : ReadObject(cx, z)
  BY <1>1, ReadsObject
<1>3. PICK c, v, b : c = cx[1] /\ v = c.v /\ b = ObjCall(v).buf
  OBVIOUS
<1>4. /\ Chain(obj, stack, cx) /\ c \in Context /\ v \in Item /\ c.rest \in Data /\ AttrsDone(v)
      /\ Top = Frame(Top.phase, NILSXP, 0, <<>>, AttrValues(v)) /\ Ts = v.ts
      /\ (v.ts # ENVSXP => HdrLen = ObjCall(v).len)
      /\ Ahead(z) /\ z = b \o (BytesOfAll(Parts(v)) \o c.rest)
  BY <1>2, <1>3 DEF ReadObject
<1>5. v.ts \in (DataTypes \ {RAWSXP}) \cup {SYMSXP, CHARSXP}
  BY <1>1, <1>4
<1>6. v.ts # ENVSXP /\ v.ts \notin ListTypes \cup {CLOSXP}
  BY <1>5, Types
<1>7. HdrLen = ObjCall(v).len /\ Parts(v) = <<>>
  BY <1>4, <1>6, ObjCallIs
<1>8. FetchesData(v.ts, Len(b))
  <2>1. CASE v.ts \in DataTypes
    <3>1. v.ts \notin {SYMSXP, CHARSXP}
      BY <2>1, Types
    <3>2. Len(b) = HdrLen * Width(v.ts)
      BY <1>3, <1>4, <1>7, <2>1, ObjCallIs
    <3> QED BY <1>1, <1>4, <3>1, <3>2
  <2>2. CASE v.ts \notin DataTypes
    <3>1. Len(b) = HdrLen
      BY <1>3, <1>4, <1>5, <1>7, <2>2, ObjCallIs
    <3> QED BY <1>1, <1>4, <2>2, <3>1
  <2> QED BY <2>1, <2>2
<1>9. b \in Data
  BY <1>3, <1>4, ContextIs
<1>10. z = b \o c.rest
  <2>1. BytesOfAll(<<>>) = <<>>
    <3>1. <<>> \in Seq(Item) /\ Len(<<>>) = 0
      OBVIOUS
    <3>2. BytesFrom(<<>>, 0 + 1) = <<>> /\ BytesFrom(<<>>, 1) = BytesOfAll(<<>>)
      BY <3>1, BytesFromIs
    <3> QED BY <3>2
  <2>2. <<>> \o c.rest = c.rest
    BY <1>4, NoData
  <2> QED BY <1>4, <1>7, <2>1, <2>2
<1>11. PICK r, f : r = Top /\ f = [Top EXCEPT !.phase = "data", !.ts = v.ts]
  OBVIOUS
<1>12. f = Frame("data", v.ts, 0, <<>>, AttrValues(v))
  <2>1. IsFrame(r, r.phase, NILSXP, 0, <<>>, AttrValues(v))
    BY <1>4, <1>11 DEF IsFrame
  <2>2. IsFrame(TypeSet(r, "data", v.ts), "data", v.ts, 0, <<>>, AttrValues(v))
    BY ONLY <2>1, TypeSetIs
  <2> QED BY <1>11, <2>2 DEF IsFrame, TypeSet
<1>13. stack' = <<f>> \o Tail(stack) /\ Fetches(Len(b))
  BY <1>8, <1>11 DEF FetchesData
<1>14. PICK st : st = stack
  OBVIOUS
<1>15. Chain(obj, <<f>> \o Tail(st), cx) /\ (<<f>> \o Tail(st))[1] = f
  BY <1>4, <1>14, ChainTop
<1>16. Chain(obj', stack', cx) /\ stack'[1] = f
  BY <1>1, <1>13, <1>14, <1>15
<1>17. Expects(stack'[1], cx[1], b, c.rest)
  BY <1>3, <1>4, <1>5, <1>12, <1>16 DEF Expects
<1>18. PICK q : q = c.rest
  OBVIOUS
<1>19. /\ b \in Data /\ q \in Data /\ z = b \o q /\ Ahead(z) /\ Expects(stack'[1], cx[1], b, q)
  BY <1>4, <1>9, <1>10, <1>17, <1>18
<1> QED BY <1>1, <1>13, <1>16, <1>19, FetchBegins

(* No string is too long for dec_buf, which is what Short says. *)
LEMMA DecodeLong ==
  ASSUME Loading, decode_one_long
  PROVE  FALSE
<1>1. IsObject /\ Ts \in {SYMSXP, CHARSXP} /\ HdrLen >= DEC_BUF_SIZE
  BY DEF decode_one_long
<1>2. PICK cx, z : ReadObject(cx, z)
  BY <1>1, ReadsObject
<1>3. PICK v : v = cx[1].v
  OBVIOUS
<1>4. v \in Item /\ Brief(v) /\ Ts = v.ts /\ (v.ts # ENVSXP => HdrLen = ObjCall(v).len)
  BY <1>2, <1>3 DEF ReadObject
<1>5. v.ts \in {SYMSXP, CHARSXP} /\ v.ts # ENVSXP
  BY <1>1, <1>4, Types
<1>6. ObjCall(v).ts = v.ts /\ ObjCall(v).len \in Nat
  BY <1>4, <1>5, ObjCallIs, MaxLength
<1>7. AllShort(<<ObjCall(v)>>)
  BY <1>4, BriefParts
<1>8. ObjCall(v).len < DEC_BUF_SIZE
  BY <1>5, <1>6, <1>7 DEF AllShort
<1>9. DEC_BUF_SIZE \in Nat
  BY IOAssumption
<1> QED BY <1>1, <1>4, <1>5, <1>6, <1>8, <1>9

(* An object with parts: the loader is called for the first one, or returns. *)
LEMMA DecodeKids ==
  ASSUME Loading, decode_one_kids
  PROVE  Loading'
<1> USE DEF storeVars
<1>1. IsObject /\ UNCHANGED <<obj, wire, left, calls, medium>>
  BY DEF decode_one_kids, Unchanged
<1>2. PICK cx, z : ReadObject(cx, z)
  BY <1>1, ReadsObject
<1>3. PICK c, v, s : c = cx[1] /\ v = c.v /\ s = Parts(v)
  OBVIOUS
<1>4. /\ Chain(obj, stack, cx) /\ c \in Context /\ v \in Item /\ c.rest \in Data /\ AttrsDone(v)
      /\ Brief(v)
      /\ Top = Frame(Top.phase, NILSXP, 0, <<>>, AttrValues(v)) /\ Ts = v.ts
      /\ (v.ts # ENVSXP => HdrLen = ObjCall(v).len)
      /\ Ahead(z) /\ z = ObjCall(v).buf \o (BytesOfAll(s) \o c.rest)
  BY <1>2, <1>3 DEF ReadObject
<1>5. s \in Seq(Item) /\ Len(s) \in Nat /\ DOMAIN s = 1 .. Len(s)
  <2>1. s \in Seq(Item)
    BY <1>3, <1>4, PartsFormed
  <2> QED BY <2>1
<1>6. v.ts \in ListTypes \cup {CLOSXP}
  BY <1>4 DEF decode_one_kids, ListTypes
<1>7. v.ts # ENVSXP /\ v.ts \notin DataTypes \cup {SYMSXP, CHARSXP}
  BY <1>6, Types
<1>8. HdrLen = ObjCall(v).len /\ ObjCall(v).buf = <<>>
  BY <1>4, <1>7, ObjCallIs
<1>9. /\ Len(s) > 0
      /\ Descends([Top EXCEPT !.phase = "kids", !.ts = v.ts, !.want = Len(s)])
  <2>1. CASE Ts \in {VECSXP, STRSXP} /\ HdrLen > 0
             /\ Descends([Top EXCEPT !.phase = "kids", !.ts = Ts, !.want = HdrLen])
    <3>1. HdrLen = Len(s)
      BY <1>3, <1>4, <1>8, <2>1, ObjCallIs
    <3> QED BY <1>4, <1>5, <2>1, <3>1
  <2>2. CASE Ts \in PairTypes /\ HdrLen > 0
             /\ Descends([Top EXCEPT !.phase = "kids", !.ts = Ts, !.want = 2 * HdrLen])
    <3>1. 2 * HdrLen = Len(s)
      BY <1>3, <1>4, <1>8, <2>2, ObjCallIs
    <3>2. HdrLen \in Nat
      BY <1>4, <1>7, <1>8, ObjCallIs, MaxLength
    <3>3. Len(s) > 0
      BY ONLY <2>2, <3>1, <3>2
    <3> QED BY <1>4, <2>2, <3>1, <3>3, Zenon
  <2>3. CASE Ts = CLOSXP /\ Descends([Top EXCEPT !.phase = "kids", !.ts = Ts, !.want = 3])
    <3>1. 3 = Len(s)
      BY <1>3, <1>4, <2>3, ObjCallIs
    <3>2. Len(s) > 0
      BY ONLY <3>1
    <3> QED BY <1>4, <2>3, <3>1, <3>2, Zenon
  <2> QED BY <2>1, <2>2, <2>3 DEF decode_one_kids
<1>10. PICK r, f, k, m : /\ r = Top /\ k = 1 /\ m = Len(s)
                         /\ f = [Top EXCEPT !.phase = "kids", !.ts = v.ts, !.want = Len(s)]
  OBVIOUS
<1>11. f = Frame("kids", v.ts, Len(s), <<>>, AttrValues(v))
  <2>1. IsFrame(r, r.phase, NILSXP, 0, <<>>, AttrValues(v))
    BY <1>4, <1>10 DEF IsFrame
  <2>2. IsFrame(WantSet(r, "kids", v.ts, m), "kids", v.ts, m, <<>>, AttrValues(v))
    BY ONLY <2>1, WantSetIs
  <2> QED BY <1>10, <2>2 DEF IsFrame, WantSet
<1>12. k \in 1 .. Len(s) /\ AllDone(s, k - 1) /\ k - 1 = 0
  BY <1>5, <1>9, <1>10 DEF AllDone
<1>13. PICK after : after = c.rest
  OBVIOUS
<1>14. s \in Seq(Item) /\ after \in Data
  BY <1>4, <1>5, <1>13
<1>15. PICK d : /\ d \in Context /\ Part(s, k, d, after) /\ d.v = s[k]
                /\ BytesFrom(s, k) \o after = BytesOf(d.v) \o d.rest
  <2>1. \E d \in Context : /\ Part(s, k, d, after) /\ d.v = s[k]
                           /\ BytesFrom(s, k) \o after = BytesOf(d.v) \o d.rest
    BY ONLY <1>12, <1>14, NextPart
  <2> QED BY <2>1
<1>16. z = BytesOf(d.v) \o d.rest
  <2>1. BytesFrom(s, 1) = BytesOfAll(s) /\ 1 \in 1 .. Len(s) + 1 /\ BytesFrom(s, k) \in Data
    BY <1>5, <1>10, <1>12, BytesFromIs
  <2> DEFINE q == BytesOfAll(s) \o after
  <2>2. q \in Data
    BY <1>10, <1>14, <2>1, DataConcat
  <2> HIDE DEF q
  <2>3. <<>> \o q = q
    BY <2>2, NoData
  <2> QED BY <1>4, <1>8, <1>10, <1>13, <1>15, <2>1, <2>3 DEF q
<1>17. Waits(f, c, d)
  <2>1. Done(s, 0) = <<>>
    BY <1>5, DoneIs
  <2>2. Done(s, k - 1) = <<>>
    BY <1>12, <2>1
  <2> QED BY <1>3, <1>4, <1>6, <1>11, <1>12, <1>13, <1>15, <2>2 DEF Waits
<1>18. k \in DOMAIN s /\ v \in Item /\ Brief(v) /\ d.v = s[k] /\ s = Parts(v)
  BY <1>3, <1>4, <1>5, <1>12, <1>15
<1>19. Brief(d.v)
  BY ONLY <1>18, BriefParts
<1>20. Restorable[v] => Restorable[d.v]
  BY ONLY <1>18, RestorableIs
<1>21. PICK st : st = stack
  OBVIOUS
<1>22. Chain(obj, st, cx) /\ stack' = <<NewFrame, f>> \o Tail(st) /\ Fetches(HeaderSize)
  BY <1>4, <1>9, <1>10, <1>21 DEF Descends
<1> QED BY <1>1, <1>3, <1>4, <1>15, <1>16, <1>17, <1>19, <1>20, <1>22, Descent

(* Only a type that is not known is an error. *)
LEMMA DecodeError ==
  ASSUME Loading, decode_one_error
  PROVE  Loading'
<1> USE DEF storeVars
<1>1. /\ AtHeader /\ rpc' = "error" /\ UNCHANGED <<obj, medium>>
      /\ \/ Ts \notin {NILSXP, SYMSXP, CLOSXP, ENVSXP, CHARSXP, STRSXP, VECSXP, ATTRSXP}
                      \cup PairTypes \cup (DataTypes \ {RAWSXP})
         \/ Ts # ENVSXP /\ HdrLen = HUGE
  BY DEF decode_one_error, LoadEnds
<1>2. CASE Top.phase = "header" /\ Ts = ATTRSXP
  <2>1. rpc = "fetch" /\ Len(got) = need /\ HdrLen = HUGE
    BY <1>1, <1>2 DEF AtHeader, Fetched
  <2>2. PICK cx, w, z, y : Fetch(cx, w, z, y)
    BY <2>1 DEF Loading
  <2>3. got = w /\ cx[1] \in Context /\ Expects(stack[1], cx[1], w, z)
    BY <2>1, <2>2, AllFetched
  <2>4. PICK c, fr : c = cx[1] /\ fr = stack[1]
    OBVIOUS
  <2>5. c \in Context /\ ExpectsAttr(fr, c, w, z)
    BY <1>2, <2>3, <2>4 DEF Top, Ts, ExpectsAttr
  <2>6. LengthOf(Tail(w)) > 0
    BY ONLY <2>5, AttrRead, Zenon
  <2>7. HdrLen = LengthOf(Tail(w))
    BY <2>3 DEF HdrLen
  <2> QED BY <2>1, <2>6, <2>7 DEF HUGE
<1>3. CASE ~(Top.phase = "header" /\ Ts = ATTRSXP)
  <2>1. IsObject
    BY <1>1, <1>3 DEF IsObject
  <2>2. PICK cx, z : ReadObject(cx, z)
    BY <2>1, ReadsObject
  <2>3. PICK v : v = cx[1].v
    OBVIOUS
  <2>4. /\ v \in Item /\ Ts = v.ts /\ (Restorable[obj] => Restorable[v])
        /\ (v.ts # ENVSXP => HdrLen = ObjCall(v).len)
    BY <2>2, <2>3 DEF ReadObject
  <2>5. ~(Ts # ENVSXP /\ HdrLen = HUGE)
    <3>1. SUFFICES ASSUME v.ts # ENVSXP, ObjCall(v).len = HUGE PROVE FALSE
      BY <2>4
    <3>2. ObjCall(v).len \in 0 .. MAX_LENGTH
      BY <2>4, <3>1, ObjCallIs
    <3> QED BY <3>1, <3>2 DEF HUGE
  <2>6. v.ts \notin Known
    BY <1>1, <2>4, <2>5 DEF Known, ListTypes
  <2>7. ~Restorable[v]
    BY <2>4, <2>6, RestorableIs
  <2> QED BY <1>1, <2>4, <2>7 DEF Loading
<1> QED BY <1>2, <1>3

(* The data of a vector, a name or a string is there. *)
LEMMA DataRead ==
  ASSUME NEW c \in Context, NEW fr, NEW w, NEW z, Expects(fr, c, w, z), fr.phase = "data"
  PROVE  /\ AttrsDone(c.v) /\ c.v.ts \in (DataTypes \ {RAWSXP}) \cup {SYMSXP, CHARSXP}
         /\ fr.ts = c.v.ts /\ fr.attr = AttrValues(c.v)
         /\ w = ObjCall(c.v).buf /\ z = c.rest
<1>1. /\ AttrsDone(c.v)
      /\ c.v.ts \in (DataTypes \ {RAWSXP}) \cup {SYMSXP, CHARSXP}
      /\ fr = Frame("data", c.v.ts, 0, <<>>, AttrValues(c.v))
      /\ w = ObjCall(c.v).buf
      /\ z = c.rest
  <2>1. fr # NewFrame
    BY DEF NewFrame
  <2>2. fr # Frame(IF HasAttrs(c.v) THEN "object" ELSE "header", NILSXP, 0, <<>>, AttrValues(c.v))
    BY DEF Frame
  <2> QED BY <2>1, <2>2 DEF Expects
<1>2. fr.ts = c.v.ts /\ fr.attr = AttrValues(c.v)
  BY <1>1 DEF Frame
<1> QED BY <1>1, <1>2

(* What decode_one makes of the data. *)
LEMMA DataIs ==
  ASSUME NEW v \in Item, v.ts \in DataTypes \cup {SYMSXP, CHARSXP}
  PROVE  /\ Bare(v) = Robj(v.ts, IF v.ts \in DataTypes THEN ObjCall(v).buf
                                 ELSE CString(ObjCall(v).buf), <<>>)
         /\ Parts(v) = <<>>
<1>1. v.ts # ENVSXP /\ v.ts \notin ListTypes \cup {CLOSXP}
  BY Types
<1>2. Parts(v) = <<>>
  BY <1>1, ObjCallIs
<1>3. Values(<<>>) = <<>>
  BY DEF Values, EachOf
<1>4. v.data = IF v.ts \in DataTypes THEN ObjCall(v).buf ELSE CString(ObjCall(v).buf)
  <2>1. CASE v.ts \in DataTypes
    BY <2>1, ObjCallIs
  <2>2. CASE v.ts \notin DataTypes
    <3>1. v \in Robject
      BY DEF Item
    <3>2. WellFormed(v)
      BY <3>1, ObjectAssumption
    <3>3. v.data \in Data /\ \A i \in DOMAIN v.data : v.data[i] # 0
      BY <2>2, <3>2 DEF WellFormed, Data, Byte
    <3>4. CASE ObjCall(v).len # 0
      <4>1. ObjCall(v).buf = Terminated(v.data)
        BY <2>2, <3>4, ObjCallIs
      <4>2. PICK s : s = v.data
        OBVIOUS
      <4>3. s \in Data /\ \A i \in DOMAIN s : s[i] # 0
        BY <3>3, <4>2
      <4>4. CString(Terminated(s)) = s
        BY ONLY <4>3, StringRead
      <4> QED BY <2>2, <4>1, <4>2, <4>4
    <3>5. CASE ObjCall(v).len = 0
      <4>1. v.ts = SYMSXP
        BY <2>2, <3>5, ObjCallIs
      <4>2. v.data = <<>> /\ ObjCall(v).buf = <<>>
        BY <3>5, <4>1, ObjCallIs
      <4>3. CString(<<>>) = <<>>
        <5>1. {i \in DOMAIN <<>> : <<>>[i] = 0} = {}
          OBVIOUS
        <5> QED BY <5>1 DEF CString
      <4> QED BY <2>2, <4>2, <4>3
    <3> QED BY <3>4, <3>5
  <2> QED BY <2>1, <2>2
<1> QED BY <1>1, <1>2, <1>3, <1>4 DEF Bare

(* The data that have been fetched are those of the object. *)
LEMMA DecodeData ==
  ASSUME Loading, decode_one_data
  PROVE  Loading'
<1> USE DEF storeVars
<1>1. /\ rpc = "fetch" /\ Len(got) = need /\ Top.phase = "data"
      /\ Returns(Robj(Top.ts, IF Top.ts \in DataTypes THEN got ELSE CString(got), <<>>))
      /\ UNCHANGED <<obj, wire, left, calls, medium>>
  BY DEF decode_one_data, Fetched, Unchanged
<1>2. PICK cx, w, z, y : Fetch(cx, w, z, y)
  BY <1>1 DEF Loading
<1>3. /\ got = w /\ Ahead(z) /\ Chain(obj, stack, cx) /\ cx[1] \in Context
      /\ Expects(stack[1], cx[1], w, z)
  BY <1>1, <1>2, AllFetched
<1>4. PICK c, fr, v : c = cx[1] /\ fr = stack[1] /\ v = c.v
  OBVIOUS
<1>5. /\ AttrsDone(c.v) /\ c.v.ts \in (DataTypes \ {RAWSXP}) \cup {SYMSXP, CHARSXP}
      /\ fr.ts = c.v.ts /\ fr.attr = AttrValues(c.v)
      /\ w = ObjCall(c.v).buf /\ z = c.rest
  <2>1. c \in Context /\ Expects(fr, c, w, z) /\ fr.phase = "data"
    BY <1>1, <1>3, <1>4 DEF Top
  <2> QED BY ONLY <2>1, DataRead
<1>6. v \in Item
  BY <1>3, <1>4, ContextIs
<1>7. /\ Bare(v) = Robj(v.ts, IF v.ts \in DataTypes THEN ObjCall(v).buf
                              ELSE CString(ObjCall(v).buf), <<>>)
      /\ Parts(v) = <<>>
  BY <1>4, <1>5, <1>6, DataIs
<1>8. Returns(Bare(v))
  BY <1>1, <1>3, <1>4, <1>5, <1>7 DEF Top
<1>9. Restorable[v]
  <2>1. v.ts \in Known
    BY <1>4, <1>5 DEF Known
  <2>2. DOMAIN Parts(v) = {}
    BY <1>7
  <2>3. HasAttrs(v) => \A i \in DOMAIN v.attr : Restorable[v.attr[i]]
    BY <1>4, <1>5 DEF AttrsDone
  <2> QED BY <1>6, <2>1, <2>2, <2>3, RestorableIs
<1>10. /\ Chain(obj, stack, cx) /\ stack[1].attr = AttrValues(cx[1].v) /\ Restorable[cx[1].v]
       /\ z = cx[1].rest /\ Ahead(z) /\ Returns(Bare(cx[1].v))
  BY <1>3, <1>4, <1>5, <1>8, <1>9
<1> QED BY <1>1, <1>10, ReturnBegins

(* One component more is done. *)
LEMMA PartDone ==
  ASSUME NEW s \in Seq(Item), NEW k \in 1 .. Len(s), NEW d, NEW after,
         Part(s, k, d, after), Restorable[d.v]
  PROVE  /\ AllDone(s, k) /\ d.rest = BytesFrom(s, k + 1) \o after
         /\ Append(Done(s, k - 1), Restored[d.v]) = Done(s, k) /\ Len(Done(s, k)) = k
         /\ k \in Nat /\ Len(s) \in Nat
<1>1. Len(s) \in Nat /\ k \in 0 .. Len(s)
  OBVIOUS
<1>2. d.v = s[k] /\ d.rest = BytesFrom(s, k + 1) \o after /\ \A i \in 1 .. k - 1 : Restorable[s[i]]
  BY DEF Part
<1>3. AllDone(s, k)
  <2> SUFFICES ASSUME NEW i \in 1 .. k PROVE Restorable[s[i]]
    BY DEF AllDone
  <2>1. i = k \/ i \in 1 .. k - 1
    BY <1>1
  <2> QED BY <1>2, <2>1
<1>4. Append(Done(s, k - 1), Restored[s[k]]) = Done(s, k) /\ Len(Done(s, k)) = k
  BY <1>1, DoneIs
<1> QED BY <1>1, <1>2, <1>3, <1>4

(* sfs_load is called for the k-th of the components s of the object on top. *)
LEMMA NextComponent ==
  ASSUME NEW CONSTANT st, NEW CONSTANT cx, Chain(obj, st, cx), NEW CONSTANT f,
         NEW CONSTANT s \in Seq(Item), NEW CONSTANT k \in 1 .. Len(s), AllDone(s, k - 1),
         NEW CONSTANT after \in Data, NEW CONSTANT y, Ahead(y), y = BytesFrom(s, k) \o after,
         \A i \in DOMAIN s : Brief(s[i]) /\ (Restorable[cx[1].v] => Restorable[s[i]]),
         \A e \in Context : Part(s, k, e, after) => Waits(f, cx[1], e),
         UNCHANGED <<obj, wire, left, calls, medium>>,
         stack' = <<NewFrame, f>> \o Tail(st), Fetches(HeaderSize)
  PROVE  Loading'
<1>1. PICK d : /\ d \in Context /\ Part(s, k, d, after) /\ d.v = s[k]
               /\ BytesFrom(s, k) \o after = BytesOf(d.v) \o d.rest
  <2>1. \E d \in Context : /\ Part(s, k, d, after) /\ d.v = s[k]
                           /\ BytesFrom(s, k) \o after = BytesOf(d.v) \o d.rest
    <3>1. s \in Seq(Item) /\ after \in Data /\ k \in 1 .. Len(s) /\ AllDone(s, k - 1)
      OBVIOUS
    <3> QED BY ONLY <3>1, NextPart
  <2> QED BY <2>1
<1>2. k \in DOMAIN s
  OBVIOUS
<1>3. Brief(d.v) /\ (Restorable[cx[1].v] => Restorable[d.v]) /\ Waits(f, cx[1], d)
  BY <1>1, <1>2
<1>4. y = BytesOf(d.v) \o d.rest
  BY <1>1
<1> QED BY <1>1, <1>3, <1>4, Descent

(* The frame of a caller gets the result. *)
LEMMA CallerIs ==
  ASSUME NEW p, NEW t, NEW n, NEW k, NEW a, IsFrame(stack[2], p, t, n, k, a)
  PROVE  /\ Caller.phase = p /\ Caller.ts = t /\ Caller.want = n /\ Caller.attr = a
         /\ Caller.kids = Append(k, Result)
         /\ IsFrame(Caller, p, t, n, Append(k, Result), a)
<1>1. PICK g, l : g = stack[2] /\ l = Append(stack[2].kids, Result)
  OBVIOUS
<1>2. IsFrame(g, p, t, n, k, a)
  BY <1>1
<1>3. IsFrame(KidsSet(g, l), p, t, n, l, a)
  BY ONLY <1>2, KidsSetIs
<1>4. Caller = KidsSet(g, l)
  BY <1>1 DEF Caller, KidsSet
<1>5. l = Append(k, Result)
  BY <1>1, <1>2 DEF IsFrame, Frame
<1>6. IsFrame(Caller, p, t, n, Append(k, Result), a)
  BY <1>3, <1>4, <1>5
<1>7. PICK h : h = Caller
  OBVIOUS
<1>8. h = Frame(p, t, n, Append(k, Result), a)
  BY <1>6, <1>7 DEF IsFrame
<1>9. h.phase = p /\ h.ts = t /\ h.want = n /\ h.attr = a /\ h.kids = Append(k, Result)
  BY ONLY <1>8 DEF Frame
<1> QED BY <1>6, <1>7, <1>9

(* What the last sfs_load returns. *)
LEMMA ResultIs ==
  ASSUME NEW cx, Return(cx)
  PROVE  /\ cx[1] \in Context /\ Result = Restored[cx[1].v] /\ cx[1].v.ts \in Known
<1>1. cx \in Seq(Context) /\ Len(cx) > 0
  BY DEF Return, Chain
<1>2. cx[1] \in Context
  BY <1>1
<1>3. PICK v : v = cx[1].v
  OBVIOUS
<1>4. v \in Item /\ Restorable[v]
  BY <1>2, <1>3, ContextIs DEF Return
<1>5. v.ts \in Known
  BY <1>4, RestorableIs
<1>6. Attributed(Bare(v), AttrValues(v)) = Restored[v]
  BY <1>4, <1>5, RestoredIs
<1>7. val = Bare(v) /\ Top.attr = AttrValues(v)
  BY <1>3 DEF Return, Top
<1> QED BY <1>2, <1>3, <1>5, <1>6, <1>7 DEF Result

(* The object itself has been loaded. *)
LEMMA LoadedAll ==
  ASSUME NEW CONSTANT cx, Return(cx), Len(stack) = 1, rpc' = "loaded", val' = Result,
         UNCHANGED <<obj, wire, left, calls, medium>>
  PROVE  Loading'
<1>1. Result = Restored[cx[1].v] /\ Restorable[cx[1].v] /\ Ahead(cx[1].rest)
  BY ResultIs DEF Return
<1>2. cx[1] = [v |-> obj, rest |-> <<>>]
  BY DEF Return, Chain
<1>3. cx[1].v = obj /\ cx[1].rest = <<>>
  BY <1>2
<1>4. PICK y : y = <<>>
  OBVIOUS
<1>5. Ahead(y)'
  <2>1. Ahead(y)
    BY <1>1, <1>3, <1>4
  <2> QED BY <2>1, AheadKeeps
<1>6. Restorable[obj'] /\ val' = Restored[obj'] /\ Ahead(<<>>)'
  BY <1>1, <1>3, <1>4, <1>5
<1> QED BY <1>6 DEF Loading

(* The caller of sfs_load, the k-th of whose components s has been loaded. *)
Called(cx, s, k, after) ==
  /\ Return(cx) /\ Len(stack) > 1
  /\ s \in Seq(Item) /\ k \in 1 .. Len(s) /\ after \in Data
  /\ Part(s, k, cx[1], after)
  /\ \A i \in DOMAIN s : Brief(s[i]) /\ (Restorable[cx[2].v] => Restorable[s[i]])

(* A part that has been loaded is done, and the next one is ahead. *)
LEMMA CalledIs ==
  ASSUME NEW cx, NEW s, NEW k, NEW after, Called(cx, s, k, after)
  PROVE  /\ AllDone(s, k) /\ cx[1].rest = BytesFrom(s, k + 1) \o after
         /\ Append(Done(s, k - 1), Result) = Done(s, k) /\ Len(Done(s, k)) = k
         /\ k \in Nat /\ Len(s) \in Nat
         /\ Ahead(cx[1].rest)
<1>1. PICK d : d = cx[1]
  OBVIOUS
<1>2. /\ s \in Seq(Item) /\ k \in 1 .. Len(s) /\ Part(s, k, d, after) /\ Restorable[d.v]
  BY <1>1 DEF Called, Return
<1>3. /\ AllDone(s, k) /\ d.rest = BytesFrom(s, k + 1) \o after
      /\ Append(Done(s, k - 1), Restored[d.v]) = Done(s, k) /\ Len(Done(s, k)) = k
      /\ k \in Nat /\ Len(s) \in Nat
  BY ONLY <1>2, PartDone
<1>4. Result = Restored[d.v] /\ Ahead(d.rest)
  BY <1>1, ResultIs DEF Called, Return
<1> QED BY <1>1, <1>3, <1>4

(* The next component is loaded. *)
LEMMA ReturnsToNext ==
  ASSUME NEW CONSTANT cx, NEW CONSTANT s, NEW CONSTANT k, NEW CONSTANT after,
         Called(cx, s, k, after), k < Len(s), NEW CONSTANT f,
         \A e \in Context : Part(s, k + 1, e, after) => Waits(f, cx[2], e),
         stack' = <<NewFrame, f>> \o Drop(stack, 2), Fetches(HeaderSize),
         UNCHANGED <<obj, wire, left, calls, medium>>
  PROVE  Loading'
<1>1. PICK st, cy, j, y : /\ st = <<f>> \o Drop(stack, 2) /\ cy = Tail(cx) /\ j = k + 1
                          /\ y = cx[1].rest
  OBVIOUS
<1>2. Chain(obj, stack, cx) /\ Len(stack) > 1
  BY DEF Called, Return
<1>3. Chain(obj, st, cy) /\ Tail(st) = Drop(stack, 2) /\ cy[1] = cx[2]
  BY <1>1, <1>2, ChainPop
<1>4. /\ AllDone(s, k) /\ y = BytesFrom(s, j) \o after /\ Ahead(y) /\ k \in Nat /\ Len(s) \in Nat
  <2>1. Called(cx, s, k, after)
    OBVIOUS
  <2>2. /\ AllDone(s, k) /\ cx[1].rest = BytesFrom(s, k + 1) \o after
        /\ k \in Nat /\ Len(s) \in Nat /\ Ahead(cx[1].rest)
    BY ONLY <2>1, CalledIs
  <2> QED BY <1>1, <2>2
<1>5. j \in 1 .. Len(s) /\ j - 1 = k
  BY <1>1, <1>4
<1>6. /\ s \in Seq(Item) /\ after \in Data
      /\ \A i \in DOMAIN s : Brief(s[i]) /\ (Restorable[cy[1].v] => Restorable[s[i]])
  BY <1>3 DEF Called
<1>7. \A e \in Context : Part(s, j, e, after) => Waits(f, cy[1], e)
  BY <1>1, <1>3
<1>8. AllDone(s, j - 1)
  BY <1>4, <1>5
<1>9. stack' = <<NewFrame, f>> \o Tail(st)
  BY <1>3
<1> QED BY <1>3, <1>4, <1>5, <1>6, <1>7, <1>8, <1>9, NextComponent

(* The bytes after the last component. *)
LEMMA AfterLast ==
  ASSUME NEW cx, NEW s, NEW k, NEW after, Called(cx, s, k, after), k = Len(s)
  PROVE  /\ cx[1].rest = after /\ Done(s, k) = Values(s)
         /\ \A i \in DOMAIN s : Restorable[s[i]]
<1>1. s \in Seq(Item) /\ after \in Data /\ DOMAIN s = 1 .. Len(s)
  BY DEF Called
<1>2. AllDone(s, k) /\ cx[1].rest = BytesFrom(s, k + 1) \o after
  <2>1. Called(cx, s, k, after)
    OBVIOUS
  <2> QED BY ONLY <2>1, CalledIs
<1>3. BytesFrom(s, k + 1) = <<>> /\ Done(s, k) = Values(s)
  BY <1>1, BytesFromIs, DoneIs
<1>4. <<>> \o after = after
  BY <1>1, NoData
<1> QED BY <1>1, <1>2, <1>3, <1>4 DEF AllDone

(* All attributes are loaded, and the header of the object follows. *)
LEMMA ReturnsToObject ==
  ASSUME NEW CONSTANT cx, NEW CONSTANT c, c = cx[2], HasAttrs(c.v),
         Called(cx, c.v.attr, Len(c.v.attr), ObjBytes(c.v) \o c.rest),
         NEW CONSTANT l, l = Done(c.v.attr, Len(c.v.attr)),
         stack' = <<[NewFrame EXCEPT !.phase = "object", !.attr = l]>> \o Drop(stack, 2),
         Fetches(HeaderSize), UNCHANGED <<obj, wire, left, calls, medium>>
  PROVE  Loading'
<1>1. PICK s, k, after : s = c.v.attr /\ k = Len(s) /\ after = ObjBytes(c.v) \o c.rest
  OBVIOUS
<1>2. Called(cx, s, k, after) /\ k = Len(s)
  BY <1>1
<1>3. /\ cx[1].rest = after /\ l = Values(s) /\ \A i \in DOMAIN s : Restorable[s[i]]
  <2>1. cx[1].rest = after /\ Done(s, k) = Values(s) /\ \A i \in DOMAIN s : Restorable[s[i]]
    BY ONLY <1>2, AfterLast
  <2> QED BY <1>1, <2>1
<1>4. AttrsDone(c.v) /\ AttrValues(c.v) = l
  BY <1>1, <1>3 DEF AttrsDone, AttrValues
<1>5. PICK r, f : r = NewFrame /\ f = [NewFrame EXCEPT !.phase = "object", !.attr = l]
  OBVIOUS
<1>6. f = Frame("object", NILSXP, 0, <<>>, AttrValues(c.v))
  <2>1. IsFrame(r, "header", NILSXP, 0, <<>>, <<>>)
    BY <1>5 DEF IsFrame, Frame, NewFrame
  <2>2. IsFrame(AttrSet(r, "object", l), "object", NILSXP, 0, <<>>, l)
    BY ONLY <2>1, AttrSetIs
  <2> QED BY <1>4, <1>5, <2>2 DEF IsFrame, AttrSet
<1>7. PICK cy, y : cy = Tail(cx) /\ y = cx[1].rest
  OBVIOUS
<1>8. Chain(obj, stack, cx) /\ Len(stack) > 1
  BY <1>2 DEF Called, Return
<1>9. /\ Chain(obj, <<f>> \o Drop(stack, 2), cy) /\ (<<f>> \o Drop(stack, 2))[1] = f
      /\ cy[1] = c /\ c \in Context
  <2>1. /\ Chain(obj, <<f>> \o Drop(stack, 2), Tail(cx)) /\ (<<f>> \o Drop(stack, 2))[1] = f
        /\ Tail(cx)[1] = cx[2] /\ cx[2] \in Context
    BY ONLY <1>8, ChainPop
  <2> QED BY <1>7, <2>1
<1>10. Chain(obj', stack', cy) /\ stack'[1] = f
  BY <1>5, <1>9
<1>11. PICK w \in Data, z \in Data :
            /\ Len(w) = HeaderSize
            /\ Expects(Frame(IF HasAttrs(c.v) THEN "object" ELSE "header", NILSXP, 0, <<>>,
                             AttrValues(c.v)), c, w, z)
            /\ w \o z = ObjBytes(c.v) \o c.rest
  BY <1>4, <1>9, ObjectStarts
<1>12. Expects(stack'[1], cy[1], w, z) /\ y = w \o z /\ Fetches(Len(w))
  BY <1>1, <1>3, <1>6, <1>7, <1>9, <1>10, <1>11
<1>13. Ahead(y)
  BY <1>2, <1>7, CalledIs
<1> QED BY <1>10, <1>11, <1>12, <1>13, FetchBegins

(* All components of a list are loaded, and decode_one returns it. *)
LEMMA ReturnsList ==
  ASSUME NEW CONSTANT cx, NEW CONSTANT c, c = cx[2],
         c.v.ts \in ListTypes \cup {CLOSXP}, AttrsDone(c.v),
         Called(cx, Parts(c.v), Len(Parts(c.v)), c.rest),
         NEW CONSTANT f, f.attr = AttrValues(c.v),
         stack' = <<f>> \o Drop(stack, 2),
         val' = Robj(c.v.ts, <<>>, Done(Parts(c.v), Len(Parts(c.v)))),
         rpc' = "return", UNCHANGED <<obj, wire, left, calls, medium>>
  PROVE  Loading'
<1>1. PICK s, k, after, v : s = Parts(c.v) /\ k = Len(s) /\ after = c.rest /\ v = c.v
  OBVIOUS
<1>2. Called(cx, s, k, after) /\ k = Len(s)
  BY <1>1
<1>3. /\ cx[1].rest = after /\ Done(s, k) = Values(s) /\ \A i \in DOMAIN s : Restorable[s[i]]
  BY ONLY <1>2, AfterLast
<1>4. PICK cy, y : cy = Tail(cx) /\ y = cx[1].rest
  OBVIOUS
<1>5. Chain(obj, stack, cx) /\ Len(stack) > 1
  BY <1>2 DEF Called, Return
<1>6. /\ Chain(obj, <<f>> \o Drop(stack, 2), cy) /\ (<<f>> \o Drop(stack, 2))[1] = f
      /\ cy[1] = c /\ c \in Context
  <2>1. /\ Chain(obj, <<f>> \o Drop(stack, 2), Tail(cx)) /\ (<<f>> \o Drop(stack, 2))[1] = f
        /\ Tail(cx)[1] = cx[2] /\ cx[2] \in Context
    BY ONLY <1>5, ChainPop
  <2> QED BY <1>4, <2>1
<1>7. v \in Item
  BY <1>1, <1>6, ContextIs
<1>8. v.ts \in ListTypes \cup {CLOSXP} /\ v.ts # ENVSXP
      /\ v.ts \notin DataTypes \cup {SYMSXP, CHARSXP}
  BY <1>1, Types
<1>9. val' = Bare(v)
  <2>1. v \in Robject
    BY <1>7 DEF Item
  <2>2. WellFormed(v)
    BY <2>1, ObjectAssumption
  <2>3. v.data = <<>>
    BY <1>8, <2>2 DEF WellFormed
  <2> QED BY <1>1, <1>3, <1>8, <2>3 DEF Bare
<1>10. Restorable[v]
  <2>1. v.ts \in Known
    BY <1>8 DEF Known
  <2>2. HasAttrs(v) => \A i \in DOMAIN v.attr : Restorable[v.attr[i]]
    BY <1>1 DEF AttrsDone
  <2>3. \A i \in DOMAIN Parts(v) : Restorable[Parts(v)[i]]
    BY <1>1, <1>3
  <2> QED BY <1>7, <2>1, <2>2, <2>3, RestorableIs
<1>11. Ahead(y)'
  <2>1. Ahead(y)
    BY <1>2, <1>4, CalledIs
  <2> QED BY <2>1, AheadKeeps
<1>12. y = cy[1].rest
  BY <1>1, <1>3, <1>4, <1>6
<1>13. Chain(obj', stack', cy) /\ stack'[1] = f
  BY <1>6
<1>14. Return(cy)'
  BY <1>1, <1>6, <1>9, <1>10, <1>11, <1>12, <1>13 DEF Return
<1> QED BY <1>14 DEF Loading

(* What is known of the components of an object with its caller. *)
LEMMA CalledFor ==
  ASSUME NEW cx, Return(cx), Len(stack) > 1
  PROVE  /\ cx[1] \in Context /\ cx[2] \in Context
         /\ Waits(stack[2], cx[2], cx[1])
         /\ Brief(cx[2].v)
<1>1. Chain(obj, stack, cx)
  BY DEF Return
<1>2. cx[1] \in Context /\ cx[2] \in Context /\ Waits(stack[2], cx[2], cx[1])
  BY <1>1, ChainPop
<1>3. Brief(cx[2].v)
  <2>1. cx \in Seq(Context) /\ Len(cx) > 1
    BY <1>1 DEF Chain
  <2>2. 2 \in 1 .. Len(cx)
    BY <2>1
  <2> QED BY <1>1, <2>2 DEF Chain
<1> QED BY <1>2, <1>3

(* A return to the frame that collects attributes, to the one that collects parts,
   and in general. *)
LEMMA ReturnsAttr ==
  ASSUME NEW CONSTANT cx, NEW CONSTANT c, NEW CONSTANT k,
         Return(cx), Len(stack) > 1, c = cx[2], HasAttrs(c.v), k \in 1 .. Len(c.v.attr),
         IsFrame(stack[2], "attr", ATTRSXP, Len(c.v.attr), Done(c.v.attr, k - 1), <<>>),
         Part(c.v.attr, k, cx[1], ObjBytes(c.v) \o c.rest),
         sfs_load_returns
  PROVE  Loading'
<1> USE DEF storeVars
<1>1. PICK s, after, v : s = c.v.attr /\ after = ObjBytes(c.v) \o c.rest /\ v = c.v
  OBVIOUS
<1>2. c \in Context /\ v \in Item /\ Brief(v) /\ HasAttrs(v) /\ s = v.attr
  BY <1>1, CalledFor, ContextIs
<1>3. s \in Seq(Item) /\ after \in Data
  <2>1. ObjBytes(c.v) \in Data /\ c.rest \in Data
    BY <1>2, ContextIs
  <2> QED BY <1>1, <1>2, <2>1, PartsFormed, DataConcat
<1>4. \A i \in DOMAIN s : Brief(s[i]) /\ (Restorable[v] => Restorable[s[i]])
  BY <1>2, BriefParts, RestorableIs
<1>5. Called(cx, s, k, after)
  BY <1>1, <1>3, <1>4 DEF Called
<1>6. /\ AllDone(s, k)
      /\ Append(Done(s, k - 1), Result) = Done(s, k) /\ Len(Done(s, k)) = k
      /\ k \in Nat /\ Len(s) \in Nat
  BY ONLY <1>5, CalledIs
<1>7. /\ Caller.phase = "attr" /\ Caller.want = Len(s) /\ Caller.kids = Done(s, k)
      /\ IsFrame(Caller, "attr", ATTRSXP, Len(s), Done(s, k), <<>>)
  <2>1. PICK l, n : l = Done(s, k - 1) /\ n = Len(s)
    OBVIOUS
  <2>2. IsFrame(stack[2], "attr", ATTRSXP, n, l, <<>>)
    BY <1>1, <2>1
  <2>3. /\ Caller.phase = "attr" /\ Caller.want = n /\ Caller.kids = Append(l, Result)
        /\ IsFrame(Caller, "attr", ATTRSXP, n, Append(l, Result), <<>>)
    BY ONLY <2>2, CallerIs
  <2> QED BY <1>6, <2>1, <2>3
<1>8. Complete <=> k = Len(s)
  BY <1>6, <1>7 DEF Complete
<1>9. UNCHANGED <<obj, wire, left, calls, medium>>
  BY DEF sfs_load_returns, Unchanged
<1>10. PICK f : f = Caller
  OBVIOUS
<1>11. CASE ~Complete
  <2>1. stack' = <<NewFrame, f>> \o Drop(stack, 2) /\ Fetches(HeaderSize)
    BY <1>10, <1>11 DEF sfs_load_returns
  <2>2. k < Len(s)
    BY <1>5, <1>6, <1>8, <1>11 DEF Called
  <2>3. ASSUME NEW e \in Context, Part(s, k + 1, e, after) PROVE Waits(f, c, e)
    <3>1. PICK j : j = k + 1
      OBVIOUS
    <3>2. j \in 1 .. Len(s) /\ j - 1 = k
      BY <1>6, <2>2, <3>1
    <3>3. f = Frame("attr", ATTRSXP, Len(s), Done(s, j - 1), <<>>) /\ Part(s, j, e, after)
      BY <1>7, <1>10, <2>3, <3>1, <3>2 DEF IsFrame
    <3> QED BY <1>1, <3>2, <3>3 DEF Waits
  <2> QED BY <1>5, <1>9, <2>1, <2>2, <2>3, ReturnsToNext
<1>12. CASE Complete
  <2>1. k = Len(s)
    BY <1>8, <1>12
  <2>2. PICK l : l = Done(s, k)
    OBVIOUS
  <2>3. /\ stack' = <<[NewFrame EXCEPT !.phase = "object", !.attr = l]>> \o Drop(stack, 2)
        /\ Fetches(HeaderSize)
    BY <1>7, <1>12, <2>2 DEF sfs_load_returns
  <2>4. Called(cx, c.v.attr, Len(c.v.attr), ObjBytes(c.v) \o c.rest)
        /\ l = Done(c.v.attr, Len(c.v.attr))
    BY <1>1, <1>5, <2>1, <2>2
  <2> QED BY <1>9, <2>3, <2>4, ReturnsToObject
<1> QED BY <1>11, <1>12

LEMMA ReturnsKid ==
  ASSUME NEW CONSTANT cx, NEW CONSTANT c, NEW CONSTANT k,
         Return(cx), Len(stack) > 1, c = cx[2],
         c.v.ts \in ListTypes \cup {CLOSXP}, AttrsDone(c.v), k \in 1 .. Len(Parts(c.v)),
         IsFrame(stack[2], "kids", c.v.ts, Len(Parts(c.v)), Done(Parts(c.v), k - 1), AttrValues(c.v)),
         Part(Parts(c.v), k, cx[1], c.rest),
         sfs_load_returns
  PROVE  Loading'
<1> USE DEF storeVars
<1>1. PICK s, after, v, a, t : /\ s = Parts(c.v) /\ after = c.rest /\ v = c.v
                               /\ a = AttrValues(c.v) /\ t = c.v.ts
  OBVIOUS
<1>2. c \in Context /\ v \in Item /\ Brief(v) /\ s = Parts(v)
  BY <1>1, CalledFor, ContextIs
<1>3. s \in Seq(Item) /\ after \in Data
  BY <1>1, <1>2, ContextIs, PartsFormed
<1>4. \A i \in DOMAIN s : Brief(s[i]) /\ (Restorable[v] => Restorable[s[i]])
  BY <1>2, BriefParts, RestorableIs
<1>5. Called(cx, s, k, after)
  BY <1>1, <1>3, <1>4 DEF Called
<1>6. /\ AllDone(s, k)
      /\ Append(Done(s, k - 1), Result) = Done(s, k) /\ Len(Done(s, k)) = k
      /\ k \in Nat /\ Len(s) \in Nat
  BY ONLY <1>5, CalledIs
<1>7. /\ Caller.phase = "kids" /\ Caller.want = Len(s) /\ Caller.kids = Done(s, k)
      /\ Caller.ts = t /\ Caller.attr = a
      /\ IsFrame(Caller, "kids", t, Len(s), Done(s, k), a)
  <2>1. PICK l, n : l = Done(s, k - 1) /\ n = Len(s)
    OBVIOUS
  <2>2. IsFrame(stack[2], "kids", t, n, l, a)
    BY <1>1, <2>1
  <2>3. /\ Caller.phase = "kids" /\ Caller.want = n /\ Caller.kids = Append(l, Result)
        /\ Caller.ts = t /\ Caller.attr = a
        /\ IsFrame(Caller, "kids", t, n, Append(l, Result), a)
    BY ONLY <2>2, CallerIs
  <2> QED BY <1>6, <2>1, <2>3
<1>8. Complete <=> k = Len(s)
  BY <1>6, <1>7 DEF Complete
<1>9. UNCHANGED <<obj, wire, left, calls, medium>>
  BY DEF sfs_load_returns, Unchanged
<1>10. PICK f : f = Caller
  OBVIOUS
<1>11. CASE ~Complete
  <2>1. stack' = <<NewFrame, f>> \o Drop(stack, 2) /\ Fetches(HeaderSize)
    BY <1>10, <1>11 DEF sfs_load_returns
  <2>2. k < Len(s)
    BY <1>5, <1>6, <1>8, <1>11 DEF Called
  <2>3. ASSUME NEW e \in Context, Part(s, k + 1, e, after) PROVE Waits(f, c, e)
    <3>1. PICK j : j = k + 1
      OBVIOUS
    <3>2. j \in 1 .. Len(s) /\ j - 1 = k
      BY <1>6, <2>2, <3>1
    <3>3. f = Frame("kids", t, Len(s), Done(s, j - 1), a) /\ Part(s, j, e, after)
      BY <1>7, <1>10, <2>3, <3>1, <3>2 DEF IsFrame
    <3> QED BY <1>1, <3>2, <3>3 DEF Waits
  <2> QED BY <1>5, <1>9, <2>1, <2>2, <2>3, ReturnsToNext
<1>12. CASE Complete
  <2>1. k = Len(s)
    BY <1>8, <1>12
  <2>2. PICK l : l = Done(s, k)
    OBVIOUS
  <2>3. /\ stack' = <<f>> \o Drop(stack, 2) /\ val' = Robj(t, <<>>, l) /\ rpc' = "return"
        /\ f.attr = a
    BY <1>7, <1>10, <1>12, <2>2 DEF sfs_load_returns
  <2>4. Called(cx, Parts(c.v), Len(Parts(c.v)), c.rest)
        /\ l = Done(Parts(c.v), Len(Parts(c.v)))
    BY <1>1, <1>5, <2>1, <2>2
  <2>5. f.attr = AttrValues(c.v) /\ val' = Robj(c.v.ts, <<>>, Done(Parts(c.v), Len(Parts(c.v))))
    BY <1>1, <2>3, <2>4
  <2> QED BY <1>9, <2>3, <2>4, <2>5, ReturnsList
<1> QED BY <1>11, <1>12

LEMMA LoadReturnsTo ==
  ASSUME Loading, sfs_load_returns
  PROVE  Loading'
<1> USE DEF storeVars
<1>1. rpc = "return" /\ UNCHANGED <<obj, wire, left, calls, medium>>
  BY DEF sfs_load_returns, Unchanged
<1>2. PICK cx : Return(cx)
  BY <1>1 DEF Loading
<1>3. CASE Len(stack) = 1
  <2>1. rpc' = "loaded" /\ val' = Result
    BY <1>3 DEF sfs_load_returns
  <2> QED BY <1>1, <1>2, <1>3, <2>1, LoadedAll
<1>4. CASE Len(stack) # 1
  <2>0. Len(stack) > 1
    BY <1>4 DEF sfs_load_returns
  <2>1. PICK c, d : c = cx[2] /\ d = cx[1]
    OBVIOUS
  <2>2. Waits(stack[2], c, d)
    BY <1>2, <2>0, <2>1, CalledFor
  <2>3. CASE /\ HasAttrs(c.v)
             /\ \E k \in 1 .. Len(c.v.attr) :
                  /\ stack[2] = Frame("attr", ATTRSXP, Len(c.v.attr), Done(c.v.attr, k - 1), <<>>)
                  /\ Part(c.v.attr, k, d, ObjBytes(c.v) \o c.rest)
    <3>1. PICK k \in 1 .. Len(c.v.attr) :
                  /\ stack[2] = Frame("attr", ATTRSXP, Len(c.v.attr), Done(c.v.attr, k - 1), <<>>)
                  /\ Part(c.v.attr, k, d, ObjBytes(c.v) \o c.rest)
      BY <2>3
    <3>2. IsFrame(stack[2], "attr", ATTRSXP, Len(c.v.attr), Done(c.v.attr, k - 1), <<>>)
      BY <3>1 DEF IsFrame
    <3> QED BY <1>2, <2>0, <2>1, <2>3, <3>1, <3>2, ReturnsAttr
  <2>4. CASE /\ c.v.ts \in ListTypes \cup {CLOSXP}
             /\ AttrsDone(c.v)
             /\ \E k \in 1 .. Len(Parts(c.v)) :
                  /\ stack[2] = Frame("kids", c.v.ts, Len(Parts(c.v)), Done(Parts(c.v), k - 1),
                                      AttrValues(c.v))
                  /\ Part(Parts(c.v), k, d, c.rest)
    <3>1. PICK k \in 1 .. Len(Parts(c.v)) :
                  /\ stack[2] = Frame("kids", c.v.ts, Len(Parts(c.v)), Done(Parts(c.v), k - 1),
                                      AttrValues(c.v))
                  /\ Part(Parts(c.v), k, d, c.rest)
      BY <2>4
    <3>2. IsFrame(stack[2], "kids", c.v.ts, Len(Parts(c.v)), Done(Parts(c.v), k - 1), AttrValues(c.v))
      BY <3>1 DEF IsFrame
    <3> QED BY <1>2, <2>0, <2>1, <2>4, <3>1, <3>2, ReturnsKid
  <2> QED BY <2>2, <2>3, <2>4 DEF Waits
<1> QED BY <1>3, <1>4

(* At the start all bytes of the object are ahead. *)
LEMMA LoadBegins ==
  ASSUME SinksInv, IdleInv, Short, load_begins
  PROVE  Loading'
<1> USE DEF storeVars
<1>1. /\ rpc = "idle" /\ Loadable /\ stack' = <<NewFrame>> /\ Fetches(HeaderSize)
      /\ UNCHANGED <<obj, wire, left, calls, medium>>
  BY DEF load_begins, Loadable
<1>2. PICK o, y, cx, c : /\ o = obj /\ y = BytesOf(obj)
                         /\ c = [v |-> obj, rest |-> <<>>] /\ cx = <<c>>
  OBVIOUS
<1>3. Ahead(y)
  BY <1>1, <1>2 DEF IdleInv, Loadable
<1>4. o \in Item /\ CallsFor(o) = All /\ y \in Data
  <2>1. obj \in Object
    BY DEF SinksInv, CallsInv
  <2> QED BY <1>2, <2>1, ObjectIs, CallsForTyped
<1>5. c \in Context /\ c.v = o /\ c.rest = <<>>
  <2>1. <<>> \in Data
    BY <1>4, NoData
  <2> QED BY <1>2, <1>4, <2>1 DEF Context
<1>6. Brief(o)
  BY <1>4 DEF Brief, AllShort, Short, All
<1>7. Chain(o, <<NewFrame>>, cx)
  <2>1. PICK n : n = NewFrame
    OBVIOUS
  <2>2. <<n>> \in Seq({n}) /\ Len(<<n>>) = 1
    OBVIOUS
  <2>3. IsSeq(<<NewFrame>>) /\ Len(<<NewFrame>>) = 1
    BY <2>1, <2>2 DEF IsSeq
  <2>4. cx \in Seq(Context) /\ Len(cx) = 1 /\ cx[1] = c
    BY <1>2, <1>5
  <2>5. cx[Len(cx)] = [v |-> o, rest |-> <<>>]
    BY <1>2, <2>4
  <2>6. \A i \in 1 .. Len(cx) : Brief(cx[i].v) /\ (Restorable[o] => Restorable[cx[i].v])
    <3> SUFFICES ASSUME NEW i \in 1 .. Len(cx)
                 PROVE  Brief(cx[i].v) /\ (Restorable[o] => Restorable[cx[i].v])
      OBVIOUS
    <3>1. i = 1
      BY <2>4
    <3> QED BY <1>5, <1>6, <2>4, <3>1
  <2>7. 2 .. Len(cx) = {}
    BY <2>4
  <2> QED BY <2>3, <2>4, <2>5, <2>6, <2>7 DEF Chain
<1>8. PICK w \in Data, z \in Data :
            /\ Len(w) = HeaderSize
            /\ Expects(NewFrame, c, w, z)
            /\ w \o z = BytesOf(c.v) \o c.rest
  BY <1>5, Starts
<1>9. y = w \o z
  <2>1. y \o <<>> = y
    BY <1>4, NoData
  <2> QED BY <1>2, <1>5, <1>8, <2>1
<1>10. /\ Chain(obj', stack', cx) /\ Expects(stack'[1], cx[1], w, z) /\ Fetches(Len(w))
  <2>1. stack'[1] = NewFrame /\ cx[1] = c
    <3>1. PICK n : n = NewFrame
      OBVIOUS
    <3> QED BY <1>1, <1>2, <3>1
  <2> QED BY <1>1, <1>2, <1>7, <1>8, <2>1
<1> QED BY <1>1, <1>3, <1>8, <1>9, <1>10, FetchBegins

(* What a store does to a load that runs at the same time. *)
LEMMA StoreLoading ==
  ASSUME WriterInv, Loading, sfs_store
  PROVE  Loading'
<1>1. UNCHANGED <<obj, sink, rpc, stack, need, got, val>>
  BY StoreKeeps
<1>2. CASE rpc \notin {"fetch", "return", "loaded", "error"}
  BY <1>1, <1>2 DEF Loading
<1>3. CASE rpc \in {"fetch", "return", "loaded", "error"}
  <2>1. sink = "sock"
    BY <1>3, StoreKeeps
  <2>2. CASE rpc = "fetch"
    <3>1. PICK cx, w, z, y : Fetch(cx, w, z, y)
      BY <2>2 DEF Loading
    <3>2. Ahead(y)'
      BY <2>1, <3>1, WriterAhead DEF Fetch
    <3>3. Fetch(cx, w, z, y)'
      BY <1>1, <3>1, <3>2 DEF Fetch
    <3> QED BY <1>1, <2>2, <3>3 DEF Loading
  <2>3. CASE rpc = "return"
    <3>1. PICK cx : Return(cx)
      BY <2>3 DEF Loading
    <3>2. PICK y : y = cx[1].rest
      OBVIOUS
    <3>3. Ahead(y)'
      <4>1. Ahead(y)
        BY <3>1, <3>2 DEF Return
      <4> QED BY <2>1, <4>1, WriterAhead
    <3>4. Return(cx)'
      BY <1>1, <3>1, <3>2, <3>3 DEF Return
    <3> QED BY <1>1, <2>3, <3>4 DEF Loading
  <2>4. CASE rpc = "loaded"
    <3>1. PICK y : y = <<>>
      OBVIOUS
    <3>2. Ahead(y)'
      <4>1. Ahead(y)
        BY <2>4, <3>1 DEF Loading
      <4> QED BY <2>1, <4>1, WriterAhead
    <3>3. Ahead(<<>>)'
      BY <3>1, <3>2
    <3> QED BY <1>1, <2>4, <3>3 DEF Loading
  <2>5. CASE rpc = "error"
    <3>1. Damaged => Damaged'
      BY DEF sfs_store, mem_add_buf, C_mem_store, stat_add, C_stat_store, fd_write_header,
             fd_write_header_fails, fd_write_header_short, fd_write_data, fd_write_data_fails,
             C_file_store, http_store_malloc, http_add, http_store, Breaks, Damaged
    <3> QED BY <1>1, <2>5, <3>1 DEF Loading
  <2> QED BY <1>3, <2>2, <2>3, <2>4, <2>5
<1> QED BY <1>2, <1>3

LEMMA IdleLoading ==
  ASSUME Loading, UNCHANGED vars
  PROVE  Loading'
<1>1. UNCHANGED <<obj, sink, wire, left, calls, medium, rpc, stack, need, got, val>>
  BY DEF vars, storeVars, loadVars
<1>2. ASSUME NEW CONSTANT cx, NEW CONSTANT w, NEW CONSTANT z, NEW CONSTANT y, Fetch(cx, w, z, y)
      PROVE  Fetch(cx, w, z, y)'
  <2>1. Ahead(y)'
    BY <1>1, <1>2, AheadKeeps DEF Fetch
  <2> QED BY <1>1, <1>2, <2>1 DEF Fetch
<1>3. ASSUME NEW CONSTANT cx, Return(cx)
      PROVE  Return(cx)'
  <2>1. PICK y : y = cx[1].rest
    OBVIOUS
  <2>2. Ahead(y)'
    BY <1>1, <1>3, <2>1, AheadKeeps DEF Return
  <2> QED BY <1>1, <1>3, <2>1, <2>2 DEF Return
<1>4. Ahead(<<>>) => Ahead(<<>>)'
  <2>1. PICK y : y = <<>>
    OBVIOUS
  <2>2. Ahead(y) => Ahead(y)'
    BY <1>1, AheadKeeps
  <2> QED BY <2>1, <2>2
<1> QED BY <1>1, <1>2, <1>3, <1>4 DEF Loading, Damaged

(* The invariant of the load. *)
LEMMA LoadStep ==
  ASSUME SinksInv, WriterInv, IdleInv, LoadInv, [Next]_vars
  PROVE  LoadInv'
<1>1. UNCHANGED obj
  BY DEF Next, vars, sfs_store, mem_add_buf, C_mem_store, stat_add, C_stat_store, fd_write_header,
         fd_write_header_fails, fd_write_header_short, fd_write_data, fd_write_data_fails,
         C_file_store, http_store_malloc, http_add, http_store,
         sfs_load, load_begins, fetch_buf, fetch_read, fetch_closed, fetch_error, fetch_interrupted,
         sfs_load_attributes, decode_one_simple, decode_one_fetch, decode_one_long, decode_one_kids,
         decode_one_error, decode_one_data, sfs_load_returns, LoadEnds, Unchanged
<1> SUFFICES ASSUME Short PROVE Loading'
  BY <1>1 DEF LoadInv, Short
<1>2. Loading
  BY DEF LoadInv
<1>3. CASE sfs_store
  BY <1>2, <1>3, StoreLoading
<1>4. CASE load_begins
  BY <1>4, LoadBegins
<1>5. CASE fetch_buf
  BY <1>2, <1>5, FetchBuf
<1>6. CASE \E n \in 1 .. Len(wire) : fetch_read(n)
  BY <1>2, <1>6, FetchRead
<1>7. CASE fetch_closed \/ fetch_error \/ fetch_interrupted
  BY <1>2, <1>7, FetchEnds
<1>8. CASE sfs_load_attributes
  BY <1>2, <1>8, LoadAttributes
<1>9. CASE decode_one_simple
  BY <1>2, <1>9, DecodeSimple
<1>10. CASE decode_one_fetch
  BY <1>2, <1>10, DecodeFetch
<1>11. CASE decode_one_long
  BY <1>2, <1>11, DecodeLong
<1>12. CASE decode_one_kids
  BY <1>2, <1>12, DecodeKids
<1>13. CASE decode_one_error
  BY <1>2, <1>13, DecodeError
<1>14. CASE decode_one_data
  BY <1>2, <1>14, DecodeData
<1>15. CASE sfs_load_returns
  BY <1>2, <1>15, LoadReturnsTo
<1>16. CASE UNCHANGED vars
  BY <1>2, <1>16, IdleLoading
<1> QED BY <1>3, <1>4, <1>5, <1>6, <1>7, <1>8, <1>9, <1>10, <1>11, <1>12, <1>13, <1>14, <1>15, <1>16
        DEF Next, sfs_load

(* What is loaded is what was stored, whatever the object, the source and the
   sizes of writes, reads and buffers; the load ends at the last byte of the
   object; it fails only with the medium or for a type that the loader does not
   know.  Zeroed matters over HTTP only: http_store does not initialise pos. *)
THEOREM LoadsWhatWasStored ==
  ASSUME Zeroed
  PROVE  Spec => []RoundTrip
<1> DEFINE IInv == SinksInv /\ WriterInv /\ IdleInv /\ LoadInv
<1>1. Init => IInv
  <2>1. Init => rpc = "idle"
    BY DEF Init
  <2>2. rpc = "idle" => LoadInv
    BY DEF LoadInv, Loading
  <2> QED BY <2>1, <2>2, SinksInit, WriterInit
<1>2. IInv /\ [Next]_vars => IInv'
  BY Zeroed, SinksStep, WriterStep, IdleStep, LoadStep
<1>3. IInv => RoundTrip
  <2> SUFFICES ASSUME LoadInv, Short
               PROVE  /\ rpc = "loaded" =>
                           /\ Restorable[obj]
                           /\ val = Restored[obj]
                           /\ wire = <<>> /\ left = <<>> /\ calls = <<>>
                      /\ rpc = "error" => Damaged \/ ~Restorable[obj]
    BY DEF RoundTrip
  <2>1. Loading
    BY DEF LoadInv
  <2>2. (rpc = "loaded" => Restorable[obj] /\ val = Restored[obj] /\ Ahead(<<>>))
        /\ (rpc = "error" => Damaged \/ ~Restorable[obj])
    BY <2>1 DEF Loading
  <2>3. Ahead(<<>>) => wire = <<>> /\ left = <<>> /\ calls = <<>>
    BY NothingAhead
  <2> QED BY <2>2, <2>3
<1> QED BY <1>1, <1>2, <1>3, PTL DEF Spec
=============================================================================
