----------------------------- MODULE HttpProofs -----------------------------
(***************************************************************************)
(* The body of an HTTP request has one owner, and the request is handled   *)
(* as it was sent and answered once, for any requests, blocks and buffer   *)
(* sizes: proofs about module Http.                                        *)
(*                                                                         *)
(* A body passes from malloc to the request and from there to the store,   *)
(* to the queue or back to malloc, and nothing the parser reads makes it   *)
(* longer than the block that was allocated for it.  That holds however    *)
(* the stream is cut.  The second part is about streams in which recv does *)
(* not separate a CR from its LF: what the line buffer and the stream hold *)
(* together is, at every place of the parser, the rest of the request that *)
(* has not been understood yet.                                            *)
(***************************************************************************)
EXTENDS Http, ListLemmas, FiniteSetTheorems

-----------------------------------------------------------------------------
(* The inductive invariant.                                                *)

(* The elements of a stream, http_request_t, and the objects in the store. *)
Element ==
  [t : {"cr", "lf", "filler"}]
  \cup [t : {"request"}, method : Method, path : Path, v10 : BOOLEAN]
  \cup [t : {"header"}, name : {"host", "content-length", "connection"}, n : Int]
  \cup [t : {"byte"}, b : Nat]
Parsed ==
  [method : Method \cup {"none"}, path : Path \cup {NULL}, v10 : BOOLEAN, host : BOOLEAN,
   close : BOOLEAN, length : Int, body : Block \cup {NULL}]
Object == [kind : {"raw", "sfs"}, block : Block \cup {NULL}]

Types ==
  /\ up \in Seq(Element) /\ line_buf \in Seq(Element) /\ body \in Seq(Element)
  /\ req \in Parsed
  /\ store \in Seq(Object) /\ queue \in Seq(Block)

(* A body is allocated when the head has been parsed, not before. *)
Allocated ==
  /\ pc \in {"recv", "parse", "end"} => req.body = NULL
  /\ pc = "body" => req.body # NULL

(* No block belongs to two of the objects st, the queue entries qu, the request
   that owns b and the free blocks f. *)
Apart(st, qu, b, f) ==
  /\ \A i, j \in DOMAIN st : i # j /\ st[i].block # NULL => st[i].block # st[j].block
  /\ \A i, j \in DOMAIN qu : i # j => qu[i] # qu[j]
  /\ \A i \in DOMAIN st, j \in DOMAIN qu : st[i].block # qu[j]
  /\ \A i \in DOMAIN st : st[i].block # NULL => st[i].block # b /\ st[i].block \notin f
  /\ \A j \in DOMAIN qu : qu[j] # b /\ qu[j] \notin f
  /\ b \notin f

IInv == TypeOK /\ Types /\ Allocated /\ Apart(store, queue, req.body, free)

-----------------------------------------------------------------------------
(* Sequences.                                                              *)

(* The two parts of a stream that is cut. *)
LEMMA TakeDrop ==
  ASSUME NEW S, NEW s \in Seq(S), NEW n \in 0 .. Len(s)
  PROVE  /\ Take(s, n) \in Seq(S) /\ Len(Take(s, n)) = n
         /\ Drop(s, n) \in Seq(S) /\ Len(Drop(s, n)) = Len(s) - n
         /\ \A i \in 1 .. n : Take(s, n)[i] = s[i]
<1>1. Len(s) \in Nat /\ \A i \in 1 .. Len(s) : s[i] \in S
  BY ElementOfSeq, LenProperties
<1>2. Take(s, n) \in Seq(S) /\ Len(Take(s, n)) = n /\ \A i \in 1 .. n : Take(s, n)[i] = s[i]
  <2>1. \A i \in 1 .. n : s[i] \in S BY <1>1
  <2>2. n \in Int /\ 1 \in Int OBVIOUS
  <2>3. /\ SubSeq(s, 1, n) \in Seq(S)
        /\ Len(SubSeq(s, 1, n)) = IF 1 <= n THEN n - 1 + 1 ELSE 0
        /\ \A i \in 1 .. n - 1 + 1 : SubSeq(s, 1, n)[i] = s[1 + i - 1]
    BY <2>1, <2>2, SubSeqProperties
  <2> QED BY <1>1, <2>3 DEF Take
<1>3. Drop(s, n) \in Seq(S) /\ Len(Drop(s, n)) = Len(s) - n
  <2>1. \A i \in n + 1 .. Len(s) : s[i] \in S BY <1>1
  <2>2. n + 1 \in Int /\ Len(s) \in Int BY <1>1
  <2>3. /\ SubSeq(s, n + 1, Len(s)) \in Seq(S)
        /\ Len(SubSeq(s, n + 1, Len(s))) = IF n + 1 <= Len(s) THEN Len(s) - (n + 1) + 1 ELSE 0
    BY <2>1, <2>2, SubSeqProperties
  <2> QED BY <1>1, <2>3 DEF Drop
<1> QED BY <1>2, <1>3

(* What SelectInSeq finds is a position. *)
LEMMA LineEndIs ==
  ASSUME line_buf \in Seq(Element)
  PROVE  LineEnd \in 0 .. Len(line_buf)
<1> DEFINE I == {i \in 1 .. Len(line_buf) : ~Text(line_buf[i])}
<1>1. LineEnd = IF I # {} THEN Min(I) ELSE 0
  BY DEF LineEnd, SelectInSeq
<1>2. Len(line_buf) \in Nat
  BY LenProperties
<1>3. I \in SUBSET Nat /\ \A i \in I : i \in 1 .. Len(line_buf)
  BY <1>2
<1> HIDE DEF I
<1>4. I # {} => Min(I) \in I
  <2> SUFFICES ASSUME I # {} PROVE Min(I) \in I
    OBVIOUS
  <2>1. \E x \in I : \A y \in I : x <= y
    BY <1>3, LeastElement
  <2> QED BY <2>1 DEF Min
<1>5. CASE I = {}
  BY <1>1, <1>2, <1>5
<1>6. CASE I # {}
  <2>1. LineEnd \in I BY <1>1, <1>4, <1>6
  <2> QED BY <1>2, <1>3, <2>1
<1> QED BY <1>5, <1>6

-----------------------------------------------------------------------------
(* What clients send.                                                      *)

(* The fields of an element depend on its kind. *)
LEMMA ElementFields ==
  ASSUME NEW e \in Element
  PROVE  /\ e.t = "header" => e.n \in Int /\ e.name \in {"host", "content-length", "connection"}
         /\ e.t = "request" => e.method \in Method /\ e.path \in Path /\ e.v10 \in BOOLEAN
  BY DEF Element

(* A request becomes a stream of elements. *)
LEMMA EncodedType ==
  ASSUME NEW r \in Request
  PROVE  Encoded(r) \in Seq(Element)
<1>1. /\ r.method \in Method /\ r.path \in Path /\ r.v10 \in BOOLEAN /\ r.body \in Seq(Nat)
      /\ r.length \in Int /\ r.pad \in Nat
  <2>1. r.body \in Seq(Nat) /\ r.length \in -1 .. Len(r.body)
    BY HttpAssumption
  <2>2. Len(r.body) \in Nat
    BY <2>1, LenProperties
  <2> QED BY <2>1, <2>2, HttpAssumption
<1>2. CR \in Element /\ LF \in Element /\ Filler \in Element /\ RequestLine(r) \in Element
  BY <1>1 DEF CR, LF, Filler, RequestLine, Element
<1>3. /\ HeaderLine("host", 0) \in Element /\ HeaderLine("connection", 0) \in Element
      /\ HeaderLine("content-length", r.length) \in Element
  BY <1>1 DEF HeaderLine, Element
<1>4. CRLF \in Seq(Element) /\ <<RequestLine(r)>> \in Seq(Element) /\ <<>> \in Seq(Element)
  BY <1>2 DEF CRLF
<1>5. \A s1, s2 \in Seq(Element) : s1 \o s2 \in Seq(Element)
  BY ConcatProperties
<1> DEFINE A == IF r.pad > 0 THEN [i \in 1 .. r.pad |-> Filler] \o CRLF ELSE <<>>
           B == IF r.host THEN <<HeaderLine("host", 0)>> \o CRLF ELSE <<>>
           C == IF r.length >= 0 THEN <<HeaderLine("content-length", r.length)>> \o CRLF ELSE <<>>
           D == IF r.close THEN <<HeaderLine("connection", 0)>> \o CRLF ELSE <<>>
           E == [i \in DOMAIN r.body |-> [t |-> "byte", b |-> r.body[i]]]
<1>6. A \in Seq(Element)
  <2>1. [i \in 1 .. r.pad |-> Filler] \in Seq(Element)
    BY <1>1, <1>2
  <2> QED BY <1>4, <1>5, <2>1
<1>7. B \in Seq(Element) /\ C \in Seq(Element) /\ D \in Seq(Element)
  <2>1. \A e \in Element : <<e>> \in Seq(Element)
    OBVIOUS
  <2> QED BY <1>3, <1>4, <1>5, <2>1
<1>8. E \in Seq(Element)
  <2>1. DOMAIN r.body = 1 .. Len(r.body) /\ Len(r.body) \in Nat /\ \A i \in 1 .. Len(r.body) : r.body[i] \in Nat
    BY <1>1, LenProperties, ElementOfSeq
  <2>2. \A i \in 1 .. Len(r.body) : [t |-> "byte", b |-> r.body[i]] \in Element
    BY <2>1 DEF Element
  <2>3. E = [i \in 1 .. Len(r.body) |-> [t |-> "byte", b |-> r.body[i]]]
    BY <2>1
  <2> QED BY <2>1, <2>2, <2>3
<1>9. Encoded(r) = <<RequestLine(r)>> \o CRLF \o (A \o B \o C \o D) \o CRLF \o E
  BY DEF Encoded, HeaderLines
<1> HIDE DEF A, B, C, D, E
<1>10. A \o B \o C \o D \in Seq(Element)
  BY <1>5, <1>6, <1>7
<1> QED BY <1>4, <1>5, <1>8, <1>9, <1>10

-----------------------------------------------------------------------------
(* Owners.                                                                 *)

(* A body that is stored has left the request. *)
LEMMA ApartPut ==
  ASSUME NEW st \in Seq(Object), NEW qu \in Seq(Block), NEW b \in Block \cup {NULL},
         NEW f \in SUBSET Block, Apart(st, qu, b, f), NEW o \in Object, o.block \in {b, NULL}
  PROVE  /\ <<o>> \o st \in Seq(Object)
         /\ Apart(<<o>> \o st, qu, IF o.block = b THEN NULL ELSE b, f)
<1> DEFINE s2 == <<o>> \o st
<1>1. /\ s2 \in Seq(Object) /\ DOMAIN s2 = 1 .. Len(st) + 1 /\ s2[1] = o /\ Len(st) \in Nat
      /\ \A i \in DOMAIN s2 : i = 1 \/ (i - 1 \in DOMAIN st /\ s2[i] = st[i - 1])
  OBVIOUS
<1>2. DOMAIN qu = 1 .. Len(qu) /\ \A j \in DOMAIN qu : qu[j] \in Block
  OBVIOUS
<1> HIDE DEF s2
<1> DEFINE b2 == IF o.block = b THEN NULL ELSE b
<1>3. NULL \notin Block
  BY HttpAssumption
<1>4. \A i, j \in DOMAIN s2 : i # j /\ s2[i].block # NULL => s2[i].block # s2[j].block
  <2> SUFFICES ASSUME NEW i \in DOMAIN s2, NEW j \in DOMAIN s2, i # j, s2[i].block # NULL
               PROVE  s2[i].block # s2[j].block
    OBVIOUS
  <2>1. CASE i = 1
    <3>1. j - 1 \in DOMAIN st /\ s2[j] = st[j - 1] /\ s2[i].block = b BY <1>1, <2>1
    <3> QED BY <3>1 DEF Apart
  <2>2. CASE j = 1
    <3>1. i - 1 \in DOMAIN st /\ s2[i] = st[i - 1] /\ s2[j].block \in {b, NULL} BY <1>1, <2>2
    <3> QED BY <3>1 DEF Apart
  <2>3. CASE i # 1 /\ j # 1
    <3>1. /\ i - 1 \in DOMAIN st /\ s2[i] = st[i - 1] /\ j - 1 \in DOMAIN st /\ s2[j] = st[j - 1]
          /\ i - 1 # j - 1
      BY <1>1, <2>3
    <3> QED BY <3>1 DEF Apart
  <2> QED BY <2>1, <2>2, <2>3
<1>5. \A i \in DOMAIN s2, j \in DOMAIN qu : s2[i].block # qu[j]
  <2> SUFFICES ASSUME NEW i \in DOMAIN s2, NEW j \in DOMAIN qu PROVE s2[i].block # qu[j]
    OBVIOUS
  <2>1. CASE i = 1 BY <1>1, <1>2, <1>3, <2>1 DEF Apart
  <2>2. CASE i # 1 BY <1>1, <2>2 DEF Apart
  <2> QED BY <2>1, <2>2
<1>6. \A i \in DOMAIN s2 : s2[i].block # NULL => s2[i].block # b2 /\ s2[i].block \notin f
  <2> SUFFICES ASSUME NEW i \in DOMAIN s2, s2[i].block # NULL
               PROVE  s2[i].block # b2 /\ s2[i].block \notin f
    OBVIOUS
  <2>1. CASE i = 1 BY <1>1, <2>1 DEF Apart
  <2>2. CASE i # 1 BY <1>1, <2>2 DEF Apart
  <2> QED BY <2>1, <2>2
<1>7. \A j \in DOMAIN qu : qu[j] # b2 /\ qu[j] \notin f
  BY <1>2, <1>3 DEF Apart
<1>8. b2 \notin f
  BY <1>3 DEF Apart
<1> HIDE DEF b2
<1>9. Apart(s2, qu, b2, f)
  BY <1>4, <1>5, <1>6, <1>7, <1>8 DEF Apart
<1> QED BY <1>1, <1>9 DEF s2, b2

(* A body that is queued has left the request. *)
LEMMA ApartQueue ==
  ASSUME NEW st \in Seq(Object), NEW qu \in Seq(Block), NEW b \in Block,
         NEW f \in SUBSET Block, Apart(st, qu, b, f)
  PROVE  Append(qu, b) \in Seq(Block) /\ Apart(st, Append(qu, b), NULL, f)
<1> DEFINE q2 == Append(qu, b)
<1>1. /\ q2 \in Seq(Block) /\ DOMAIN q2 = 1 .. Len(qu) + 1 /\ Len(qu) \in Nat
      /\ DOMAIN qu = 1 .. Len(qu)
      /\ q2[Len(qu) + 1] = b /\ \A j \in DOMAIN qu : q2[j] = qu[j]
      /\ \A j \in DOMAIN q2 : j \in DOMAIN qu \/ j = Len(qu) + 1
      /\ \A j \in DOMAIN q2 : q2[j] \in Block
  OBVIOUS
<1> HIDE DEF q2
<1>2. NULL \notin Block
  BY HttpAssumption
<1>3. \A i, j \in DOMAIN q2 : i # j => q2[i] # q2[j]
  BY <1>1 DEF Apart
<1>4. \A i \in DOMAIN st, j \in DOMAIN q2 : st[i].block # q2[j]
  BY <1>1, <1>2 DEF Apart
<1>5. \A j \in DOMAIN q2 : q2[j] # NULL /\ q2[j] \notin f
  BY <1>1, <1>2 DEF Apart
<1>6. Apart(st, q2, NULL, f)
  BY <1>2, <1>3, <1>4, <1>5 DEF Apart
<1> QED BY <1>1, <1>6 DEF q2

(* An object leaves the store, an entry the queue. *)
LEMMA ApartLess ==
  ASSUME NEW st \in Seq(Object), NEW qu \in Seq(Block), NEW b \in Block \cup {NULL},
         NEW f \in SUBSET Block, Apart(st, qu, b, f)
  PROVE  /\ st # <<>> => Tail(st) \in Seq(Object) /\ Apart(Tail(st), qu, b, f)
         /\ qu # <<>> => /\ Tail(qu) \in Seq(Block) /\ Head(qu) \in Block
                         /\ Apart(st, Tail(qu), b, f \cup {Head(qu)})
<1>1. ASSUME st # <<>> PROVE Tail(st) \in Seq(Object) /\ Apart(Tail(st), qu, b, f)
  <2> DEFINE s2 == Tail(st)
  <2>1. /\ s2 \in Seq(Object) /\ DOMAIN s2 \subseteq Nat
        /\ \A i \in DOMAIN s2 : i + 1 \in DOMAIN st /\ s2[i] = st[i + 1]
    BY <1>1
  <2> HIDE DEF s2
  <2>2. \A i, j \in DOMAIN s2 : i # j => i + 1 # j + 1
    BY <2>1
  <2>3. Apart(s2, qu, b, f)
    BY <2>1, <2>2 DEF Apart
  <2> QED BY <2>1, <2>3 DEF s2
<1>2. ASSUME qu # <<>>
      PROVE  /\ Tail(qu) \in Seq(Block) /\ Head(qu) \in Block
             /\ Apart(st, Tail(qu), b, f \cup {Head(qu)})
  <2> DEFINE q2 == Tail(qu)
             h == Head(qu)
  <2>1. /\ q2 \in Seq(Block) /\ DOMAIN q2 \subseteq Nat \ {0}
        /\ \A i \in DOMAIN q2 : i + 1 \in DOMAIN qu /\ q2[i] = qu[i + 1]
        /\ 1 \in DOMAIN qu /\ h = qu[1] /\ h \in Block
    BY <1>2
  <2> HIDE DEF q2, h
  <2>2. /\ \A i, j \in DOMAIN q2 : i # j => i + 1 # j + 1
        /\ \A i \in DOMAIN q2 : i + 1 # 1
    BY <2>1
  <2>3. \A j \in DOMAIN q2 : q2[j] # b /\ q2[j] \notin f /\ q2[j] # h
    BY <2>1, <2>2 DEF Apart
  <2>4. b # h /\ \A i \in DOMAIN st : st[i].block # h
    BY <2>1 DEF Apart
  <2>5. Apart(st, q2, b, f \cup {h})
    BY <2>1, <2>2, <2>3, <2>4 DEF Apart
  <2> QED BY <2>1, <2>5 DEF q2, h
<1> QED BY <1>1, <1>2

(* free and malloc of a body. *)
LEMMA ApartBody ==
  ASSUME NEW st \in Seq(Object), NEW qu \in Seq(Block), NEW b \in Block \cup {NULL},
         NEW f \in SUBSET Block
  PROVE  /\ Apart(st, qu, b, f) => /\ Released(f, b) \in SUBSET Block
                                   /\ Apart(st, qu, NULL, Released(f, b))
         /\ Apart(st, qu, NULL, f) /\ b \in f => Apart(st, qu, b, f \ {b})
<1>1. NULL \notin Block /\ \A j \in DOMAIN qu : qu[j] \in Block
  BY HttpAssumption
<1> QED BY <1>1 DEF Apart, Released

-----------------------------------------------------------------------------
(* Requests end.                                                           *)

(* http_process leaves no block with two owners. *)
LEMMA OutcomeApart ==
  ASSUME IInv, NEW o \in http_process(req)
  PROVE  /\ o.store \in Seq(Object) /\ o.queue \in Seq(Block) /\ o.body \in Block \cup {NULL}
         /\ Apart(o.store, o.queue, o.body, free)
<1>1. /\ store \in Seq(Object) /\ queue \in Seq(Block) /\ req.body \in Block \cup {NULL}
      /\ free \in SUBSET Block /\ Apart(store, queue, req.body, free)
  BY DEF IInv, Types, TypeOK
<1> DEFINE ob == [kind |-> "raw", block |-> req.body]
           Same == o.store = store /\ o.queue = queue /\ o.body = req.body
           Less == store # <<>> /\ o.store = Tail(store) /\ o.queue = queue /\ o.body = req.body
           Put == o.store = <<ob>> \o store /\ o.queue = queue /\ o.body = NULL
           Queued == /\ req.body # NULL /\ o.store = store
                     /\ o.queue = Append(queue, req.body) /\ o.body = NULL
           Goal == /\ o.store \in Seq(Object) /\ o.queue \in Seq(Block) /\ o.body \in Block \cup {NULL}
                   /\ Apart(o.store, o.queue, o.body, free)
<1>2. Same => Goal
  BY <1>1
<1>3. Less => Goal
  BY <1>1, ApartLess
<1>4. Put => Goal
  <2>1. ob \in Object /\ ob.block = req.body
    BY <1>1 DEF Object
  <2> HIDE DEF ob
  <2>2. <<ob>> \o store \in Seq(Object) /\ Apart(<<ob>> \o store, queue, NULL, free)
    BY <1>1, <2>1, ApartPut
  <2> QED BY <1>1, <2>2
<1>5. Queued => Goal
  BY <1>1, ApartQueue
<1>6. o \in process_get(req) => Same
  <2>1. o \in process_get(req) => \E resp : o = Outcome(req, resp)
    BY DEF process_get
  <2> QED BY <2>1 DEF Outcome
<1>7. o \in process_delete(req) => Same \/ Less
  BY DEF process_delete, Outcome
<1>8. o \in process_put(req) => Put
  BY DEF process_put, Outcome
<1>9. o \in process_work(req) => Same \/ Queued
  <2>1. o \in process_work(req) =>
          \/ \E resp : o = Outcome(req, resp)
          \/ /\ req.body # NULL
             /\ o = [Outcome(req, Response(200, "length")) EXCEPT
                       !.queue = Append(@, req.body), !.body = NULL]
    BY DEF process_work
  <2>2. (\E resp : o = Outcome(req, resp)) => Same
    BY DEF Outcome
  <2>3. o = [Outcome(req, Response(200, "length")) EXCEPT !.queue = Append(@, req.body), !.body = NULL]
          => o.store = store /\ o.queue = Append(queue, req.body) /\ o.body = NULL
    BY DEF Outcome
  <2> QED BY <2>1, <2>2, <2>3
<1>10. o = Outcome(req, Response(404, "length")) => Same
  BY DEF Outcome
<1>11. \/ o \in process_get(req) \/ o \in process_delete(req)
       \/ o \in process_put(req) \/ o \in process_work(req)
       \/ o = Outcome(req, Response(404, "length"))
  BY DEF http_process
<1>12. Goal
  <2> HIDE DEF Same, Less, Put, Queued, Goal
  <2> QED BY <1>2, <1>3, <1>4, <1>5, <1>6, <1>7, <1>8, <1>9, <1>10, <1>11
<1> QED BY <1>12

(* TypeOK of the store and the queue. *)
LEMMA ShareTypes ==
  ASSUME NEW st \in Seq(Object), NEW qu \in Seq(Block)
  PROVE  /\ \A i \in DOMAIN st : st[i].kind \in {"raw", "sfs"} /\ st[i].block \in Block \cup {NULL}
         /\ Range(qu) \subseteq Block
<1>1. \A i \in DOMAIN st : st[i] \in Object
  OBVIOUS
<1>2. \A j \in DOMAIN qu : qu[j] \in Block
  OBVIOUS
<1> QED BY <1>1, <1>2 DEF Object, Range

(* There is no request any more and its body b is freed. *)
LEMMA RequestGone ==
  ASSUME IInv, NEW b \in Block \cup {NULL}, Apart(store', queue', b, free),
         store' \in Seq(Object), queue' \in Seq(Block), UNCHANGED <<clientVars, up>>,
         sock' \in {"open", "closed"}, pc' \in {"recv", "end"}, part' = "REQUEST",
         line_buf' \in Seq(Element), req' = NoRequest, body' = <<>>,
         free' = Released(free, b)
  PROVE  IInv'
<1>1. NoRequest \in Parsed /\ NoRequest.body = NULL /\ NULL \in Block \cup {NULL}
  BY DEF NoRequest, Parsed
<1>2. free' \in SUBSET Block /\ Apart(store', queue', NULL, free')
  BY ApartBody DEF IInv, TypeOK
<1>3. <<>> \in Seq(Element) /\ Len(<<>>) = 0
  OBVIOUS
<1>4. Types'
  BY <1>1, <1>3 DEF IInv, Types
<1>5. TypeOK'
  BY <1>1, <1>2, <1>3, ShareTypes DEF IInv, TypeOK, clientVars
<1> QED BY <1>1, <1>2, <1>4, <1>5 DEF IInv, Allocated

(* Closing the connection gives back the body. *)
LEMMA ClosesStep ==
  ASSUME IInv, NEW b \in Block \cup {NULL}, Apart(store', queue', b, free),
         store' \in Seq(Object), queue' \in Seq(Block), UNCHANGED <<clientVars, up>>,
         Closes(free, b)
  PROVE  IInv'
<1>1. <<>> \in Seq(Element)
  OBVIOUS
<1> QED BY <1>1, RequestGone DEF Closes

(* Getting ready for the next request keeps the invariant. *)
LEMMA ResetsStep ==
  ASSUME IInv, NEW b \in Block \cup {NULL}, Apart(store', queue', b, free),
         store' \in Seq(Object), queue' \in Seq(Block), UNCHANGED <<clientVars, up>>,
         NEW rest \in Seq(Element), Resets(free, b, rest)
  PROVE  IInv'
<1>1. sock' \in {"open", "closed"}
  BY DEF Resets, IInv, TypeOK
<1> QED BY <1>1, RequestGone DEF Resets, Cleared

(* So does the end of a request. *)
LEMMA FinishesStep ==
  ASSUME IInv, NEW closing, NEW rest \in Seq(Element), Finishes(closing, rest),
         UNCHANGED <<clientVars, up>>
  PROVE  IInv'
<1>1. CASE Overruns
  BY <1>1 DEF Overruns, IInv, TypeOK, Types, Allocated, clientVars, heapVars
<1>2. ASSUME NEW o \in http_process(req), Processes(o),
             IF closing THEN Closes(free, o.body) ELSE Resets(free, o.body, rest)
      PROVE  IInv'
  <2>1. store' = o.store /\ queue' = o.queue
    BY <1>2 DEF Processes
  <2>2. /\ store' \in Seq(Object) /\ queue' \in Seq(Block) /\ o.body \in Block \cup {NULL}
        /\ Apart(store', queue', o.body, free)
    BY <2>1, OutcomeApart
  <2>3. CASE closing
    <3>1. Closes(free, o.body) BY <1>2, <2>3
    <3> QED BY <2>2, <3>1, ClosesStep
  <2>4. CASE ~closing
    <3>1. Resets(free, o.body, rest) BY <1>2, <2>4
    <3> QED BY <2>2, <3>1, ResetsStep
  <2> QED BY <2>3, <2>4
<1> QED BY <1>1, <1>2 DEF Finishes

(* So does an error response. *)
LEMMA RejectsStep ==
  ASSUME IInv, NEW code, Rejects(code)
  PROVE  IInv'
<1>1. /\ store' = store /\ queue' = queue /\ UNCHANGED <<clientVars, up>>
      /\ Closes(free, req.body)
  BY DEF Rejects
<1>2. /\ store' \in Seq(Object) /\ queue' \in Seq(Block) /\ req.body \in Block \cup {NULL}
      /\ Apart(store', queue', req.body, free)
  BY <1>1 DEF IInv, Types, TypeOK
<1> QED BY <1>1, <1>2, ClosesStep

-----------------------------------------------------------------------------
(* The steps of the connection.                                            *)

(* A step that leaves the blocks with their owners. *)
LEMMA OwnersKept ==
  ASSUME IInv, UNCHANGED heapVars, req' \in Parsed, req'.body = req.body, Allocated',
         up' \in Seq(Element), line_buf' \in Seq(Element), body' \in Seq(Element),
         Len(body') <= IF req.body = NULL THEN 0 ELSE req'.length,
         asked' \in Request \cup {NULL}, client' \in {"open", "closed"},
         sock' \in {"open", "closed"}, pc' \in {"recv", "parse", "body", "end", "undefined"},
         part' \in {"REQUEST", "HEADER", "BODY"}
  PROVE  IInv'
<1>1. store' = store /\ queue' = queue /\ free' = free
  BY DEF heapVars
<1>2. TypeOK'
  BY <1>1 DEF IInv, TypeOK
<1>3. Types'
  BY <1>1 DEF IInv, Types
<1>4. Apart(store', queue', req'.body, free')
  BY <1>1 DEF IInv
<1> QED BY <1>2, <1>3, <1>4 DEF IInv

(* No body while a head is parsed. *)
LEMMA NoBodyYet ==
  ASSUME IInv, pc \in {"recv", "parse"}
  PROVE  req.body = NULL /\ Len(body) <= 0 /\ req.body \in Block \cup {NULL}
  BY DEF IInv, TypeOK, Allocated

(* So does receiving a part of a line. *)
LEMMA RecvLineStep ==
  ASSUME IInv, NEW n \in 1 .. Len(up), recv_line(n)
  PROVE  IInv'
<1>1. up \in Seq(Element) /\ line_buf \in Seq(Element) /\ n \in 0 .. Len(up)
  BY DEF IInv, Types
<1>2. Take(up, n) \in Seq(Element) /\ Drop(up, n) \in Seq(Element)
  BY <1>1, TakeDrop
<1>3. line_buf \o Take(up, n) \in Seq(Element)
  BY <1>1, <1>2, ConcatProperties
<1>4. req.body = NULL
  BY NoBodyYet DEF recv_line
<1>5. /\ line_buf' \in Seq(Element) /\ up' \in Seq(Element) /\ pc' = "parse"
      /\ UNCHANGED <<asked, client, sock, part, req, body>> /\ UNCHANGED heapVars
  BY <1>2, <1>3 DEF recv_line, clientVars
<1> QED BY <1>4, <1>5, OwnersKept DEF IInv, TypeOK, Types, Allocated

(* So does a line that is not complete. *)
LEMMA IncompleteStep ==
  ASSUME IInv, parse_incomplete
  PROVE  IInv'
<1>1. req.body = NULL
  BY NoBodyYet DEF parse_incomplete
<1>2. /\ pc' = "recv" /\ UNCHANGED heapVars
      /\ UNCHANGED <<asked, client, up, sock, part, line_buf, req, body>>
  BY DEF parse_incomplete, clientVars
<1> QED BY <1>1, <1>2, OwnersKept DEF IInv, TypeOK, Types, Allocated

(* A complete line has its end in the buffer. *)
LEMMA LineIs ==
  ASSUME IInv, CompleteLine
  PROVE  /\ AfterLine \in Seq(Element) /\ LineText \in Seq(Element)
         /\ Len(LineText) = 1 => LineText[1] \in Element
<1>1. line_buf \in Seq(Element) /\ LineEnd \in 0 .. Len(line_buf) /\ LineEnd > 0 /\ Len(line_buf) \in Nat
  BY LineEndIs, LenProperties DEF IInv, Types, CompleteLine
<1>2. LineEnd - 1 \in 0 .. Len(line_buf)
  BY <1>1
<1>3. LineText \in Seq(Element)
  BY <1>1, <1>2, TakeDrop DEF LineText
<1>4. Drop(line_buf, LineEnd) \in Seq(Element)
  BY <1>1, TakeDrop
<1>5. AfterLine \in Seq(Element)
  <2>1. \A s \in Seq(Element) : s # <<>> => Tail(s) \in Seq(Element)
    BY HeadTailProperties
  <2> QED BY <1>4, <2>1 DEF AfterLine
<1>6. Len(LineText) = 1 => LineText[1] \in Element
  BY <1>3, ElementOfSeq
<1> QED BY <1>3, <1>5, <1>6

(* A line that is consumed keeps the invariant if what it sets is well-formed. *)
LEMMA NextLineKept ==
  ASSUME IInv, CompleteLine, NextLine, req' \in Parsed, req'.body = req.body,
         part' \in {"REQUEST", "HEADER", "BODY"}
  PROVE  IInv'
<1>1. pc = "parse" /\ req.body = NULL /\ Len(body) <= 0
  BY NoBodyYet DEF CompleteLine
<1>2. AfterLine \in Seq(Element)
  BY LineIs
<1>3. /\ line_buf' \in Seq(Element) /\ UNCHANGED <<asked, client, up, sock, pc, body>>
      /\ UNCHANGED heapVars
  BY <1>2 DEF NextLine, clientVars
<1> QED BY <1>1, <1>3, OwnersKept DEF IInv, TypeOK, Types, Allocated

(* The request line keeps the invariant. *)
LEMMA RequestLineStep ==
  ASSUME IInv, parse_request_line
  PROVE  IInv'
<1>1. CASE Rejects(400)
  BY <1>1, RejectsStep
<1>2. CASE /\ Len(LineText) = 1 /\ LineText[1].t = "request" /\ NextLine /\ part' = "HEADER"
           /\ req' = [req EXCEPT !.method = LineText[1].method, !.path = LineText[1].path,
                                 !.v10 = LineText[1].v10]
  <2>0. CompleteLine
    BY DEF parse_request_line
  <2>1. LineText[1] \in Element
    BY <1>2, <2>0, LineIs
  <2>2. LineText[1].method \in Method /\ LineText[1].path \in Path /\ LineText[1].v10 \in BOOLEAN
    BY <1>2, <2>1, ElementFields
  <2>3. req \in Parsed
    BY DEF IInv, Types
  <2>4. req' \in Parsed /\ req'.body = req.body
    BY <1>2, <2>2, <2>3 DEF Parsed
  <2> QED BY <1>2, <2>0, <2>4, NextLineKept
<1> QED BY <1>1, <1>2 DEF parse_request_line

(* So does a header line, and the end of the headers. *)
LEMMA HeaderStep ==
  ASSUME IInv, parse_header
  PROVE  IInv'
<1>1. CompleteLine /\ NextLine /\ part' = part /\ part \in {"REQUEST", "HEADER", "BODY"}
  BY DEF parse_header, IInv, TypeOK
<1>2. req \in Parsed
  BY DEF IInv, Types
<1>3. CASE Len(LineText) # 1 \/ LineText[1].t # "header"
  <2>1. req' = req
    BY <1>3 DEF parse_header
  <2> QED BY <1>1, <1>2, <2>1, NextLineKept
<1>4. CASE Len(LineText) = 1 /\ LineText[1].t = "header"
  <2>1. LineText[1] \in Element
    BY <1>1, <1>4, LineIs
  <2>2. LineText[1].n \in Int /\ LineText[1].name \in {"host", "content-length", "connection"}
    BY <1>4, <2>1, ElementFields
  <2>3. \/ req' = [req EXCEPT !.host = TRUE]
        \/ req' = [req EXCEPT !.close = TRUE]
        \/ req' = [req EXCEPT !.length = LineText[1].n]
    BY <1>4, <2>2 DEF parse_header
  <2>4. req' \in Parsed /\ req'.body = req.body
    BY <1>2, <2>2, <2>3 DEF Parsed
  <2> QED BY <1>1, <2>4, NextLineKept
<1> QED BY <1>3, <1>4

(* What follows the head is a part of the buffer. *)
LEMMA AfterHeadIs ==
  ASSUME IInv, HeadEnds
  PROVE  AfterHead \in Seq(Element)
<1>1. line_buf \in Seq(Element) /\ line_buf # <<>> /\ Len(line_buf) \in Nat
  BY LenProperties DEF IInv, Types, HeadEnds
<1>2. Len(line_buf) >= 1
  BY <1>1, EmptySeq
<1>3. CR # LF
  BY DEF CR, LF
<1>4. line_buf[1] = CR => Len(line_buf) > 1
  BY <1>3 DEF HeadEnds, EmptyLine
<1>5. (IF line_buf[1] = CR THEN 2 ELSE 1) \in 0 .. Len(line_buf)
  BY <1>1, <1>2, <1>4
<1> QED BY <1>1, <1>5, TakeDrop DEF AfterHead

(* The block that is allocated is free, and what is copied fits into it. *)
LEMMA HeadBodyStep ==
  ASSUME IInv, NEW b \in Block, head_body(b)
  PROVE  IInv'
<1> DEFINE here == IF Len(AfterHead) < req.length THEN Len(AfterHead) ELSE req.length
<1>1. /\ HeadEnds /\ req.length > 0 /\ b \in free /\ free' = free \ {b}
      /\ body' = Take(AfterHead, here) /\ req' = [req EXCEPT !.body = b]
      /\ line_buf' = Drop(AfterHead, here) /\ part' = "BODY" /\ pc' = "body"
      /\ UNCHANGED <<asked, client, up, sock, store, queue>>
  BY DEF head_body, HasBody, clientVars
<1>2. AfterHead \in Seq(Element) /\ Len(AfterHead) \in Nat
  BY <1>1, AfterHeadIs, LenProperties
<1>3. req \in Parsed /\ req.length \in Int
  BY DEF IInv, Types, Parsed
<1>4. here \in 0 .. Len(AfterHead) /\ here <= req.length
  BY <1>1, <1>2, <1>3
<1> HIDE DEF here
<1>5. body' \in Seq(Element) /\ Len(body') = here /\ line_buf' \in Seq(Element)
  BY <1>1, <1>2, <1>4, TakeDrop
<1>6. req' \in Parsed /\ req'.body = b /\ req'.length = req.length
  BY <1>1, <1>3 DEF Parsed
<1>7. Types'
  BY <1>1, <1>5, <1>6 DEF IInv, Types
<1>8. b # NULL
  BY HttpAssumption
<1>9. TypeOK'
  BY <1>1, <1>4, <1>5, <1>6, <1>8 DEF IInv, TypeOK
<1>10. req.body = NULL
  BY <1>1, NoBodyYet DEF HeadEnds
<1>11. Apart(store', queue', req'.body, free')
  <2>1. Apart(store, queue, NULL, free) /\ store \in Seq(Object) /\ queue \in Seq(Block) /\ free \in SUBSET Block
    BY <1>10 DEF IInv, Types, TypeOK
  <2>2. Apart(store, queue, b, free \ {b})
    BY <1>1, <2>1, ApartBody
  <2> QED BY <1>1, <1>6, <2>2
<1>12. Allocated'
  BY <1>1, <1>6, <1>8 DEF Allocated
<1> QED BY <1>7, <1>9, <1>11, <1>12 DEF IInv

(* recv is not asked for more than the block has room for. *)
LEMMA RecvBodyStep ==
  ASSUME IInv, NEW n \in 1 .. Len(up), recv_body(n)
  PROVE  IInv'
<1>1. up \in Seq(Element) /\ body \in Seq(Element) /\ n \in 0 .. Len(up) /\ req \in Parsed
  BY DEF IInv, Types
<1>2. Take(up, n) \in Seq(Element) /\ Drop(up, n) \in Seq(Element) /\ Len(Take(up, n)) = n
  BY <1>1, TakeDrop
<1>3. body \o Take(up, n) \in Seq(Element) /\ Len(body \o Take(up, n)) = Len(body) + n
  BY <1>1, <1>2, ConcatProperties
<1>4. /\ pc = "body" /\ Len(body) < req.length /\ n <= req.length - Len(body)
      /\ body' = body \o Take(up, n) /\ up' = Drop(up, n) /\ line_buf' = <<>>
      /\ UNCHANGED <<asked, client, sock, pc, part, req>> /\ UNCHANGED heapVars
  BY DEF recv_body, BodyNeed, clientVars, heapVars
<1>5. req.length \in Int /\ Len(body) \in Nat /\ Len(body) <= IF req.body = NULL THEN 0 ELSE req.length
  BY <1>1, LenProperties DEF Parsed, IInv, TypeOK
<1>6. <<>> \in Seq(Element)
  OBVIOUS
<1>7. req.body # NULL
  BY <1>4 DEF IInv, Allocated
<1>8. Allocated'
  BY <1>4, <1>7 DEF Allocated
<1> QED BY <1>1, <1>2, <1>3, <1>4, <1>5, <1>6, <1>7, <1>8, OwnersKept DEF IInv, TypeOK

(* So does the end of the stream. *)
LEMMA RecvEofStep ==
  ASSUME IInv, recv_line_eof
  PROVE  IInv'
<1>1. <<>> \in Seq(Element) /\ UNCHANGED <<clientVars, up>>
  BY DEF recv_line_eof
<1>2. CASE Finishes(TRUE, <<>>)
  BY <1>1, <1>2, FinishesStep
<1>3. CASE Closes(free, req.body) /\ UNCHANGED <<out, store, queue, handled>>
  <2>1. /\ store' \in Seq(Object) /\ queue' \in Seq(Block) /\ req.body \in Block \cup {NULL}
        /\ Apart(store', queue', req.body, free)
    BY <1>3 DEF IInv, Types, TypeOK
  <2> QED BY <1>1, <1>3, <2>1, ClosesStep
<1> QED BY <1>2, <1>3 DEF recv_line_eof

(* So does an error of recv. *)
LEMMA RecvErrorStep ==
  ASSUME IInv, recv_error
  PROVE  IInv'
<1>1. /\ store' \in Seq(Object) /\ queue' \in Seq(Block) /\ req.body \in Block \cup {NULL}
      /\ Apart(store', queue', req.body, free) /\ UNCHANGED <<clientVars, up>>
      /\ Closes(free, req.body)
  BY DEF IInv, Types, TypeOK, recv_error
<1> QED BY <1>1, ClosesStep

(* So does a request that has been processed. *)
LEMMA ProcessedStep ==
  ASSUME IInv, head_processed \/ recv_body_eof \/ body_processed
  PROVE  IInv'
<1>1. <<>> \in Seq(Element)
  OBVIOUS
<1>2. CASE head_processed
  <2>1. AfterHead \in Seq(Element)
    BY <1>2, AfterHeadIs DEF head_processed
  <2>2. Finishes(ConnectionClose, AfterHead) /\ UNCHANGED <<clientVars, up>>
    BY <1>2 DEF head_processed
  <2> QED BY <2>1, <2>2, FinishesStep
<1>3. CASE recv_body_eof
  <2>1. Finishes(TRUE, <<>>) /\ UNCHANGED <<clientVars, up>>
    BY <1>3 DEF recv_body_eof
  <2> QED BY <1>1, <2>1, FinishesStep
<1>4. CASE body_processed
  <2>1. Finishes(ConnectionClose \/ line_buf # <<>>, <<>>) /\ UNCHANGED <<clientVars, up>>
    BY <1>4 DEF body_processed
  <2> QED BY <1>1, <2>1, FinishesStep
<1> QED BY <1>2, <1>3, <1>4

(* So does every iteration of the loop over lines. *)
LEMMA IterationStep ==
  ASSUME IInv, http_input_iteration
  PROVE  IInv'
<1>1. ASSUME head_rejected PROVE IInv'
  BY <1>1, RejectsStep DEF head_rejected
<1> QED BY <1>1, RecvLineStep, RecvBodyStep, RecvEofStep, IncompleteStep, RequestLineStep,
           HeaderStep, HeadBodyStep, ProcessedStep DEF http_input_iteration

-----------------------------------------------------------------------------
(* Clients and the R session.                                              *)

(* So does every step of http_connected. *)
LEMMA ConnectedStep ==
  ASSUME IInv, http_connected
  PROVE  IInv'
<1>1. NoRequest \in Parsed /\ NoRequest.body = NULL /\ <<>> \in Seq(Element) /\ Len(<<>>) = 0
  BY DEF NoRequest, Parsed
<1>2. Apart(store, queue, NULL, free)
  <2>1. Apart(store, queue, req.body, free) /\ NULL \notin free /\ NULL \notin Block
    BY HttpAssumption DEF IInv, TypeOK
  <2>2. \A j \in DOMAIN queue : queue[j] \in Block
    BY DEF IInv, Types
  <2> QED BY <2>1, <2>2 DEF Apart
<1>3. /\ sock' = "open" /\ pc' = "recv" /\ part' = "REQUEST" /\ line_buf' = <<>>
      /\ req' = NoRequest /\ body' = <<>> /\ asked' = NULL /\ client' = "open" /\ up' = <<>>
      /\ store' = store /\ queue' = queue /\ free' = free
  BY DEF http_connected, heapVars
<1>4. TypeOK'
  BY <1>1, <1>3 DEF IInv, TypeOK
<1>5. Types' /\ Allocated'
  BY <1>1, <1>3 DEF IInv, Types, Allocated
<1> QED BY <1>1, <1>2, <1>3, <1>4, <1>5 DEF IInv

(* So does every step of the client. *)
LEMMA ClientStep ==
  ASSUME IInv, \/ \E r \in Request : client_sends(r)
               \/ \E n \in 0 .. Len(up) : client_closes(n)
  PROVE  IInv'
<1>1. /\ asked' \in Request \cup {NULL} /\ client' \in {"open", "closed"} /\ up' \in Seq(Element)
      /\ UNCHANGED <<sock, pc, part, line_buf, req, body>> /\ UNCHANGED heapVars
  <2>1. CASE \E r \in Request : client_sends(r)
    BY <2>1, EncodedType DEF client_sends, connVars, IInv, TypeOK
  <2>2. CASE \E n \in 0 .. Len(up) : client_closes(n)
    <3>1. up \in Seq(Element)
      BY DEF IInv, Types
    <3>2. \A n \in 0 .. Len(up) : Take(up, n) \in Seq(Element)
      BY <3>1, TakeDrop
    <3> QED BY <2>2, <3>2 DEF client_closes, connVars, IInv, TypeOK
  <2> QED BY <2>1, <2>2
<1> QED BY <1>1, OwnersKept DEF IInv, TypeOK, Types, Allocated

(* Steps of others change the store, the queue and the free blocks. *)
LEMMA OthersKept ==
  ASSUME IInv, UNCHANGED <<asked, client, up, sock, pc, part, line_buf, req, body>>,
         store' \in Seq(Object), queue' \in Seq(Block), free' \in SUBSET Block,
         Apart(store', queue', req.body, free')
  PROVE  IInv'
<1>1. TypeOK'
  BY ShareTypes DEF IInv, TypeOK
<1>2. Types' /\ Allocated' /\ Apart(store', queue', req'.body, free')
  BY DEF IInv, Types, Allocated
<1> QED BY <1>1, <1>2 DEF IInv

(* So does every step of the R session. *)
LEMMA SessionStep ==
  ASSUME IInv, o_put \/ o_get_remove \/ evq_pop
  PROVE  IInv'
<1>1. /\ store \in Seq(Object) /\ queue \in Seq(Block) /\ req.body \in Block \cup {NULL}
      /\ free \in SUBSET Block /\ Apart(store, queue, req.body, free)
  BY DEF IInv, Types, TypeOK
<1>2. UNCHANGED <<asked, client, up, sock, pc, part, line_buf, req, body>>
  BY DEF o_put, o_get_remove, evq_pop, clientVars, connVars
<1>3. CASE o_put
  <2> DEFINE ob == [kind |-> "sfs", block |-> NULL]
  <2>1. ob \in Object /\ ob.block = NULL
    BY DEF Object
  <2>2. store' = <<ob>> \o store /\ queue' = queue /\ free' = free
    BY <1>3 DEF o_put
  <2> HIDE DEF ob
  <2>3. <<ob>> \o store \in Seq(Object) /\ Apart(<<ob>> \o store, queue, req.body, free)
    BY <1>1, <2>1, ApartPut
  <2> QED BY <1>1, <1>2, <2>2, <2>3, OthersKept
<1>4. CASE o_get_remove
  <2>1. store # <<>> /\ store' = Tail(store) /\ queue' = queue /\ free' = free
    BY <1>4 DEF o_get_remove
  <2> QED BY <1>1, <1>2, <2>1, ApartLess, OthersKept
<1>5. CASE evq_pop
  <2>1. queue # <<>> /\ queue' = Tail(queue) /\ free' = free \cup {Head(queue)} /\ store' = store
    BY <1>5 DEF evq_pop
  <2>2. /\ Tail(queue) \in Seq(Block) /\ Head(queue) \in Block
        /\ Apart(store, Tail(queue), req.body, free \cup {Head(queue)})
    BY <1>1, <2>1, ApartLess
  <2> QED BY <1>1, <1>2, <2>1, <2>2, OthersKept
<1> QED BY <1>3, <1>4, <1>5

-----------------------------------------------------------------------------
(* The invariant holds.                                                    *)

(* The inductive invariant of the HTTP engine. *)
LEMMA IInvHolds == Spec => []IInv
<1>1. Init => IInv
  <2> SUFFICES ASSUME Init PROVE IInv
    OBVIOUS
  <2>1. NoRequest \in Parsed /\ NoRequest.body = NULL /\ Len(<<>>) = 0
    BY DEF NoRequest, Parsed
  <2>2. <<>> \in Seq(Element) /\ <<>> \in Seq(Object) /\ <<>> \in Seq(Block) /\ DOMAIN <<>> = {}
    OBVIOUS
  <2>3. NULL \notin Block
    BY HttpAssumption
  <2>4. TypeOK
    <3>1. Range(<<>>) \subseteq Block
      BY <2>2, ShareTypes
    <3> QED BY <2>1, <2>2, <3>1 DEF Init, TypeOK
  <2>5. Types /\ Allocated
    BY <2>1, <2>2 DEF Init, Types, Allocated
  <2>6. Apart(store, queue, req.body, free)
    BY <2>1, <2>2, <2>3 DEF Init, Apart
  <2> QED BY <2>4, <2>5, <2>6 DEF IInv
<1>2. IInv /\ [Next]_vars => IInv'
  <2> SUFFICES ASSUME IInv, [Next]_vars PROVE IInv'
    OBVIOUS
  <2>1. CASE UNCHANGED vars
    BY <2>1 DEF IInv, TypeOK, Types, Allocated, vars, clientVars, connVars, heapVars
  <2>2. CASE Next
    BY <2>2, IterationStep, RecvErrorStep, ConnectedStep, ClientStep, SessionStep DEF Next
  <2> QED BY <2>1, <2>2
<1> QED BY <1>1, <1>2, PTL DEF Spec

(* Types, for any requests and buffer sizes: of a body never more is received
   than Content-length made room for, and none without a block. *)
THEOREM TypeCorrect == Spec => []TypeOK
<1>1. IInv => TypeOK
  BY DEF IInv
<1> QED BY <1>1, IInvHolds, PTL

(* A body is never the request's and also the store's, the queue's or free:
   http_process gives it away at most once, and what the end of the request, of
   the connection or of a queue entry frees has no other owner. *)
THEOREM BodyHasOneOwner == Spec => []BodyOwnedOnce
<1>1. IInv => BodyOwnedOnce
  <2> SUFFICES ASSUME IInv, NEW b \in Block
               PROVE  Cardinality({i \in DOMAIN store : store[i].block = b})
                      + Cardinality({i \in DOMAIN queue : queue[i] = b})
                      + (IF req.body = b THEN 1 ELSE 0)
                      + (IF b \in free THEN 1 ELSE 0) <= 1
    BY DEF BodyOwnedOnce
  <2> DEFINE A == {i \in DOMAIN store : store[i].block = b}
             B == {i \in DOMAIN queue : queue[i] = b}
  <2>1. b # NULL /\ Apart(store, queue, req.body, free)
    BY HttpAssumption DEF IInv
  <2>2. /\ \A i, j \in A : i = j
        /\ \A i, j \in B : i = j
        /\ A # {} => B = {} /\ req.body # b /\ b \notin free
        /\ B # {} => req.body # b /\ b \notin free
        /\ ~(req.body = b /\ b \in free)
    BY <2>1 DEF Apart
  <2> HIDE DEF A, B
  <2>3. Cardinality({}) = 0 /\ \A x : Cardinality({x}) = 1
    BY FS_EmptySet, FS_Singleton
  <2>4. A = {} \/ \E x : A = {x}
    BY <2>2
  <2>5. B = {} \/ \E x : B = {x}
    BY <2>2
  <2>6. /\ A = {} => Cardinality(A) = 0
        /\ A # {} => Cardinality(A) = 1
        /\ B = {} => Cardinality(B) = 0
        /\ B # {} => Cardinality(B) = 1
    BY <2>3, <2>4, <2>5
  <2>7. Cardinality(A) + Cardinality(B) + (IF req.body = b THEN 1 ELSE 0)
          + (IF b \in free THEN 1 ELSE 0) <= 1
    BY <2>2, <2>6
  <2> QED BY <2>7 DEF A, B
<1> QED BY <1>1, IInvHolds, PTL


-----------------------------------------------------------------------------
(* What is understood of a request.  From here on recv does not separate a *)
(* CR from its LF.                                                         *)

AllText(s) == \A i \in 1 .. Len(s) : Text(s[i])

(* Line n of the header lines, 0 .. 3, if there is one: the unknown header, Host,
   Content-length and Connection. *)
HasLine(n, r) ==
  \/ n = 0 /\ r.pad > 0
  \/ n = 1 /\ r.host = TRUE
  \/ n = 2 /\ r.length >= 0
  \/ n = 3 /\ r.close = TRUE
Words(n, r) ==
  IF n = 0 THEN [i \in 1 .. r.pad |-> Filler]
  ELSE <<IF n = 1 THEN HeaderLine("host", 0)
         ELSE IF n = 2 THEN HeaderLine("content-length", r.length)
         ELSE HeaderLine("connection", 0)>>
Bytes(r) == [i \in DOMAIN r.body |-> [t |-> "byte", b |-> r.body[i]]]

(* The stream from header line n on; at 4 the head ends. *)
Before(n, r, s) == IF HasLine(n, r) THEN Words(n, r) \o (CRLF \o s) ELSE s
From4(r) == CRLF \o Bytes(r)
From3(r) == Before(3, r, From4(r))
From2(r) == Before(2, r, From3(r))
From1(r) == Before(1, r, From2(r))
From0(r) == Before(0, r, From1(r))
From(n, r) ==
  IF n = 0 THEN From0(r) ELSE IF n = 1 THEN From1(r) ELSE IF n = 2 THEN From2(r)
  ELSE IF n = 3 THEN From3(r) ELSE From4(r)

(* What the server knows of the request when it has read the lines before n. *)
Understood(n, r) ==
  [method |-> r.method, path |-> r.path, v10 |-> r.v10,
   host |-> IF n > 1 THEN r.host ELSE FALSE,
   close |-> IF n > 3 THEN r.close ELSE FALSE,
   length |-> IF n > 2 THEN r.length ELSE -1,
   body |-> NULL]

(* What is recorded: elements of lines, the method and newlines. *)
Mark == Element \cup [t : {"method"}, method : Method] \cup {NL}

(* Streams and recorded headers are put together in any order. *)
LEMMA ElementAssoc ==
  ASSUME NEW a \in Seq(Element), NEW b \in Seq(Element), NEW c \in Seq(Element)
  PROVE  (a \o b) \o c = a \o (b \o c)
OBVIOUS

LEMMA MarkAssoc ==
  ASSUME NEW a \in Seq(Mark), NEW b \in Seq(Mark), NEW c \in Seq(Mark)
  PROVE  (a \o b) \o c = a \o (b \o c)
OBVIOUS

(* What is recorded of the request when it has read the lines before n. *)
NotedLine(n, r) == IF HasLine(n, r) THEN Words(n, r) \o <<NL>> ELSE <<>>
Noted1(r) == MethodLine(r.method) \o NotedLine(0, r)
Noted2(r) == Noted1(r) \o NotedLine(1, r)
Noted3(r) == Noted2(r) \o NotedLine(2, r)
Noted4(r) == Noted3(r) \o NotedLine(3, r)
Noted(n, r) ==
  IF n = 0 THEN MethodLine(r.method) ELSE IF n = 1 THEN Noted1(r) ELSE IF n = 2 THEN Noted2(r)
  ELSE IF n = 3 THEN Noted3(r) ELSE Noted4(r)

NotCut(s) == s # <<>> => s[Len(s)] # CR

(* How far a request has come: not handled and not answered, handled and answered,
   or answered with an error after which the connection ends. *)
Pending == asked # NULL /\ out = <<>> /\ handled = <<>>
Replied == Len(out) = 1 /\ out[1].delim # "close" /\ Len(handled) = 1
Refused == Len(out) = 1 /\ out[1].delim = "close" /\ handled = <<>>

(* Between requests there is no complete line: what is left of a body that was
   longer than announced has no line end. *)
Idle ==
  /\ part = "REQUEST" /\ req = NoRequest /\ AllText(line_buf) /\ AllText(up)
  /\ asked # NULL => Replied

(* The request line is still to come, perhaps behind such a rest; or the header
   lines from line n on, and the lines before it were understood and recorded. *)
AtRequest ==
  /\ part = "REQUEST" /\ req = NoRequest
  /\ \E g \in Seq(Element) : AllText(g) /\ line_buf \o up = g \o Encoded(asked)
AtHeader ==
  /\ part = "HEADER"
  /\ \E n \in 0 .. 4 : /\ line_buf \o up = From(n, asked) /\ req = Understood(n, asked)
                      /\ Recorded = Noted(n, asked)
Reading ==
  /\ Pending /\ NotCut(line_buf)
  /\ pc = "recv" => AllText(line_buf)
  /\ AtRequest \/ AtHeader

(* The head was understood and recorded, and the body is what has been received of it, what is
   left in the buffer, and what is still to come. *)
InBody ==
  /\ Pending /\ asked.length > 0
  /\ req = [Understood(4, asked) EXCEPT !.body = req.body]
  /\ Recorded = Noted(4, asked)
  /\ body \o (line_buf \o up) = Bytes(asked)
  /\ Len(body) < asked.length => line_buf = <<>>

Progress ==
  /\ asked = NULL => out = <<>> /\ handled = <<>>
  /\ pc \in {"recv", "parse"} => Idle \/ Reading
  /\ pc = "body" => InBody
  /\ pc = "undefined" => asked # NULL /\ out = <<>> /\ Len(handled) = 1
  /\ pc = "end" /\ asked # NULL => Pending \/ Replied \/ Refused
  /\ handled # <<>> /\ LinesFit(asked) =>
       handled[1].req = Meant(asked) /\ handled[1].recorded = Noted(4, asked)

PInv == (pc = "end" <=> sock = "closed") /\ (client = "open" => Progress)

(* The second part of a stream that is cut. *)
LEMMA DropIs ==
  ASSUME NEW S, NEW s \in Seq(S), NEW n \in 0 .. Len(s)
  PROVE  /\ Drop(s, n) \in Seq(S) /\ Len(Drop(s, n)) = Len(s) - n
         /\ \A i \in 1 .. Len(s) - n : Drop(s, n)[i] = s[n + i]
  BY DEF Drop

(* The end of the first line. *)
LEMMA LineEndFirst ==
  ASSUME line_buf \in Seq(Element)
  PROVE  /\ LineEnd = 0 <=> AllText(line_buf)
         /\ LineEnd > 0 => /\ ~Text(line_buf[LineEnd])
                           /\ \A i \in 1 .. LineEnd - 1 : Text(line_buf[i])
<1> DEFINE I == {i \in 1 .. Len(line_buf) : ~Text(line_buf[i])}
<1>1. LineEnd = IF I # {} THEN CHOOSE x \in I : \A y \in I : x <= y ELSE 0
  BY DEF LineEnd, SelectInSeq, Min
<1>2. CASE I = {}
  BY <1>1, <1>2 DEF AllText
<1>3. CASE I # {}
  <2>1. I \subseteq Nat OBVIOUS
  <2>2. \E x \in I : \A y \in I : x <= y BY <1>3, <2>1, LeastElement
  <2>3. LineEnd \in I /\ \A y \in I : LineEnd <= y BY <1>1, <1>3, <2>2
  <2>4. ASSUME NEW i \in 1 .. LineEnd - 1 PROVE Text(line_buf[i])
    <3>1. i \in 1 .. Len(line_buf) /\ ~ (LineEnd <= i) BY <2>3
    <3> QED BY <2>3, <3>1
  <2>5. ~AllText(line_buf) /\ LineEnd > 0 BY <2>3 DEF AllText
  <2> QED BY <2>3, <2>4, <2>5
<1> QED BY <1>2, <1>3

(* Line ends are not text, all else is. *)
LEMMA TextIs ==
  /\ ~Text(CR) /\ ~Text(LF) /\ CR # LF /\ CR \in Element /\ LF \in Element
  /\ CRLF \in Seq(Element) /\ Len(CRLF) = 2 /\ CRLF[1] = CR /\ CRLF[2] = LF
  /\ Text(Filler) /\ \A r : Text(RequestLine(r))
  /\ \A h, n : Text(HeaderLine(h, n))
<1>1. CR.t = "cr" /\ LF.t = "lf" /\ Filler.t = "filler"
  BY DEF CR, LF, Filler
<1>2. (\A r : RequestLine(r).t = "request") /\ \A h, n : HeaderLine(h, n).t = "header"
  BY DEF RequestLine, HeaderLine
<1>3. CR \in Element /\ LF \in Element
  BY DEF CR, LF, Element
<1>4. CR # LF
  BY <1>1
<1>5. CRLF \in Seq(Element) /\ Len(CRLF) = 2 /\ CRLF[1] = CR /\ CRLF[2] = LF
  BY <1>3 DEF CRLF
<1> QED BY <1>1, <1>2, <1>3, <1>4, <1>5 DEF Text


(* What a request is made of. *)
LEMMA RequestIs ==
  ASSUME NEW r \in Request
  PROVE  /\ r.method \in Method /\ r.path \in Path /\ r.v10 \in BOOLEAN /\ r.host \in BOOLEAN
         /\ r.close \in BOOLEAN /\ r.body \in Seq(Nat) /\ r.length \in Int /\ r.pad \in Nat
         /\ Len(r.body) \in Nat /\ r.length <= Len(r.body) /\ r.length >= -1
<1>1. r.body \in Seq(Nat) /\ r.length \in -1 .. Len(r.body)
  BY HttpAssumption
<1>2. Len(r.body) \in Nat
  BY <1>1, LenProperties
<1>3. r.length \in Int /\ r.length <= Len(r.body) /\ r.length >= -1
  BY <1>1, <1>2
<1> QED BY <1>1, <1>2, <1>3, HttpAssumption

(* A header line is text. *)
LEMMA WordsIs ==
  ASSUME NEW r \in Request, NEW n \in 0 .. 3, HasLine(n, r)
  PROVE  /\ Words(n, r) \in Seq(Element) /\ Len(Words(n, r)) \in Nat /\ Len(Words(n, r)) >= 1
         /\ AllText(Words(n, r))
         /\ Len(Words(n, r)) = IF n = 0 THEN r.pad ELSE 1
         /\ n # 0 => Words(n, r) = <<Words(n, r)[1]>>
<1>1. r.pad \in Nat /\ r.length \in Int
  BY RequestIs
<1>2. CASE n = 0
  <2> DEFINE w == [i \in 1 .. r.pad |-> Filler]
  <2>1. Words(n, r) = w /\ r.pad > 0 BY <1>2 DEF Words, HasLine
  <2>2. Filler \in Element BY DEF Filler, Element
  <2>3. w \in Seq(Element) /\ Len(w) = r.pad /\ \A i \in 1 .. r.pad : w[i] = Filler BY <1>1, <2>2
  <2>4. AllText(w) BY <2>3, TextIs DEF AllText
  <2> QED BY <1>1, <1>2, <2>1, <2>3, <2>4
<1>3. CASE n # 0
  <2> DEFINE e == IF n = 1 THEN HeaderLine("host", 0)
                  ELSE IF n = 2 THEN HeaderLine("content-length", r.length)
                  ELSE HeaderLine("connection", 0)
  <2>1. Words(n, r) = <<e>> BY <1>3 DEF Words
  <2>2. e \in Element BY <1>1 DEF HeaderLine, Element
  <2>3. Text(e) BY TextIs
  <2> HIDE DEF e
  <2>4. <<e>> \in Seq(Element) /\ Len(<<e>>) = 1 /\ <<e>>[1] = e BY <2>2
  <2>5. AllText(<<e>>) BY <2>3, <2>4 DEF AllText
  <2> QED BY <1>3, <2>1, <2>4, <2>5
<1> QED BY <1>2, <1>3

(* So is a body. *)
LEMMA BytesIs ==
  ASSUME NEW r \in Request
  PROVE  /\ Bytes(r) \in Seq(Element) /\ Len(Bytes(r)) = Len(r.body) /\ AllText(Bytes(r))
         /\ \A i \in 1 .. Len(r.body) : Bytes(r)[i] = [t |-> "byte", b |-> r.body[i]]
<1>1. /\ DOMAIN r.body = 1 .. Len(r.body) /\ Len(r.body) \in Nat
      /\ \A i \in 1 .. Len(r.body) : r.body[i] \in Nat
  BY RequestIs, LenProperties, ElementOfSeq
<1>2. \A i \in 1 .. Len(r.body) : [t |-> "byte", b |-> r.body[i]] \in Element
  BY <1>1 DEF Element
<1>3. Bytes(r) = [i \in 1 .. Len(r.body) |-> [t |-> "byte", b |-> r.body[i]]]
  BY <1>1 DEF Bytes
<1>4. /\ Bytes(r) \in Seq(Element) /\ Len(Bytes(r)) = Len(r.body)
      /\ \A i \in 1 .. Len(r.body) : Bytes(r)[i] = [t |-> "byte", b |-> r.body[i]]
  BY <1>1, <1>2, <1>3
<1>5. AllText(Bytes(r))
  <2> SUFFICES ASSUME NEW i \in 1 .. Len(r.body) PROVE Text(Bytes(r)[i])
    BY <1>4 DEF AllText
  <2> DEFINE e == [t |-> "byte", b |-> r.body[i]]
  <2>1. Bytes(r)[i] = e BY <1>4
  <2>2. e.t = "byte" OBVIOUS
  <2> QED BY <2>1, <2>2 DEF Text
<1> QED BY <1>4, <1>5

(* One more line in front. *)
LEMMA BeforeIs ==
  ASSUME NEW r \in Request, NEW n \in 0 .. 3, NEW s \in Seq(Element)
  PROVE  Before(n, r, s) \in Seq(Element)
<1>1. CASE HasLine(n, r)
  <2>1. Words(n, r) \in Seq(Element) BY <1>1, WordsIs
  <2>2. CRLF \o s \in Seq(Element) BY TextIs, ConcatIs
  <2>3. Before(n, r, s) = Words(n, r) \o (CRLF \o s) BY <1>1 DEF Before
  <2> QED BY <2>1, <2>2, <2>3, ConcatIs
<1>2. CASE ~HasLine(n, r)
  BY <1>2 DEF Before
<1> QED BY <1>1, <1>2

(* Every part of a request is a stream, and made of a line and the next part. *)
LEMMA FromIs ==
  ASSUME NEW r \in Request
  PROVE  /\ \A n \in 0 .. 4 : From(n, r) \in Seq(Element)
         /\ From(4, r) = CRLF \o Bytes(r)
         /\ \A n \in 0 .. 3 : From(n, r) = Before(n, r, From(n + 1, r))
<1>1. From4(r) \in Seq(Element)
  BY BytesIs, TextIs, ConcatIs DEF From4
<1>2. From3(r) \in Seq(Element) /\ 3 \in 0 .. 3
  BY <1>1, BeforeIs DEF From3
<1>3. From2(r) \in Seq(Element) /\ 2 \in 0 .. 3
  BY <1>2, BeforeIs DEF From2
<1>4. From1(r) \in Seq(Element) /\ 1 \in 0 .. 3
  BY <1>3, BeforeIs DEF From1
<1>5. From0(r) \in Seq(Element) /\ 0 \in 0 .. 3
  BY <1>4, BeforeIs DEF From0
<1>6. /\ From(0, r) = From0(r) /\ From(1, r) = From1(r) /\ From(2, r) = From2(r)
      /\ From(3, r) = From3(r) /\ From(4, r) = From4(r)
  BY DEF From
<1>7. \A n \in 0 .. 4 : From(n, r) \in Seq(Element)
  <2>1. \A n \in 0 .. 4 : n = 0 \/ n = 1 \/ n = 2 \/ n = 3 \/ n = 4 OBVIOUS
  <2> QED BY <1>1, <1>2, <1>3, <1>4, <1>5, <1>6, <2>1
<1>8. \A n \in 0 .. 3 : From(n, r) = Before(n, r, From(n + 1, r))
  <2> SUFFICES ASSUME NEW n \in 0 .. 3 PROVE From(n, r) = Before(n, r, From(n + 1, r))
    OBVIOUS
  <2>1. CASE n = 0
    <3>1. n + 1 = 1 BY <2>1
    <3> QED BY <1>6, <2>1, <3>1 DEF From0
  <2>2. CASE n = 1
    <3>1. n + 1 = 2 BY <2>2
    <3> QED BY <1>6, <2>2, <3>1 DEF From1
  <2>3. CASE n = 2
    <3>1. n + 1 = 3 BY <2>3
    <3> QED BY <1>6, <2>3, <3>1 DEF From2
  <2>4. CASE n = 3
    <3>1. n + 1 = 4 BY <2>4
    <3> QED BY <1>6, <2>4, <3>1 DEF From3
  <2> QED BY <2>1, <2>2, <2>3, <2>4
<1> QED BY <1>6, <1>7, <1>8 DEF From4

(* What is recorded grows line by line. *)
LEMMA NotedIs ==
  ASSUME NEW r \in Request
  PROVE  /\ \A n \in 0 .. 4 : Noted(n, r) \in Seq(Mark)
         /\ \A n \in 0 .. 3 : NotedLine(n, r) \in Seq(Mark)
         /\ \A n \in 0 .. 3 : Noted(n + 1, r) = Noted(n, r) \o NotedLine(n, r)
         /\ \A n \in 0 .. 3 : ~HasLine(n, r) => Noted(n + 1, r) = Noted(n, r)
<1>1. MethodLine(r.method) \in Seq(Mark)
  BY RequestIs DEF MethodLine, Mark
<1>2. ASSUME NEW n \in 0 .. 3 PROVE NotedLine(n, r) \in Seq(Mark)
  <2>1. CASE HasLine(n, r)
    <3>1. Words(n, r) \in Seq(Element)
      BY <2>1, WordsIs
    <3>2. Words(n, r) \in Seq(Mark) /\ <<NL>> \in Seq(Mark)
      BY <3>1 DEF Mark
    <3>3. Words(n, r) \o <<NL>> \in Seq(Mark)
      BY ONLY <3>2, ConcatIs
    <3> QED BY <2>1, <3>3 DEF NotedLine
  <2>2. CASE ~HasLine(n, r)
    BY <2>2 DEF NotedLine
  <2> QED BY <2>1, <2>2
<1>3. \A u, v \in Seq(Mark) : u \o v \in Seq(Mark) /\ u \o <<>> = u
  OBVIOUS
<1>4. 0 \in 0 .. 3 /\ 1 \in 0 .. 3 /\ 2 \in 0 .. 3 /\ 3 \in 0 .. 3
  OBVIOUS
<1>5. Noted1(r) \in Seq(Mark)
  BY <1>1, <1>2, <1>3, <1>4 DEF Noted1
<1>6. Noted2(r) \in Seq(Mark)
  BY <1>2, <1>3, <1>4, <1>5 DEF Noted2
<1>7. Noted3(r) \in Seq(Mark)
  BY <1>2, <1>3, <1>4, <1>6 DEF Noted3
<1>8. Noted4(r) \in Seq(Mark)
  BY <1>2, <1>3, <1>4, <1>7 DEF Noted4
<1>9. /\ Noted(0, r) = MethodLine(r.method) /\ Noted(1, r) = Noted1(r) /\ Noted(2, r) = Noted2(r)
      /\ Noted(3, r) = Noted3(r) /\ Noted(4, r) = Noted4(r)
  BY DEF Noted
<1>10. \A n \in 0 .. 4 : Noted(n, r) \in Seq(Mark)
  <2>1. \A n \in 0 .. 4 : n = 0 \/ n = 1 \/ n = 2 \/ n = 3 \/ n = 4
    OBVIOUS
  <2> QED BY <1>1, <1>5, <1>6, <1>7, <1>8, <1>9, <2>1
<1>11. ASSUME NEW n \in 0 .. 3 PROVE Noted(n + 1, r) = Noted(n, r) \o NotedLine(n, r)
  <2>1. CASE n = 0
    <3>1. n + 1 = 1
      BY <2>1
    <3> QED BY <1>9, <2>1, <3>1 DEF Noted1
  <2>2. CASE n = 1
    <3>1. n + 1 = 2
      BY <2>2
    <3> QED BY <1>9, <2>2, <3>1 DEF Noted2
  <2>3. CASE n = 2
    <3>1. n + 1 = 3
      BY <2>3
    <3> QED BY <1>9, <2>3, <3>1 DEF Noted3
  <2>4. CASE n = 3
    <3>1. n + 1 = 4
      BY <2>4
    <3> QED BY <1>9, <2>4, <3>1 DEF Noted4
  <2> QED BY <2>1, <2>2, <2>3, <2>4
<1>12. ASSUME NEW n \in 0 .. 3, ~HasLine(n, r) PROVE Noted(n + 1, r) = Noted(n, r)
  <2>1. NotedLine(n, r) = <<>> /\ n \in 0 .. 4
    BY <1>12 DEF NotedLine
  <2>2. Noted(n, r) \in Seq(Mark)
    BY <1>10, <2>1
  <2> QED BY <1>3, <1>11, <2>1, <2>2
<1> QED BY <1>2, <1>10, <1>11, <1>12

(* The whole of it is the method and the header lines. *)
LEMMA NotedWhole ==
  ASSUME NEW r \in Request
  PROVE  Noted(4, r) = MethodLine(r.method) \o HeaderLines(r, <<NL>>)
<1> DEFINE M == MethodLine(r.method)
           A == NotedLine(0, r)
           B == NotedLine(1, r)
           C == NotedLine(2, r)
           D == NotedLine(3, r)
<1>1. r.host \in BOOLEAN /\ r.close \in BOOLEAN
  BY RequestIs
<1>2. HeaderLines(r, <<NL>>) = A \o B \o C \o D
  <2>1. A = IF r.pad > 0 THEN [i \in 1 .. r.pad |-> Filler] \o <<NL>> ELSE <<>>
    BY DEF NotedLine, HasLine, Words
  <2>2. B = IF r.host THEN <<HeaderLine("host", 0)>> \o <<NL>> ELSE <<>>
    BY <1>1 DEF NotedLine, HasLine, Words
  <2>3. C = IF r.length >= 0 THEN <<HeaderLine("content-length", r.length)>> \o <<NL>> ELSE <<>>
    BY DEF NotedLine, HasLine, Words
  <2>4. D = IF r.close THEN <<HeaderLine("connection", 0)>> \o <<NL>> ELSE <<>>
    BY <1>1 DEF NotedLine, HasLine, Words
  <2> HIDE DEF A, B, C, D
  <2> QED BY <2>1, <2>2, <2>3, <2>4 DEF HeaderLines
<1>3. Noted(4, r) = M \o A \o B \o C \o D
  BY DEF Noted, Noted4, Noted3, Noted2, Noted1
<1>4. /\ M \in Seq(Mark) /\ A \in Seq(Mark) /\ B \in Seq(Mark)
      /\ C \in Seq(Mark) /\ D \in Seq(Mark)
  <2>1. 0 \in 0 .. 4 /\ 0 \in 0 .. 3 /\ 1 \in 0 .. 3 /\ 2 \in 0 .. 3 /\ 3 \in 0 .. 3
    OBVIOUS
  <2>2. M = Noted(0, r)
    BY DEF Noted
  <2> HIDE DEF M, A, B, C, D
  <2>3. M \in Seq(Mark)
    BY <2>1, <2>2, NotedIs
  <2> QED BY <2>1, <2>3, NotedIs DEF A, B, C, D
<1> HIDE DEF M, A, B, C, D
<1> DEFINE AB == A \o B
           ABC == AB \o C
<1>5. AB \in Seq(Mark)
  BY ONLY <1>4, ConcatIs
<1> HIDE DEF AB
<1>6. ABC \in Seq(Mark)
  BY ONLY <1>4, <1>5, ConcatIs
<1>7. (M \o A) \o B = M \o AB
  <2>1. M \in Seq(Mark) /\ A \in Seq(Mark) /\ B \in Seq(Mark)
    BY <1>4
  <2>2. (M \o A) \o B = M \o (A \o B)
    BY ONLY <2>1, MarkAssoc, ZenonT(40)
  <2> QED BY <2>2 DEF AB
<1>8. (M \o AB) \o C = M \o ABC
  <2>1. M \in Seq(Mark) /\ AB \in Seq(Mark) /\ C \in Seq(Mark)
    BY <1>4, <1>5
  <2>2. (M \o AB) \o C = M \o (AB \o C)
    BY ONLY <2>1, MarkAssoc, ZenonT(40)
  <2> QED BY <2>2
<1> HIDE DEF ABC
<1>9. (M \o ABC) \o D = M \o (ABC \o D)
  <2>1. M \in Seq(Mark) /\ ABC \in Seq(Mark) /\ D \in Seq(Mark)
    BY <1>4, <1>6
  <2> QED BY ONLY <2>1, MarkAssoc, ZenonT(40)
<1> QED BY <1>2, <1>3, <1>7, <1>8, <1>9 DEF M, AB, ABC

(* What is left at line n begins with a line that is there, or is the end. *)
LEMMA NextLineIs ==
  ASSUME NEW r \in Request, NEW n \in 0 .. 4
  PROVE  \E m \in 0 .. 4 : /\ From(n, r) = From(m, r) /\ Understood(n, r) = Understood(m, r)
                           /\ Noted(n, r) = Noted(m, r)
                           /\ m = 4 \/ (m \in 0 .. 3 /\ HasLine(m, r))
<1> DEFINE P(k) == \E m \in 0 .. 4 : /\ From(k, r) = From(m, r) /\ Understood(k, r) = Understood(m, r)
                                     /\ Noted(k, r) = Noted(m, r)
                                     /\ m = 4 \/ (m \in 0 .. 3 /\ HasLine(m, r))
<1>1. P(4)
  OBVIOUS
<1>2. ASSUME NEW k \in 0 .. 3, P(k + 1) PROVE P(k)
  <2>1. CASE HasLine(k, r)
    <3>1. k \in 0 .. 4 OBVIOUS
    <3> QED BY <2>1, <3>1
  <2>2. CASE ~HasLine(k, r)
    <3>1. From(k, r) = From(k + 1, r)
      BY <2>2, FromIs DEF Before
    <3>2. Understood(k, r) = Understood(k + 1, r)
      <4>1. /\ r.host \in BOOLEAN /\ r.close \in BOOLEAN /\ r.length \in Int /\ r.length >= -1
        BY RequestIs
      <4> DEFINE U(h, c, l) == [method |-> r.method, path |-> r.path, v10 |-> r.v10, host |-> h,
                                close |-> c, length |-> l, body |-> NULL]
      <4>2. k = 0 \/ k = 1 \/ k = 2 \/ k = 3 OBVIOUS
      <4>3. CASE k = 0 BY <4>3 DEF Understood
      <4>4. CASE k = 1
        <5>1. r.host = FALSE BY <2>2, <4>1, <4>4 DEF HasLine
        <5>2. Understood(k, r) = U(FALSE, FALSE, -1) BY <4>4 DEF Understood
        <5>3. Understood(k + 1, r) = U(r.host, FALSE, -1) BY <4>4 DEF Understood
        <5> QED BY <5>1, <5>2, <5>3, Zenon
      <4>5. CASE k = 2
        <5>1. r.length = -1 BY <2>2, <4>1, <4>5 DEF HasLine
        <5> QED BY <4>5, <5>1 DEF Understood
      <4>6. CASE k = 3
        <5>1. r.close = FALSE BY <2>2, <4>1, <4>6 DEF HasLine
        <5>2. Understood(k, r) = U(r.host, FALSE, r.length) BY <4>6 DEF Understood
        <5>3. Understood(k + 1, r) = U(r.host, r.close, r.length) BY <4>6 DEF Understood
        <5> QED BY <5>1, <5>2, <5>3, Zenon
      <4> QED BY <4>2, <4>3, <4>4, <4>5, <4>6
    <3>3. Noted(k, r) = Noted(k + 1, r)
      BY <2>2, NotedIs
    <3> HIDE DEF HasLine
    <3> QED BY <1>2, <3>1, <3>2, <3>3
  <2> QED BY <2>1, <2>2
<1> HIDE DEF P
<1>3. P(3)
  <2>1. 3 \in 0 .. 3 /\ 3 + 1 = 4 OBVIOUS
  <2> QED BY <1>1, <1>2, <2>1
<1>4. P(2)
  <2>1. 2 \in 0 .. 3 /\ 2 + 1 = 3 OBVIOUS
  <2> QED BY <1>2, <1>3, <2>1
<1>5. P(1)
  <2>1. 1 \in 0 .. 3 /\ 1 + 1 = 2 OBVIOUS
  <2> QED BY <1>2, <1>4, <2>1
<1>6. P(0)
  <2>1. 0 \in 0 .. 3 /\ 0 + 1 = 1 OBVIOUS
  <2> QED BY <1>2, <1>5, <2>1
<1>7. n = 0 \/ n = 1 \/ n = 2 \/ n = 3 \/ n = 4
  OBVIOUS
<1>8. P(n)
  BY <1>1, <1>3, <1>4, <1>5, <1>6, <1>7
<1> QED BY <1>8 DEF P


(* The whole request as its parts. *)
LEMMA EncodedIs ==
  ASSUME NEW r \in Request
  PROVE  Encoded(r) = <<RequestLine(r)>> \o (CRLF \o From(0, r))
<1> DEFINE A == IF r.pad > 0 THEN [i \in 1 .. r.pad |-> Filler] \o CRLF ELSE <<>>
           B == IF r.host THEN <<HeaderLine("host", 0)>> \o CRLF ELSE <<>>
           C == IF r.length >= 0 THEN <<HeaderLine("content-length", r.length)>> \o CRLF ELSE <<>>
           D == IF r.close THEN <<HeaderLine("connection", 0)>> \o CRLF ELSE <<>>
           E == Bytes(r)
           L == <<RequestLine(r)>>
<1>1. r.host \in BOOLEAN /\ r.close \in BOOLEAN /\ r.pad \in Nat /\ r.length \in Int
  BY RequestIs
<1>2. CRLF \in Seq(Element) /\ E \in Seq(Element)
  BY TextIs, BytesIs
<1>3. L \in Seq(Element)
  <2>1. RequestLine(r) \in Element BY RequestIs DEF RequestLine, Element
  <2> QED BY <2>1
<1>4. ASSUME NEW n \in 0 .. 3, NEW x, x = IF HasLine(n, r) THEN Words(n, r) \o CRLF ELSE <<>>,
             NEW s \in Seq(Element)
      PROVE  x \in Seq(Element) /\ x \o s = Before(n, r, s)
  <2>1. CASE HasLine(n, r)
    <3> DEFINE w == Words(n, r)
    <3>1. w \in Seq(Element) /\ CRLF \in Seq(Element) /\ s \in Seq(Element) BY <2>1, WordsIs, TextIs
    <3> HIDE DEF w
    <3>2. (w \o CRLF) \o s = w \o (CRLF \o s) /\ w \o CRLF \in Seq(Element) BY ONLY <3>1
    <3>3. x = w \o CRLF /\ Before(n, r, s) = w \o (CRLF \o s) BY <1>4, <2>1 DEF Before, w
    <3> QED BY <3>2, <3>3
  <2>2. CASE ~HasLine(n, r)
    <3>1. x = <<>> /\ Before(n, r, s) = s BY <1>4, <2>2 DEF Before
    <3>2. <<>> \o s = s /\ <<>> \in Seq(Element) OBVIOUS
    <3> QED BY <3>1, <3>2
  <2> QED BY <2>1, <2>2
<1>5. /\ A = IF HasLine(0, r) THEN Words(0, r) \o CRLF ELSE <<>>
      /\ B = IF HasLine(1, r) THEN Words(1, r) \o CRLF ELSE <<>>
      /\ C = IF HasLine(2, r) THEN Words(2, r) \o CRLF ELSE <<>>
      /\ D = IF HasLine(3, r) THEN Words(3, r) \o CRLF ELSE <<>>
  <2>1. A = IF HasLine(0, r) THEN Words(0, r) \o CRLF ELSE <<>> BY DEF HasLine, Words
  <2>2. B = IF HasLine(1, r) THEN Words(1, r) \o CRLF ELSE <<>> BY <1>1 DEF HasLine, Words
  <2>3. C = IF HasLine(2, r) THEN Words(2, r) \o CRLF ELSE <<>> BY DEF HasLine, Words
  <2>4. D = IF HasLine(3, r) THEN Words(3, r) \o CRLF ELSE <<>> BY <1>1 DEF HasLine, Words
  <2> QED BY <2>1, <2>2, <2>3, <2>4
<1>6. Encoded(r) = L \o CRLF \o (A \o B \o C \o D) \o CRLF \o E
  BY DEF Encoded, HeaderLines, Bytes
<1> HIDE DEF A, B, C, D, E, L
<1>7. 0 \in 0 .. 3 /\ 1 \in 0 .. 3 /\ 2 \in 0 .. 3 /\ 3 \in 0 .. 3 /\ <<>> \in Seq(Element)
  OBVIOUS
<1>8. A \in Seq(Element) /\ B \in Seq(Element) /\ C \in Seq(Element) /\ D \in Seq(Element)
  BY <1>4, <1>5, <1>7
<1> DEFINE F == CRLF \o E
<1>9. F \in Seq(Element) /\ F = From(4, r)
  BY <1>2, FromIs, ConcatIs DEF E
<1> HIDE DEF F
<1>10. From(0, r) = A \o (B \o (C \o (D \o F)))
  <2>1. From(3, r) = D \o F
    <3>1. From(3, r) = Before(3, r, From(3 + 1, r)) /\ 3 + 1 = 4 BY <1>7, FromIs
    <3> QED BY <1>4, <1>5, <1>7, <1>9, <3>1
  <2>2. From(2, r) = C \o From(3, r)
    <3>1. From(2, r) = Before(2, r, From(2 + 1, r)) /\ 2 + 1 = 3 /\ 3 \in 0 .. 4 BY <1>7, FromIs
    <3>2. From(3, r) \in Seq(Element) BY <3>1, FromIs
    <3> QED BY <1>4, <1>5, <1>7, <3>1, <3>2
  <2>3. From(1, r) = B \o From(2, r)
    <3>1. From(1, r) = Before(1, r, From(1 + 1, r)) /\ 1 + 1 = 2 /\ 2 \in 0 .. 4 BY <1>7, FromIs
    <3>2. From(2, r) \in Seq(Element) BY <3>1, FromIs
    <3> QED BY <1>4, <1>5, <1>7, <3>1, <3>2
  <2>4. From(0, r) = A \o From(1, r)
    <3>1. From(0, r) = Before(0, r, From(0 + 1, r)) /\ 0 + 1 = 1 /\ 1 \in 0 .. 4 BY <1>7, FromIs
    <3>2. From(1, r) \in Seq(Element) BY <3>1, FromIs
    <3> QED BY <1>4, <1>5, <1>7, <3>1, <3>2
  <2> QED BY <2>1, <2>2, <2>3, <2>4
<1>11. L \o CRLF \o (A \o B \o C \o D) \o CRLF \o E = L \o (CRLF \o (A \o (B \o (C \o (D \o F)))))
  <2> DEFINE M == A \o B \o C \o D
             G == A \o (B \o (C \o (D \o F)))
  <2>1. \A u, v, w \in Seq(Element) : (u \o v) \o w = u \o (v \o w)
    <3> SUFFICES ASSUME NEW u \in Seq(Element), NEW v \in Seq(Element), NEW w \in Seq(Element)
                 PROVE  (u \o v) \o w = u \o (v \o w)
      OBVIOUS
    <3>1. u \in Seq(Element) /\ v \in Seq(Element) /\ w \in Seq(Element) OBVIOUS
    <3> QED BY ONLY <3>1
  <2>2. \A u, v \in Seq(Element) : u \o v \in Seq(Element) BY ConcatIs
  <2> HIDE DEF F
  <2>3. M \in Seq(Element) BY <1>8, <2>2
  <2>4. M \o F = G
    <3> DEFINE ab == A \o B
               abc == ab \o C
               df == D \o F
               cdf == C \o df
    <3>1. ab \in Seq(Element) /\ df \in Seq(Element) BY <1>8, <1>9, <2>2
    <3> HIDE DEF ab, df
    <3>2. abc \in Seq(Element) /\ cdf \in Seq(Element) BY <1>8, <2>2, <3>1
    <3>3. ab \o C \o df = ab \o (C \o df)
      <4>1. ab \in Seq(Element) /\ C \in Seq(Element) /\ df \in Seq(Element) BY <1>8, <3>1
      <4> QED BY ONLY <4>1, ElementAssoc, ZenonT(40)
    <3> HIDE DEF abc, cdf
    <3>4. abc \o D \o F = abc \o (D \o F)
      <4>1. abc \in Seq(Element) /\ D \in Seq(Element) /\ F \in Seq(Element) BY <1>8, <1>9, <3>2
      <4> QED BY ONLY <4>1, ElementAssoc, ZenonT(40)
    <3>5. A \o B \o cdf = A \o (B \o cdf)
      <4>1. A \in Seq(Element) /\ B \in Seq(Element) /\ cdf \in Seq(Element) BY <1>8, <3>2
      <4> QED BY ONLY <4>1, ElementAssoc, ZenonT(40)
    <3>6. M = abc \o D /\ G = A \o (B \o cdf) BY DEF M, G, abc, ab, cdf, df
    <3> QED BY ONLY <3>3, <3>4, <3>5, <3>6 DEF abc, ab, cdf, df
  <2>5. (L \o CRLF \o M) \o CRLF \o E = (L \o CRLF \o M) \o (CRLF \o E)
    <3>1. L \o CRLF \o M \in Seq(Element) BY <1>2, <1>3, <2>2, <2>3
    <3> QED BY ONLY <1>2, <2>1, <3>1
  <2>6. (L \o CRLF) \o M \o F = (L \o CRLF) \o (M \o F)
    <3>1. L \o CRLF \in Seq(Element) BY <1>2, <1>3, <2>2
    <3> QED BY ONLY <1>9, <2>1, <2>3, <3>1
  <2>7. L \o CRLF \o (M \o F) = L \o (CRLF \o (M \o F))
    <3>1. M \o F \in Seq(Element) BY <1>9, <2>2, <2>3
    <3> QED BY ONLY <1>2, <1>3, <2>1, <3>1
  <2> QED BY <2>4, <2>5, <2>6, <2>7 DEF F
<1> QED BY <1>6, <1>10, <1>11 DEF L


-----------------------------------------------------------------------------
(* Lines in the buffer.                                                    *)

(* A stream is l \o u, however it is cut: its first line, when it is complete in l
   and l does not end with a CR. *)
LEMMA CutLine ==
  ASSUME NEW l \in Seq(Element), NEW u \in Seq(Element), NEW x \in Seq(Element),
         NEW t \in Seq(Element), AllText(x), l \o u = x \o (CRLF \o t)
  PROVE  /\ Len(x) \in Nat
         /\ AllText(l) => Len(l) <= Len(x)
         /\ Len(l) > Len(x) => l[Len(x) + 1] = CR
         /\ \A i \in 1 .. Len(l) : i <= Len(x) => l[i] = x[i] /\ Text(l[i])
         /\ Len(l) >= Len(x) + 2 => l[Len(x) + 2] = LF
         /\ NotCut(l) => Len(l) # Len(x) + 1
         /\ Len(l) >= Len(x) + 2 => Drop(l, Len(x) + 2) \o u = t
<1> DEFINE y == CRLF \o t
           s == l \o u
           n == Len(x)
<1>1. /\ y \in Seq(Element) /\ Len(y) = 2 + Len(t) /\ Len(t) \in Nat /\ y[1] = CR /\ y[2] = LF
      /\ \A i \in 1 .. Len(t) : y[2 + i] = t[i]
  <2>1. /\ y \in Seq(Element) /\ Len(y) = Len(CRLF) + Len(t) /\ Len(t) \in Nat
        /\ \A i \in 1 .. Len(CRLF) : y[i] = CRLF[i]
        /\ \A i \in 1 .. Len(t) : y[Len(CRLF) + i] = t[i]
    <3>1. CRLF \in Seq(Element) /\ t \in Seq(Element) BY TextIs
    <3> QED BY ONLY <3>1, ConcatIs
  <2> HIDE DEF y
  <2>2. Len(CRLF) = 2 /\ CRLF[1] = CR /\ CRLF[2] = LF BY TextIs
  <2> QED BY ONLY <2>1, <2>2
<1> HIDE DEF y
<1>2. /\ Len(s) = n + Len(y) /\ n \in Nat
      /\ \A i \in 1 .. n : s[i] = x[i]
      /\ \A i \in 1 .. Len(y) : s[n + i] = y[i]
  <2>1. x \in Seq(Element) /\ y \in Seq(Element) /\ s = x \o y BY <1>1 DEF y
  <2> HIDE DEF s
  <2> QED BY ONLY <2>1, ConcatIs, SMTT(30) DEF n
<1>3. /\ Len(s) = Len(l) + Len(u) /\ Len(l) \in Nat /\ Len(u) \in Nat
      /\ \A i \in 1 .. Len(l) : s[i] = l[i]
      /\ \A i \in 1 .. Len(u) : s[Len(l) + i] = u[i]
  <2>1. l \in Seq(Element) /\ u \in Seq(Element) OBVIOUS
  <2> QED BY ONLY <2>1, ConcatIs
<1> HIDE DEF s, n
<1>4. ASSUME NEW i \in 1 .. Len(l), i <= n PROVE l[i] = x[i] /\ Text(l[i])
  <2>1. i \in 1 .. n BY <1>2, <1>4
  <2>2. l[i] = x[i] BY ONLY <1>2, <1>3, <1>4, <2>1
  <2> QED BY <2>1, <2>2 DEF AllText, n
<1>5. ASSUME Len(l) > n PROVE l[n + 1] = CR
  <2>1. n + 1 \in 1 .. Len(l) /\ 1 \in 1 .. Len(y) BY <1>1, <1>2, <1>3, <1>5
  <2> QED BY ONLY <1>1, <1>2, <1>3, <2>1
<1>6. ASSUME Len(l) >= n + 2 PROVE l[n + 2] = LF
  <2>1. n + 2 \in 1 .. Len(l) /\ 2 \in 1 .. Len(y) BY <1>1, <1>2, <1>3, <1>6
  <2> QED BY ONLY <1>1, <1>2, <1>3, <2>1
<1>7. AllText(l) => Len(l) <= n
  <2> SUFFICES ASSUME AllText(l), ~(Len(l) <= n) PROVE FALSE
    OBVIOUS
  <2>1. n + 1 \in 1 .. Len(l) /\ Len(l) > n BY <1>2, <1>3
  <2>2. l[n + 1] = CR BY <1>5, <2>1
  <2>3. Text(CR) BY <2>1, <2>2 DEF AllText
  <2> QED BY <2>3, TextIs
<1>8. NotCut(l) => Len(l) # n + 1
  <2> SUFFICES ASSUME NotCut(l), Len(l) = n + 1 PROVE FALSE
    OBVIOUS
  <2>1. l # <<>> /\ Len(l) > n BY <1>2
  <2> QED BY <1>5, <2>1 DEF NotCut
<1>9. ASSUME Len(l) >= n + 2 PROVE Drop(l, n + 2) \o u = t
  <2> DEFINE d == Drop(l, n + 2)
             v == d \o u
  <2>1. n + 2 \in 0 .. Len(l) BY <1>2, <1>3, <1>9
  <2>2. d \in Seq(Element) /\ Len(d) = Len(l) - (n + 2) /\ \A i \in 1 .. Len(l) - (n + 2) : d[i] = l[n + 2 + i]
    BY <2>1, DropIs
  <2> HIDE DEF d
  <2>3. /\ v \in Seq(Element) /\ Len(v) = Len(d) + Len(u)
        /\ \A i \in 1 .. Len(d) : v[i] = d[i]
        /\ \A i \in 1 .. Len(u) : v[Len(d) + i] = u[i]
    <3>1. d \in Seq(Element) /\ u \in Seq(Element) BY <2>2
    <3> QED BY ONLY <3>1, ConcatIs
  <2> HIDE DEF v
  <2>4. Len(v) = Len(t) /\ Len(d) \in Nat
    <3>1. Len(y) = 2 + Len(t) /\ Len(t) \in Nat /\ n \in Nat /\ Len(l) \in Nat /\ Len(u) \in Nat
      BY <1>1, <1>2, <1>3
    <3>2. Len(l) + Len(u) = n + Len(y)
      BY <1>2, <1>3
    <3>3. Len(d) = Len(l) - (n + 2) /\ Len(v) = Len(d) + Len(u)
      BY <2>2, <2>3
    <3> HIDE DEF d, v
    <3> QED BY ONLY <2>1, <3>1, <3>2, <3>3
  <2>5. ASSUME NEW i \in 1 .. Len(v) PROVE v[i] = t[i]
    <3>1. s[n + 2 + i] = t[i]
      <4>1. 2 + i \in 1 .. Len(y) /\ n + (2 + i) = n + 2 + i /\ i \in 1 .. Len(t) BY <1>1, <1>2, <2>4
      <4> QED BY ONLY <1>1, <1>2, <4>1
    <3>2. CASE i <= Len(d)
      <4>1. Len(d) = Len(l) - (n + 2) /\ n \in Nat /\ Len(l) \in Nat /\ Len(d) \in Nat /\ Len(v) \in Nat
        BY <1>1, <1>2, <1>3, <2>2, <2>4
      <4>2. i \in 1 .. Len(v) /\ i <= Len(d) BY <3>2
      <4>3. i \in 1 .. Len(d) /\ i \in 1 .. Len(l) - (n + 2) /\ n + 2 + i \in 1 .. Len(l)
        BY ONLY <4>1, <4>2
      <4> QED BY ONLY <1>3, <2>2, <2>3, <3>1, <4>3
    <3>3. CASE i > Len(d)
      <4> DEFINE j == i - Len(d)
      <4>1. j \in 1 .. Len(u) /\ Len(d) + j = i /\ Len(l) + j = n + 2 + i
        BY ONLY <1>2, <1>3, <2>1, <2>2, <2>3, <2>4, <2>5, <3>3
      <4> HIDE DEF j
      <4>2. v[Len(d) + j] = u[j] /\ s[Len(l) + j] = u[j] BY ONLY <1>3, <2>3, <4>1
      <4> QED BY ONLY <3>1, <4>1, <4>2
    <3> QED BY <2>4, <3>2, <3>3
  <2> QED BY <2>3, <2>4, <2>5, SeqEqual DEF v, d
<1> QED BY <1>2, <1>4, <1>5, <1>6, <1>7, <1>8, <1>9 DEF n

(* A complete line in the buffer is read as a whole. *)
LEMMA LineRead ==
  ASSUME line_buf \in Seq(Element), up \in Seq(Element), NEW x \in Seq(Element),
         NEW t \in Seq(Element), AllText(x), x # <<>>, line_buf \o up = x \o (CRLF \o t),
         NotCut(line_buf), ~AllText(line_buf)
  PROVE  /\ LineText = x /\ AfterLine \in Seq(Element) /\ AfterLine \o up = t /\ NotCut(AfterLine)
         /\ ~EmptyLine
<1> DEFINE l == line_buf
           n == Len(x)
<1>1. /\ n \in Nat
      /\ Len(l) > n => l[n + 1] = CR
      /\ \A i \in 1 .. Len(l) : i <= n => (l[i] = x[i] /\ Text(l[i]))
      /\ Len(l) >= n + 2 => (l[n + 2] = LF /\ Drop(l, n + 2) \o up = t)
      /\ Len(l) # n + 1
  <2>1. /\ Len(x) \in Nat
        /\ AllText(line_buf) => Len(line_buf) <= Len(x)
        /\ Len(line_buf) > Len(x) => line_buf[Len(x) + 1] = CR
        /\ \A i \in 1 .. Len(line_buf) : i <= Len(x) => line_buf[i] = x[i] /\ Text(line_buf[i])
        /\ Len(line_buf) >= Len(x) + 2 => line_buf[Len(x) + 2] = LF
        /\ NotCut(line_buf) => Len(line_buf) # Len(x) + 1
        /\ Len(line_buf) >= Len(x) + 2 => Drop(line_buf, Len(x) + 2) \o up = t
    BY CutLine, Zenon
  <2> QED BY <2>1
<1>2. Len(l) \in Nat /\ l \in Seq(Element) /\ n >= 1
  OBVIOUS
<1> DEFINE e == LineEnd
<1>3. e \in 1 .. Len(l) /\ ~Text(l[e]) /\ \A i \in 1 .. e - 1 : Text(l[i])
  <2>1. LineEnd \in 0 .. Len(l) BY LineEndIs
  <2>2. LineEnd # 0 BY LineEndFirst
  <2> QED BY <1>2, <2>1, <2>2, LineEndFirst
<1> HIDE DEF e, l, n
<1>4. e = n + 1
  <2>1. ~(e <= n) BY <1>1, <1>2, <1>3
  <2>2. ~(e > n + 1)
    <3> SUFFICES ASSUME e > n + 1 PROVE FALSE
      OBVIOUS
    <3>1. n + 1 \in 1 .. e - 1 /\ Len(l) > n BY <1>1, <1>2, <1>3
    <3>2. Text(CR) BY <1>1, <1>3, <3>1
    <3> QED BY <3>2, TextIs
  <2> QED BY <1>1, <1>3, <2>1, <2>2
<1>5. Len(l) >= n + 2 /\ l[n + 1] = CR /\ l[n + 2] = LF /\ Drop(l, n + 2) \o up = t
  BY <1>1, <1>2, <1>3, <1>4
<1>6. LineText = x
  <2>1. n \in 0 .. Len(l) BY <1>1, <1>2, <1>5
  <2>2. Take(l, n) \in Seq(Element) /\ Len(Take(l, n)) = n /\ \A i \in 1 .. n : Take(l, n)[i] = l[i]
    BY <1>2, <2>1, TakeDrop
  <2>3. \A i \in 1 .. n : Take(l, n)[i] = x[i]
    <3>1. \A i \in 1 .. n : i \in 1 .. Len(l) /\ i <= n BY <1>1, <1>2, <1>5
    <3> QED BY <1>1, <2>2, <3>1
  <2>4. Take(l, n) = x BY <2>2, <2>3, SeqEqual DEF n
  <2>5. LineText = Take(l, e - 1) /\ e - 1 = n BY <1>1, <1>4 DEF LineText, e, l
  <2> QED BY <2>4, <2>5
<1>7. AfterLine = Drop(l, n + 2)
  <2> DEFINE d == Drop(l, n + 1)
             f == Drop(l, n + 2)
  <2>1. n + 1 \in 0 .. Len(l) /\ n + 2 \in 0 .. Len(l) BY <1>1, <1>2, <1>5
  <2>2. d \in Seq(Element) /\ Len(d) = Len(l) - (n + 1) /\ \A i \in 1 .. Len(l) - (n + 1) : d[i] = l[n + 1 + i]
    BY <1>2, <2>1, DropIs
  <2>3. f \in Seq(Element) /\ Len(f) = Len(l) - (n + 2) /\ \A i \in 1 .. Len(l) - (n + 2) : f[i] = l[n + 2 + i]
    BY <1>2, <2>1, DropIs
  <2> HIDE DEF d, f
  <2>4. d # <<>> /\ d[1] = LF
    <3>1. 1 \in 1 .. Len(l) - (n + 1) /\ n + 1 + 1 = n + 2 BY <1>1, <1>2, <1>5
    <3> QED BY <1>5, <2>2, <3>1
  <2>5. Tail(d) \in Seq(Element) /\ Len(Tail(d)) = Len(d) - 1 /\ \A i \in 1 .. Len(d) - 1 : Tail(d)[i] = d[i + 1]
    BY ONLY <2>2, <2>4
  <2>6. \A i \in 1 .. Len(d) - 1 : Tail(d)[i] = f[i]
    <3> SUFFICES ASSUME NEW i \in 1 .. Len(d) - 1 PROVE Tail(d)[i] = f[i]
      OBVIOUS
    <3>1. i + 1 \in 1 .. Len(l) - (n + 1) /\ i \in 1 .. Len(l) - (n + 2) /\ n + 1 + (i + 1) = n + 2 + i
      BY <1>1, <1>2, <2>2
    <3> QED BY ONLY <2>2, <2>3, <2>5, <3>1
  <2>7. Tail(d) = f
    <3>1. Len(Tail(d)) = Len(f) BY <1>1, <1>2, <2>2, <2>3, <2>5
    <3> QED BY <2>3, <2>5, <2>6, <3>1, SeqEqual
  <2>8. AfterLine = Tail(d)
    BY <1>4, <1>5, <2>4 DEF AfterLine, e, l, d
  <2> QED BY <2>7, <2>8 DEF f
<1>8. AfterLine \in Seq(Element) /\ NotCut(AfterLine)
  <2> DEFINE f == Drop(l, n + 2)
  <2>1. n + 2 \in 0 .. Len(l) BY <1>1, <1>2, <1>5
  <2>2. f \in Seq(Element) /\ Len(f) = Len(l) - (n + 2) /\ \A i \in 1 .. Len(l) - (n + 2) : f[i] = l[n + 2 + i]
    BY <1>2, <2>1, DropIs
  <2> HIDE DEF f
  <2>3. ASSUME f # <<>> PROVE f[Len(f)] # CR
    <3>1. Len(f) \in 1 .. Len(l) - (n + 2) /\ n + 2 + Len(f) = Len(l) BY <1>1, <1>2, <2>1, <2>2, <2>3
    <3>2. f[Len(f)] = l[Len(l)] BY <2>2, <3>1
    <3>3. l # <<>> BY ONLY <1>1, <1>2, <1>5
    <3> QED BY <3>2, <3>3 DEF NotCut, l
  <2> QED BY <1>7, <2>2, <2>3 DEF NotCut, f
<1>9. ~EmptyLine
  <2>1. 1 \in 1 .. Len(l) /\ 1 <= n BY <1>1, <1>2, <1>5
  <2>2. Text(l[1]) BY <1>1, <2>1
  <2> QED BY <2>2, TextIs DEF EmptyLine, l
<1> QED BY <1>5, <1>6, <1>7, <1>8, <1>9

(* The empty line that ends the head. *)
LEMMA HeadRead ==
  ASSUME line_buf \in Seq(Element), up \in Seq(Element), NEW t \in Seq(Element),
         line_buf \o up = CRLF \o t, NotCut(line_buf), line_buf # <<>>
  PROVE  EmptyLine /\ ~AllText(line_buf) /\ AfterHead \in Seq(Element) /\ AfterHead \o up = t
<1> DEFINE x == <<>>
<1>1. x \in Seq(Element) /\ AllText(x) /\ Len(x) = 0
  BY DEF AllText
<1>2. line_buf \o up = x \o (CRLF \o t)
  <2>1. CRLF \o t \in Seq(Element) BY TextIs, ConcatIs
  <2> QED BY <2>1
<1> HIDE DEF x
<1>3. /\ AllText(line_buf) => Len(line_buf) <= 0
      /\ Len(line_buf) > 0 => line_buf[1] = CR
      /\ Len(line_buf) >= 2 => (line_buf[2] = LF /\ Drop(line_buf, 2) \o up = t)
      /\ Len(line_buf) # 1
  <2>1. /\ Len(x) \in Nat
        /\ AllText(line_buf) => Len(line_buf) <= Len(x)
        /\ Len(line_buf) > Len(x) => line_buf[Len(x) + 1] = CR
        /\ \A i \in 1 .. Len(line_buf) : i <= Len(x) => line_buf[i] = x[i] /\ Text(line_buf[i])
        /\ Len(line_buf) >= Len(x) + 2 => line_buf[Len(x) + 2] = LF
        /\ NotCut(line_buf) => Len(line_buf) # Len(x) + 1
        /\ Len(line_buf) >= Len(x) + 2 => Drop(line_buf, Len(x) + 2) \o up = t
    BY <1>1, <1>2, CutLine, Zenon
  <2>2. Len(x) = 0 /\ Len(x) + 1 = 1 /\ Len(x) + 2 = 2 BY <1>1
  <2>3. NotCut(line_buf) OBVIOUS
  <2> QED BY ONLY <2>1, <2>2, <2>3
<1>4. Len(line_buf) \in Nat /\ Len(line_buf) > 0
  OBVIOUS
<1>5. Len(line_buf) >= 2 /\ line_buf[1] = CR /\ line_buf[2] = LF /\ Drop(line_buf, 2) \o up = t
  <2>1. Len(line_buf) # 1 BY <1>3
  <2> DEFINE k == Len(line_buf)
  <2> HIDE DEF k
  <2>2. k \in Nat /\ k > 0 /\ k # 1 BY <1>4, <2>1 DEF k
  <2>3. k >= 2 BY ONLY <2>2
  <2>4. Len(line_buf) >= 2 BY <2>3 DEF k
  <2> QED BY <1>3, <1>4, <2>4
<1>6. AfterHead = Drop(line_buf, 2)
  BY <1>5 DEF AfterHead
<1>7. Drop(line_buf, 2) \in Seq(Element)
  <2>1. 2 \in 0 .. Len(line_buf) BY <1>4, <1>5
  <2> QED BY <2>1, DropIs
<1>8. EmptyLine
  BY <1>4, <1>5 DEF EmptyLine
<1> QED BY <1>3, <1>4, <1>5, <1>6, <1>7, <1>8


-----------------------------------------------------------------------------
(* The buffers in which the headers are recorded.                          *)

(* No buffer holds more than its size. *)
Buffer == {b \in [size : Nat, data : Seq(Mark)] : Len(b.data) <= b.size}
Content(h) == FlattenSeq([i \in DOMAIN h |-> h[i].data])

(* There is a buffer from the request line on, and nothing is known of a request
   before it. *)
HInv ==
  /\ headers \in Seq(Buffer)
  /\ part = "REQUEST" => req = NoRequest
  /\ part # "REQUEST" => headers # <<>>

(* The rounds of the loop that finds the size of a further buffer. *)
LEMMA NeedsExists ==
  ASSUME NEW n \in Nat, NEW c \in Nat
  PROVE  \E f : f = [k \in 0 .. c |->
                      IF k = 0 THEN HEADERS_MORE
                      ELSE IF n >= f[k - 1] THEN 2 * f[k - 1] ELSE f[k - 1]]
<1> DEFINE V(g, k) == IF n >= g[k - 1] THEN 2 * g[k - 1] ELSE g[k - 1]
           E(f, m) == f = [k \in 0 .. m |-> IF k = 0 THEN HEADERS_MORE ELSE V(f, k)]
           T == {m \in Nat : \E f : E(f, m)}
<1>1. 0 \in T
  <2> DEFINE f == [k \in 0 .. 0 |-> HEADERS_MORE]
  <2>1. f = [k \in 0 .. 0 |-> IF k = 0 THEN HEADERS_MORE ELSE V(f, k)]
    <3> HIDE DEF V
    <3> QED OBVIOUS
  <2> HIDE DEF f, V
  <2> QED BY <2>1
<1>2. ASSUME NEW m \in T PROVE m + 1 \in T
  <2>0. m \in Nat
    OBVIOUS
  <2>1. PICK f : E(f, m)
    OBVIOUS
  <2> DEFINE g == [k \in 0 .. m + 1 |-> IF k <= m THEN f[k] ELSE V(f, k)]
  <2>2. ASSUME NEW k \in 0 .. m + 1
        PROVE  g[k] = IF k = 0 THEN HEADERS_MORE ELSE V(g, k)
    <3>1. k # 0 => k - 1 \in 0 .. m /\ k - 1 \in 0 .. m + 1 /\ k - 1 <= m
      BY <2>0
    <3>2. k # 0 => g[k - 1] = f[k - 1]
      BY <3>1
    <3>3. CASE k <= m
      <4>1. k \in 0 .. m
        BY <2>0, <3>3
      <4>2. g[k] = f[k]
        BY <3>3
      <4>3. f[k] = IF k = 0 THEN HEADERS_MORE ELSE V(f, k)
        BY <2>1, <4>1, Zenon
      <4> HIDE DEF g
      <4> QED BY <3>2, <4>2, <4>3
    <3>4. CASE ~(k <= m)
      <4>1. k # 0
        BY <2>0, <3>4
      <4>2. g[k] = V(f, k)
        BY <3>4
      <4> HIDE DEF g
      <4> QED BY <3>2, <4>1, <4>2
    <3> QED BY <3>3, <3>4
  <2>3. E(g, m + 1)
    <3>1. g = [k \in 0 .. m + 1 |-> g[k]]
      OBVIOUS
    <3> HIDE DEF g, V
    <3> QED BY <2>2, <3>1, Zenon
  <2>4. m + 1 \in Nat
    BY <2>0
  <2> HIDE DEF g, E
  <2> QED BY <2>3, <2>4
<1>3. c \in T
  <2>1. T \subseteq Nat
    OBVIOUS
  <2> HIDE DEF T
  <2> QED BY <1>1, <1>2, <2>1, NatSetInduction
<1> QED BY <1>3

(* There is room for more than n elements. *)
LEMMA MoreSizeFits ==
  ASSUME NEW n \in Nat
  PROVE  MoreSize(n) \in Nat /\ n < MoreSize(n)
<1> DEFINE E(f) == f = [k \in 0 .. n |->
                        IF k = 0 THEN HEADERS_MORE
                        ELSE IF n >= f[k - 1] THEN 2 * f[k - 1] ELSE f[k - 1]]
           f == CHOOSE g : E(g)
<1>1. E(f)
  <2>1. \E g : E(g)
    BY NeedsExists
  <2> HIDE DEF E
  <2> QED BY <2>1
<1>2. MoreSize(n) = f[n]
  BY Zenon DEF MoreSize
<1> HIDE DEF f
<1>3. ASSUME NEW k \in 0 .. n
      PROVE  f[k] = IF k = 0 THEN HEADERS_MORE
                    ELSE IF n >= f[k - 1] THEN 2 * f[k - 1] ELSE f[k - 1]
  BY <1>1, Zenon
<1> HIDE DEF E
<1> DEFINE T == {k \in Nat : k <= n => f[k] \in Nat /\ (k < f[k] \/ n < f[k])}
<1>4. T \subseteq Nat /\ 0 \in T
  <2>1. 0 \in 0 .. n
    OBVIOUS
  <2>2. f[0] = HEADERS_MORE
    BY <1>3, <2>1
  <2> QED BY <2>2, HttpAssumption
<1>5. ASSUME NEW k \in T PROVE k + 1 \in T
  <2>1. k \in Nat /\ (k <= n => f[k] \in Nat /\ (k < f[k] \/ n < f[k]))
    OBVIOUS
  <2> SUFFICES ASSUME k + 1 <= n PROVE f[k + 1] \in Nat /\ (k + 1 < f[k + 1] \/ n < f[k + 1])
    BY <2>1
  <2>2. k + 1 \in 0 .. n /\ k + 1 # 0 /\ (k + 1) - 1 = k /\ k <= n
    BY <2>1
  <2>3. f[k + 1] = IF n >= f[k] THEN 2 * f[k] ELSE f[k]
    BY <1>3, <2>2
  <2>4. f[k] \in Nat /\ (k < f[k] \/ n < f[k])
    BY <2>1, <2>2
  <2> QED BY <2>1, <2>3, <2>4
<1>6. n \in T
  <2> HIDE DEF T
  <2> QED BY <1>4, <1>5, NatSetInduction
<1> QED BY <1>2, <1>6

(* The recorded data is a list of such marks. *)
LEMMA ContentType ==
  ASSUME NEW h \in Seq(Buffer)
  PROVE  [i \in DOMAIN h |-> h[i].data] \in Seq(Seq(Mark)) /\ Content(h) \in Seq(Mark)
<1> DEFINE d == [i \in DOMAIN h |-> h[i].data]
<1>1. d \in Seq(Seq(Mark))
  <2>1. DOMAIN h = 1 .. Len(h) /\ Len(h) \in Nat /\ \A i \in 1 .. Len(h) : h[i] \in Buffer
    OBVIOUS
  <2>2. \A i \in 1 .. Len(h) : h[i].data \in Seq(Mark)
    BY <2>1 DEF Buffer
  <2> QED BY <2>1, <2>2
<1> HIDE DEF d
<1> QED BY <1>1, FlattenType DEF Content, d

(* One buffer more. *)
LEMMA ContentAppend ==
  ASSUME NEW h \in Seq(Buffer), NEW b \in Buffer
  PROVE  Content(Append(h, b)) = Content(h) \o b.data
<1> DEFINE d == [i \in DOMAIN h |-> h[i].data]
           g == Append(h, b)
           e == [i \in DOMAIN g |-> g[i].data]
<1>1. d \in Seq(Seq(Mark)) /\ b.data \in Seq(Mark)
  BY ContentType DEF Buffer
<1>2. /\ g \in Seq(Buffer) /\ Len(g) = Len(h) + 1 /\ Len(h) \in Nat
      /\ g[Len(h) + 1] = b /\ \A i \in 1 .. Len(h) : g[i] = h[i]
      /\ DOMAIN h = 1 .. Len(h) /\ DOMAIN g = 1 .. Len(h) + 1
  BY AppendProperties
<1> HIDE DEF g
<1>3. e = Append(d, b.data)
  <2>1. Len(d) = Len(h) /\ \A i \in 1 .. Len(h) : d[i] = h[i].data
    BY <1>2
  <2>2. e \in Seq(Seq(Mark)) /\ Len(e) = Len(h) + 1 /\ \A i \in 1 .. Len(h) + 1 : e[i] = g[i].data
    <3>1. e \in Seq(Seq(Mark))
      BY <1>2, ContentType
    <3> QED BY <1>2, <3>1
  <2> DEFINE x == Append(d, b.data)
  <2>3. /\ x \in Seq(Seq(Mark)) /\ Len(x) = Len(h) + 1 /\ x[Len(h) + 1] = b.data
        /\ \A i \in 1 .. Len(h) : x[i] = h[i].data
    BY <1>1, <2>1, AppendProperties
  <2> HIDE DEF d, e, x
  <2>4. \A i \in 1 .. Len(h) + 1 : i # Len(h) + 1 => i \in 1 .. Len(h)
    BY <1>2
  <2>5. \A i \in 1 .. Len(e) : e[i] = x[i]
    BY <1>2, <2>2, <2>3, <2>4
  <2>6. e = x
    BY <2>2, <2>3, <2>5, SeqEqual
  <2> QED BY <2>6 DEF x
<1> HIDE DEF d
<1> QED BY <1>1, <1>3, FlattenAppend DEF Content, d, g

(* Data that is added to a buffer with room for it. *)
LEMMA BufferGrows ==
  ASSUME NEW b \in Buffer, NEW d \in Seq(Mark), Len(b.data) + Len(d) <= b.size
  PROVE  [b EXCEPT !.data = @ \o d] \in Buffer /\ [b EXCEPT !.data = @ \o d].data = b.data \o d
<1>1. b \in [size : Nat, data : Seq(Mark)] /\ b.data \in Seq(Mark)
  BY DEF Buffer
<1>2. b.data \o d \in Seq(Mark) /\ Len(b.data \o d) = Len(b.data) + Len(d)
  BY <1>1
<1> DEFINE c == [b EXCEPT !.data = @ \o d]
<1>3. c \in [size : Nat, data : Seq(Mark)] /\ c.data = b.data \o d /\ c.size = b.size
  BY <1>1, <1>2
<1> HIDE DEF c
<1>4. c \in Buffer
  BY <1>2, <1>3 DEF Buffer
<1> QED BY <1>3, <1>4 DEF c

(* What is cut is whole. *)
LEMMA CutWhole ==
  ASSUME NEW S, NEW s \in Seq(S), NEW n \in 0 .. Len(s)
  PROVE  s = Take(s, n) \o Drop(s, n)
BY CutSeq DEF Take, Drop

(* Recording a line that is not empty adds it and its newline to what is recorded,
   whether it is split or not. *)
LEMMA RecordAdds ==
  ASSUME NEW h \in Seq(Buffer), h # <<>>, NEW line \in Seq(Mark), line # <<>>
  PROVE  /\ Record(h, line) \in Seq(Buffer) /\ Record(h, line) # <<>>
         /\ Content(Record(h, line)) = Content(h) \o Append(line, NL)
<1> DEFINE b == Last(h)
           fits == b.size - Len(b.data)
           f == Front(h)
<1>1. f \in Seq(Buffer) /\ b \in Buffer /\ h = Append(f, b)
  BY FrontLast
<1>2. Content(h) = Content(f) \o b.data /\ Content(f) \in Seq(Mark)
  BY <1>1, ContentAppend, ContentType
<1>3. /\ b.data \in Seq(Mark) /\ b.size \in Nat /\ Len(b.data) <= b.size /\ Len(b.data) \in Nat
      /\ Len(line) \in Nat /\ NL \in Mark
  BY <1>1 DEF Buffer, Mark
<1>4. Append(line, NL) \in Seq(Mark) /\ Len(Append(line, NL)) = Len(line) + 1
  BY <1>3
<1> DEFINE whole == [b EXCEPT !.data = @ \o Append(line, NL)]
           filled == [b EXCEPT !.data = @ \o Take(line, fits)]
           rest == Append(Drop(line, fits), NL)
           size == MoreSize(Len(line) + 1 - fits)
           more == [alloc_buffer(size) EXCEPT !.data = rest]
<1>5. Record(h, line) = IF Len(b.data) + Len(line) + 1 > b.size
                        THEN f \o <<filled, more>> ELSE Append(f, whole)
  BY DEF Record
<1> HIDE DEF f, b, whole, filled, rest, size, more, fits
<1>6. CASE ~(Len(b.data) + Len(line) + 1 > b.size)
  <2>1. Len(b.data) + Len(Append(line, NL)) <= b.size
    <3> DEFINE x == Len(b.data)
               y == Len(line)
               z == b.size
    <3>1. x \in Nat /\ y \in Nat /\ z \in Nat /\ ~(x + y + 1 > z)
      BY <1>3, <1>6
    <3> HIDE DEF x, y, z
    <3>2. x + (y + 1) <= z
      BY ONLY <3>1
    <3> QED BY <1>4, <3>2 DEF x, y, z
  <2>2. whole \in Buffer /\ whole.data = b.data \o Append(line, NL)
    BY <1>1, <1>4, <2>1, BufferGrows DEF whole
  <2>3. Record(h, line) = Append(f, whole)
    BY <1>5, <1>6
  <2>4. Append(f, whole) \in Seq(Buffer) /\ Append(f, whole) # <<>>
    BY <1>1, <2>2
  <2>5. Content(Append(f, whole)) = Content(f) \o (b.data \o Append(line, NL))
    BY <1>1, <2>2, ContentAppend
  <2>6. (Content(f) \o b.data) \o Append(line, NL) = Content(f) \o (b.data \o Append(line, NL))
    <3> DEFINE c == Content(f)
               d == b.data
               t == Append(line, NL)
    <3>1. c \in Seq(Mark) /\ d \in Seq(Mark) /\ t \in Seq(Mark)
      BY <1>2, <1>3, <1>4
    <3> HIDE DEF c, d, t
    <3>2. (c \o d) \o t = c \o (d \o t)
      BY ONLY <3>1, MarkAssoc, ZenonT(40)
    <3> QED BY <3>2 DEF c, d, t
  <2> QED BY <1>2, <2>3, <2>4, <2>5, <2>6
<1>7. CASE Len(b.data) + Len(line) + 1 > b.size
  <2>1. fits \in 0 .. Len(line) /\ fits \in Nat /\ Len(line) + 1 - fits \in Nat
    <3> DEFINE x == Len(b.data)
               y == Len(line)
               z == b.size
    <3>1. x \in Nat /\ y \in Nat /\ z \in Nat /\ x <= z /\ x + y + 1 > z /\ fits = z - x
      BY <1>3, <1>7 DEF fits
    <3> HIDE DEF x, y, z
    <3>2. fits \in 0 .. y /\ fits \in Nat /\ y + 1 - fits \in Nat
      BY ONLY <3>1
    <3> QED BY <3>2 DEF y
  <2>2. /\ Take(line, fits) \in Seq(Mark) /\ Len(Take(line, fits)) = fits
        /\ Drop(line, fits) \in Seq(Mark) /\ Len(Drop(line, fits)) = Len(line) - fits
    BY <2>1, TakeDrop
  <2>3. Len(b.data) + Len(Take(line, fits)) <= b.size
    <3>1. Len(b.data) + fits = b.size
      BY ONLY <1>3 DEF fits
    <3> QED BY <1>3, <2>2, <3>1
  <2>4. filled \in Buffer /\ filled.data = b.data \o Take(line, fits)
    BY <1>1, <2>2, <2>3, BufferGrows DEF filled
  <2>5. rest \in Seq(Mark) /\ Len(rest) = Len(line) - fits + 1
    BY <1>3, <2>2 DEF rest
  <2>6. size \in Nat /\ Len(line) + 1 - fits < size
    BY <2>1, MoreSizeFits DEF size
  <2>7. more = [size |-> size, data |-> rest]
    BY DEF alloc_buffer, more
  <2>8. more \in Buffer /\ more.data = rest
    <3>1. Len(rest) <= size
      BY <1>3, <2>1, <2>5, <2>6
    <3> QED BY <2>5, <2>6, <2>7, <3>1 DEF Buffer
  <2>9. f \o <<filled, more>> = Append(Append(f, filled), more)
    BY <1>1, <2>4, <2>8
  <2>10. Append(f, filled) \in Seq(Buffer)
    BY <1>1, <2>4
  <2> DEFINE g == Append(f, filled)
  <2> HIDE DEF g
  <2>11. /\ Append(g, more) \in Seq(Buffer) /\ Append(g, more) # <<>>
         /\ Content(Append(g, more)) = Content(g) \o rest
    <3>1. g \in Seq(Buffer)
      BY <2>10 DEF g
    <3>2. Append(g, more) \in Seq(Buffer) /\ Append(g, more) # <<>>
      BY <2>8, <3>1
    <3> QED BY <2>8, <3>1, <3>2, ContentAppend
  <2>12. Content(g) = Content(f) \o (b.data \o Take(line, fits))
    BY <1>1, <2>4, ContentAppend DEF g
  <2>13. Append(line, NL) = Take(line, fits) \o rest
    <3>1. line = Take(line, fits) \o Drop(line, fits)
      BY <2>1, CutWhole
    <3>2. Take(line, fits) \o Append(Drop(line, fits), NL) = Append(Take(line, fits) \o Drop(line, fits), NL)
      BY ONLY <1>3, <2>2, ConcatAppend, SMTT(30)
    <3> QED BY <3>1, <3>2 DEF rest
  <2> DEFINE c == Content(f)
             d == b.data
             t == Take(line, fits)
  <2>14. c \in Seq(Mark) /\ d \in Seq(Mark) /\ t \in Seq(Mark) /\ rest \in Seq(Mark)
    BY <1>2, <1>3, <2>2, <2>5
  <2> HIDE DEF c, d, t
  <2>15. (c \o (d \o t)) \o rest = (c \o d) \o (t \o rest)
    <3>1. c \o (d \o t) = (c \o d) \o t /\ c \o d \in Seq(Mark)
      <4>1. c \in Seq(Mark) /\ d \in Seq(Mark) /\ t \in Seq(Mark)
        BY <2>14
      <4> QED BY ONLY <4>1, SMT
    <3>2. ((c \o d) \o t) \o rest = (c \o d) \o (t \o rest)
      <4>1. c \o d \in Seq(Mark) /\ t \in Seq(Mark) /\ rest \in Seq(Mark)
        BY <2>14, <3>1
      <4> DEFINE u == c \o d
      <4> HIDE DEF u
      <4>2. u \in Seq(Mark) /\ t \in Seq(Mark) /\ rest \in Seq(Mark)
        BY <4>1 DEF u
      <4>3. (u \o t) \o rest = u \o (t \o rest)
        BY ONLY <4>2, MarkAssoc, ZenonT(40)
      <4> QED BY <4>3 DEF u
    <3> QED BY <3>1, <3>2
  <2>16. Content(Append(g, more)) = Content(h) \o Append(line, NL)
    BY <1>2, <2>11, <2>12, <2>13, <2>15 DEF c, d, t
  <2> QED BY <1>5, <1>7, <2>9, <2>11, <2>16 DEF g
<1> QED BY <1>6, <1>7

(* The method is recorded first. *)
LEMMA MethodRecorded ==
  ASSUME NEW m \in Method
  PROVE  /\ RecordMethod(m) \in Seq(Buffer) /\ RecordMethod(m) # <<>>
         /\ Content(RecordMethod(m)) = MethodLine(m) /\ MethodLine(m) \in Seq(Mark)
<1> DEFINE d == MethodLine(m)
           b == [size |-> HEADERS_SIZE, data |-> d]
<1>1. d \in Seq(Mark) /\ Len(d) = 2
  BY DEF MethodLine, Mark
<1>2. HEADERS_SIZE \in Nat /\ HEADERS_SIZE >= 2
  BY HttpAssumption
<1>3. RecordMethod(m) = <<b>>
  BY <1>1, <1>2 DEF RecordMethod, alloc_buffer
<1> HIDE DEF d
<1>4. b \in Buffer /\ b.data = d
  BY <1>1, <1>2 DEF Buffer
<1> HIDE DEF b
<1>5. <<b>> \in Seq(Buffer) /\ <<b>> # <<>> /\ <<>> \in Seq(Buffer) /\ Append(<<>>, b) = <<b>>
  BY <1>4
<1>6. Content(<<b>>) = Content(<<>>) \o d
  BY <1>4, <1>5, ContentAppend
<1>7. Content(<<>>) = <<>>
  <2>1. [i \in DOMAIN <<>> |-> <<>>[i].data] = <<>>
    OBVIOUS
  <2> QED BY <2>1, FlattenEmpty DEF Content
<1>8. <<>> \o d = d
  BY <1>1
<1> QED BY <1>1, <1>3, <1>5, <1>6, <1>7, <1>8 DEF d

(* The buffers are always such, and there is one when headers are recorded. *)
LEMMA HInvHolds == Spec => []HInv
<1>1. Init => HInv
  <2>1. <<>> \in Seq(Buffer)
    OBVIOUS
  <2> QED BY <2>1 DEF Init, HInv
<1>2. IInv /\ HInv /\ [Next]_vars => HInv'
  <2> SUFFICES ASSUME IInv, HInv, [Next]_vars PROVE HInv'
    OBVIOUS
  <2>1. Buffer' = Buffer
    BY DEF Buffer, Mark, Element, Method, Path, NL
  <2>2. <<>> \in Seq(Buffer)
    OBVIOUS
  <2>3. ASSUME UNCHANGED <<headers, part, req>> PROVE HInv'
    BY <2>1, <2>3 DEF HInv, NoRequest
  <2>4. ASSUME headers' = <<>>, part' = "REQUEST", req' = NoRequest PROVE HInv'
    BY <2>1, <2>2, <2>4 DEF HInv, NoRequest
  <2>5. \A f, b : Closes(f, b) => HInv'
    BY <2>4 DEF Closes
  <2>6. \A f, b, rest : Resets(f, b, rest) => HInv'
    BY <2>4 DEF Resets, Cleared
  <2>7. ASSUME NEW closing, NEW rest, Finishes(closing, rest) PROVE HInv'
    BY <2>3, <2>5, <2>6, <2>7 DEF Finishes, Overruns
  <2>8. \A code : Rejects(code) => HInv'
    BY <2>5 DEF Rejects
  <2>9. ASSUME http_input_iteration PROVE HInv'
    <3>1. ASSUME NEW n, recv_line(n) \/ recv_body(n) PROVE HInv'
      BY <2>3, <3>1 DEF recv_line, recv_body
    <3>2. CASE recv_line_eof
      BY <2>5, <2>7, <3>2 DEF recv_line_eof
    <3>3. CASE parse_incomplete
      BY <2>3, <3>3 DEF parse_incomplete
    <3>4. CASE parse_request_line
      <4>1. CASE Rejects(400)
        BY <2>8, <4>1
      <4>2. CASE /\ Len(LineText) = 1 /\ LineText[1].t = "request"
                 /\ headers' = RecordMethod(LineText[1].method) /\ part' = "HEADER"
        <5>1. LineText[1] \in Element
          BY <3>4, <4>2, LineIs DEF parse_request_line
        <5>2. LineText[1].method \in Method
          BY <4>2, <5>1 DEF Element
        <5> QED BY <2>1, <4>2, <5>2, MethodRecorded DEF HInv
      <4> QED BY <3>4, <4>1, <4>2 DEF parse_request_line
    <3>5. CASE parse_header
      <4>1. LineText \in Seq(Element)
        BY <3>5, LineIs DEF parse_header
      <4>2. LineText \in Seq(Mark)
        BY <4>1 DEF Mark
      <4>3. /\ headers \in Seq(Buffer) /\ headers # <<>> /\ headers' = Record(headers, LineText)
            /\ part' = "HEADER"
        BY <3>5 DEF parse_header, HInv
      <4>4. CASE LineText = <<>>
        <5>1. headers' = headers
          BY <4>3, <4>4 DEF Record
        <5> QED BY <2>1, <4>3, <5>1 DEF HInv
      <4>5. CASE LineText # <<>>
        BY <2>1, <4>2, <4>3, <4>5, RecordAdds DEF HInv
      <4> QED BY <4>4, <4>5
    <3>6. CASE head_rejected
      BY <2>8, <3>6 DEF head_rejected
    <3>7. CASE head_processed
      BY <2>7, <3>7 DEF head_processed
    <3>8. ASSUME NEW b, head_body(b) PROVE HInv'
      <4>1. headers' = headers /\ part' = "BODY" /\ req.length > 0
        BY <3>8 DEF head_body, HasBody
      <4>2. NoRequest.length = -1
        BY DEF NoRequest
      <4>3. part # "REQUEST"
        BY <4>1, <4>2 DEF HInv
      <4> QED BY <2>1, <4>1, <4>3 DEF HInv
    <3>9. CASE recv_body_eof
      BY <2>7, <3>9 DEF recv_body_eof
    <3>10. CASE body_processed
      BY <2>7, <3>10 DEF body_processed
    <3> QED BY <2>9, <3>1, <3>2, <3>3, <3>4, <3>5, <3>6, <3>7, <3>8, <3>9, <3>10 DEF http_input_iteration
  <2>10. ASSUME recv_error \/ http_connected PROVE HInv'
    BY <2>4, <2>5, <2>10 DEF recv_error, http_connected
  <2>11. ASSUME NEW r, client_sends(r) \/ client_closes(r) PROVE HInv'
    BY <2>3, <2>11 DEF client_sends, client_closes, connVars
  <2>12. ASSUME o_put \/ o_get_remove \/ evq_pop \/ UNCHANGED vars PROVE HInv'
    BY <2>3, <2>12 DEF o_put, o_get_remove, evq_pop, connVars, vars
  <2> QED BY <2>9, <2>10, <2>11, <2>12 DEF Next
<1> QED BY <1>1, <1>2, IInvHolds, PTL DEF Spec

-----------------------------------------------------------------------------
(* How a request comes along.                                              *)

(* What has been received and what has not make up the stream. *)
LEMMA Moved ==
  ASSUME NEW l \in Seq(Element), NEW u \in Seq(Element), NEW n \in 0 .. Len(u)
  PROVE  /\ (l \o Take(u, n)) \o Drop(u, n) = l \o u
         /\ l \o (Take(u, n) \o Drop(u, n)) = l \o u
         /\ Take(u, n) \in Seq(Element) /\ Drop(u, n) \in Seq(Element)
<1> DEFINE a == Take(u, n)
           b == Drop(u, n)
<1>1. l \in Seq(Element) /\ a \in Seq(Element) /\ b \in Seq(Element)
  BY TakeDrop
<1>2. u = a \o b
  BY CutWhole
<1> HIDE DEF a, b
<1>3. (l \o a) \o b = l \o (a \o b)
  BY ONLY <1>1, ElementAssoc, ZenonT(40)
<1> QED BY <1>1, <1>2, <1>3 DEF a, b

(* Text and text is text. *)
LEMMA TextParts ==
  ASSUME NEW a \in Seq(Element), NEW b \in Seq(Element)
  PROVE  AllText(a \o b) <=> AllText(a) /\ AllText(b)
<1> DEFINE v == a \o b
<1>1. /\ v \in Seq(Element) /\ Len(v) = Len(a) + Len(b)
      /\ \A i \in 1 .. Len(a) : v[i] = a[i]
      /\ \A i \in 1 .. Len(b) : v[Len(a) + i] = b[i]
      /\ Len(a) \in Nat /\ Len(b) \in Nat
  BY ConcatIs
<1> HIDE DEF v
<1>2. ASSUME AllText(v) PROVE AllText(a) /\ AllText(b)
  <2>1. ASSUME NEW i \in 1 .. Len(a) PROVE Text(a[i])
    <3>1. i \in 1 .. Len(v) /\ v[i] = a[i] BY <1>1
    <3> QED BY <1>2, <3>1 DEF AllText
  <2>2. ASSUME NEW i \in 1 .. Len(b) PROVE Text(b[i])
    <3>1. Len(a) + i \in 1 .. Len(v) /\ v[Len(a) + i] = b[i] BY <1>1
    <3> QED BY <1>2, <3>1 DEF AllText
  <2> QED BY <2>1, <2>2 DEF AllText
<1>3. ASSUME AllText(a), AllText(b) PROVE AllText(v)
  <2> SUFFICES ASSUME NEW i \in 1 .. Len(v) PROVE Text(v[i])
    BY DEF AllText
  <2>1. CASE i <= Len(a)
    <3>1. i \in 1 .. Len(a) BY <1>1, <2>1
    <3> QED BY <1>1, <1>3, <3>1 DEF AllText
  <2>2. CASE i > Len(a)
    <3> DEFINE j == i - Len(a)
    <3>1. j \in 1 .. Len(b) /\ Len(a) + j = i BY <1>1, <2>2
    <3> HIDE DEF j
    <3> QED BY <1>1, <1>3, <3>1 DEF AllText
  <2> QED BY <1>1, <2>1, <2>2
<1> QED BY <1>2, <1>3 DEF v

(* No response of the handler announces the end of the connection. *)
LEMMA OutcomeReplies ==
  ASSUME NEW o \in http_process(req)
  PROVE  o.resp.delim # "close"
<1>1. ASSUME o \in process_get(req) PROVE o.resp.delim # "close"
  BY <1>1 DEF process_get, Outcome, Response
<1>2. ASSUME o \in process_delete(req) PROVE o.resp.delim # "close"
  BY <1>2 DEF process_delete, Outcome, Response
<1>3. ASSUME o \in process_put(req) PROVE o.resp.delim # "close"
  <2> DEFINE x == Outcome(req, Response(200, "length"))
  <2>1. o = [x EXCEPT !.store = <<[kind |-> "raw", block |-> req.body]>> \o x.store, !.body = NULL]
    BY <1>3 DEF process_put
  <2>2. x.resp.delim = "length" /\ x = [resp |-> x.resp, store |-> x.store, queue |-> x.queue, body |-> x.body]
    BY DEF Outcome, Response
  <2> HIDE DEF x
  <2> QED BY <2>1, <2>2
<1>4. ASSUME o \in process_work(req) PROVE o.resp.delim # "close"
  <2> DEFINE x == Outcome(req, Response(200, "length"))
  <2>1. \/ o = [x EXCEPT !.queue = Append(x.queue, req.body), !.body = NULL]
        \/ \E code \in {501, 405, 403} : o = Outcome(req, Response(code, "length"))
    BY <1>4 DEF process_work
  <2>2. x.resp.delim = "length" /\ x = [resp |-> x.resp, store |-> x.store, queue |-> x.queue, body |-> x.body]
    BY DEF Outcome, Response
  <2>3. \A code : Outcome(req, Response(code, "length")).resp.delim = "length"
    BY DEF Outcome, Response
  <2> HIDE DEF x
  <2>4. CASE o = [x EXCEPT !.queue = Append(x.queue, req.body), !.body = NULL] BY <2>2, <2>4
  <2>5. CASE \E code \in {501, 405, 403} : o = Outcome(req, Response(code, "length")) BY <2>3, <2>5
  <2> QED BY <2>1, <2>4, <2>5
<1>5. ASSUME o = Outcome(req, Response(404, "length")) PROVE o.resp.delim # "close"
  BY <1>5 DEF Outcome, Response
<1> QED BY <1>1, <1>2, <1>3, <1>4, <1>5 DEF http_process


(* The worker leaves the connection when it closes the socket, and only then. *)
LEMMA EndsStep ==
  ASSUME pc = "end" <=> sock = "closed", Next
  PROVE  pc' = "end" <=> sock' = "closed"
<1> USE DEF clientVars, connVars, heapVars
<1>1. \A f, b : Closes(f, b) => pc' = "end" /\ sock' = "closed"
  BY DEF Closes
<1>2. \A f, b, rest : Resets(f, b, rest) => pc' = "recv" /\ sock' = sock
  BY DEF Resets
<1>3. ASSUME NEW closing, NEW rest, Finishes(closing, rest), pc # "end" PROVE pc' = "end" <=> sock' = "closed"
  BY <1>1, <1>2, <1>3 DEF Finishes, Overruns
<1>4. ASSUME NEW code, Rejects(code) PROVE pc' = "end" <=> sock' = "closed"
  BY <1>1, <1>4 DEF Rejects
<1>5. ASSUME http_input_iteration PROVE pc' = "end" <=> sock' = "closed"
  <2>1. ASSUME NEW n, recv_line(n) \/ recv_body(n) PROVE pc' = "end" <=> sock' = "closed"
    BY <2>1 DEF recv_line, recv_body
  <2>2. CASE recv_line_eof BY <1>1, <1>3, <2>2 DEF recv_line_eof
  <2>3. CASE parse_incomplete BY <2>3 DEF parse_incomplete
  <2>4. CASE parse_request_line BY <1>4, <2>4 DEF parse_request_line, NextLine, CompleteLine
  <2>5. CASE parse_header BY <2>5 DEF parse_header, NextLine, CompleteLine
  <2>6. CASE head_rejected BY <1>4, <2>6 DEF head_rejected
  <2>7. CASE head_processed BY <1>3, <2>7 DEF head_processed, HeadEnds
  <2>8. ASSUME NEW b, head_body(b) PROVE pc' = "end" <=> sock' = "closed"
    BY <2>8 DEF head_body, HeadEnds
  <2>9. CASE recv_body_eof BY <1>3, <2>9 DEF recv_body_eof
  <2>10. CASE body_processed BY <1>3, <2>10 DEF body_processed
  <2> QED BY <1>5, <2>1, <2>2, <2>3, <2>4, <2>5, <2>6, <2>7, <2>8, <2>9, <2>10 DEF http_input_iteration
<1>6. ASSUME recv_error PROVE pc' = "end" <=> sock' = "closed"
  BY <1>1, <1>6 DEF recv_error
<1>7. ASSUME http_connected PROVE pc' = "end" <=> sock' = "closed"
  BY <1>7 DEF http_connected
<1>8. ASSUME NEW r, client_sends(r) \/ client_closes(r) PROVE pc' = "end" <=> sock' = "closed"
  BY <1>8 DEF client_sends, client_closes
<1>9. ASSUME o_put \/ o_get_remove \/ evq_pop PROVE pc' = "end" <=> sock' = "closed"
  BY <1>9 DEF o_put, o_get_remove, evq_pop
<1> QED BY <1>5, <1>6, <1>7, <1>8, <1>9 DEF Next

(* A request that is handled as it was meant is answered. *)
LEMMA FinishesProgress ==
  ASSUME client = "open", Pending, NEW closing, NEW rest, Finishes(closing, rest),
         UNCHANGED <<clientVars, up>>, AllText(rest), closing \/ AllText(up),
         LinesFit(asked) => Seen.req = Meant(asked) /\ Recorded = Noted(4, asked)
  PROVE  Progress'
<1>1. asked' = asked /\ asked # NULL /\ out = <<>> /\ handled = <<>> /\ up' = up
  BY DEF clientVars, Pending
<1> DEFINE e == Seen
<1>2. Append(<<>>, e) = <<e>> /\ Len(<<e>>) = 1 /\ <<e>>[1] = e
  OBVIOUS
<1>3. LinesFit(asked) => e.req = Meant(asked) /\ e.recorded = Noted(4, asked)
  <2>1. e.recorded = Recorded
    BY DEF Seen
  <2> QED BY <2>1
<1>4. CASE Overruns
  <2>1. pc' = "undefined" /\ out' = <<>> /\ handled' = <<e>> BY <1>1, <1>2, <1>4 DEF Overruns
  <2> HIDE DEF e
  <2>2. LinesFit(asked)' <=> LinesFit(asked) BY <1>1 DEF LinesFit
  <2>3. Meant(asked)' = Meant(asked) /\ Noted(4, asked)' = Noted(4, asked) BY <1>1 DEF Meant
  <2> QED BY <1>1, <1>2, <1>3, <2>1, <2>2, <2>3 DEF Progress
<1>5. ASSUME NEW o \in http_process(req), Processes(o),
             IF closing THEN Closes(free, o.body) ELSE Resets(free, o.body, rest)
      PROVE  Progress'
  <2>1. out' = <<o.resp>> BY <1>1, <1>5 DEF Processes, Sends
  <2>2. handled' = <<e>> BY <1>1, <1>2, <1>5 DEF Processes
  <2>3. o.resp.delim # "close" BY OutcomeReplies
  <2> HIDE DEF e
  <2>4. Replied' BY <1>2, <2>1, <2>2, <2>3 DEF Replied
  <2>5. LinesFit(asked)' <=> LinesFit(asked) BY <1>1 DEF LinesFit
  <2>6. Meant(asked)' = Meant(asked) /\ Noted(4, asked)' = Noted(4, asked) BY <1>1 DEF Meant
  <2>7. CASE closing
    <3>1. pc' = "end" BY <1>5, <2>7 DEF Closes
    <3> QED BY <1>1, <1>2, <1>3, <2>2, <2>4, <2>5, <2>6, <3>1 DEF Progress
  <2>8. CASE ~closing
    <3>1. pc' = "recv" /\ part' = "REQUEST" /\ line_buf' = rest /\ req' = NoRequest
      BY <1>5, <2>8 DEF Resets, Cleared
    <3>2. Idle' BY <1>1, <2>4, <2>8, <3>1 DEF Idle, AllText, NoRequest
    <3> QED BY <1>1, <1>2, <1>3, <2>2, <2>5, <2>6, <3>1, <3>2 DEF Progress
  <2> QED BY <2>7, <2>8
<1> QED BY <1>4, <1>5 DEF Finishes

(* A request that is rejected is answered. *)
LEMMA RejectsProgress ==
  ASSUME client = "open", Pending, NEW code, Rejects(code)
  PROVE  Progress'
<1>1. asked' = asked /\ asked # NULL /\ out = <<>> /\ handled' = <<>> /\ pc' = "end"
  BY DEF clientVars, Pending, Rejects, Closes
<1>2. out' = <<Response(code, "close")>>
  BY <1>1 DEF Rejects, Sends
<1>3. Refused'
  BY <1>1, <1>2 DEF Refused, Response
<1> QED BY <1>1, <1>3 DEF Progress

(* A connection that ends without a response. *)
LEMMA ClosesProgress ==
  ASSUME Progress, pc = "recv", NEW b, Closes(free, b), UNCHANGED <<clientVars, out, handled>>
  PROVE  Progress'
<1>1. pc' = "end" /\ asked' = asked /\ out' = out /\ handled' = handled
  BY DEF Closes, clientVars
<1>2. Idle \/ Reading
  BY DEF Progress
<1>3. asked # NULL => Pending \/ Replied
  BY <1>2 DEF Idle, Reading
<1>4. /\ Pending' = Pending /\ Replied' = Replied /\ LinesFit(asked)' = LinesFit(asked) /\ Meant(asked)' = Meant(asked)
      /\ Noted(4, asked)' = Noted(4, asked)
  BY <1>1 DEF Pending, Replied, LinesFit, Meant
<1> QED BY <1>1, <1>3, <1>4 DEF Progress


(* In text there is no line end and no empty line. *)
LEMMA NoLineInText ==
  ASSUME line_buf \in Seq(Element), AllText(line_buf)
  PROVE  ~CompleteLine /\ ~HeadEnds
<1>1. LineEnd = 0
  BY LineEndFirst
<1>2. ASSUME line_buf # <<>> PROVE ~EmptyLine
  <2>1. 1 \in 1 .. Len(line_buf) BY <1>2
  <2>2. Text(line_buf[1]) BY <2>1 DEF AllText
  <2> QED BY <2>2, TextIs DEF EmptyLine
<1> QED BY <1>1, <1>2 DEF CompleteLine, HeadEnds

(* The first line of the stream when the request line is still to come. *)
LEMMA AtRequestLine ==
  ASSUME IInv, asked # NULL, AtRequest
  PROVE  \E x \in Seq(Element) :
           /\ AllText(x) /\ x # <<>> /\ Len(x) \in Nat
           /\ Len(x) = 1 => x[1] = RequestLine(asked)
           /\ line_buf \o up = x \o (CRLF \o From(0, asked))
<1>1. asked \in Request
  BY DEF IInv, TypeOK
<1>2. PICK g \in Seq(Element) : AllText(g) /\ line_buf \o up = g \o Encoded(asked)
  BY DEF AtRequest
<1> DEFINE e == RequestLine(asked)
           c == CRLF \o From(0, asked)
           x == g \o <<e>>
<1>3. Encoded(asked) = <<e>> \o c
  BY <1>1, EncodedIs
<1>4. c \in Seq(Element)
  <2>1. 0 \in 0 .. 4 OBVIOUS
  <2>2. From(0, asked) \in Seq(Element) BY <1>1, <2>1, FromIs
  <2> QED BY <2>2, TextIs, ConcatIs
<1>5. e \in Element /\ Text(e)
  BY <1>1, RequestIs, TextIs DEF RequestLine, Element
<1> HIDE DEF e, c
<1>6. <<e>> \in Seq(Element) /\ Len(<<e>>) = 1 /\ <<e>>[1] = e
  BY <1>5
<1>7. AllText(<<e>>)
  BY <1>5, <1>6 DEF AllText
<1>8. /\ x \in Seq(Element) /\ Len(x) = Len(g) + 1 /\ Len(g) \in Nat /\ x[Len(g) + 1] = e
  BY <1>6, ConcatIs
<1>9. AllText(x)
  BY <1>2, <1>6, <1>7, TextParts
<1>10. line_buf \o up = x \o c
  <2>1. g \in Seq(Element) /\ <<e>> \in Seq(Element) /\ c \in Seq(Element) BY <1>4, <1>6
  <2>2. (g \o <<e>>) \o c = g \o (<<e>> \o c) BY ONLY <2>1, ElementAssoc, ZenonT(40)
  <2> QED BY <1>2, <1>3, <2>2
<1> HIDE DEF x
<1>11. x # <<>> /\ Len(x) \in Nat /\ (Len(x) = 1 => x[1] = e)
  <2>1. Len(x) = 1 => Len(g) + 1 = 1 BY <1>8
  <2> QED BY <1>8, <2>1
<1> QED BY <1>8, <1>9, <1>10, <1>11 DEF e, c

(* The first line of the stream among the headers. *)
LEMMA AtHeaderLine ==
  ASSUME IInv, asked # NULL, AtHeader
  PROVE  \/ /\ line_buf \o up = CRLF \o Bytes(asked) /\ req = Understood(4, asked)
            /\ Recorded = Noted(4, asked)
         \/ \E m \in 0 .. 3 :
              /\ HasLine(m, asked) /\ req = Understood(m, asked) /\ Recorded = Noted(m, asked)
              /\ line_buf \o up = Words(m, asked) \o (CRLF \o From(m + 1, asked))
<1>1. asked \in Request
  BY DEF IInv, TypeOK
<1>2. PICK n \in 0 .. 4 : /\ line_buf \o up = From(n, asked) /\ req = Understood(n, asked)
                         /\ Recorded = Noted(n, asked)
  BY DEF AtHeader
<1>3. PICK m \in 0 .. 4 : /\ From(n, asked) = From(m, asked) /\ Understood(n, asked) = Understood(m, asked)
                          /\ Noted(n, asked) = Noted(m, asked)
                          /\ m = 4 \/ (m \in 0 .. 3 /\ HasLine(m, asked))
  BY <1>1, NextLineIs
<1>4. CASE m = 4
  <2>1. From(4, asked) = CRLF \o Bytes(asked) BY <1>1, FromIs
  <2> QED BY <1>2, <1>3, <1>4, <2>1
<1>5. CASE m \in 0 .. 3 /\ HasLine(m, asked)
  <2>1. From(m, asked) = Before(m, asked, From(m + 1, asked)) BY <1>1, <1>5, FromIs
  <2>2. From(m, asked) = Words(m, asked) \o (CRLF \o From(m + 1, asked)) BY <1>5, <2>1 DEF Before
  <2> QED BY <1>2, <1>3, <1>5, <2>2
<1> QED BY <1>3, <1>4, <1>5

(* Requests with the same fields are the same. *)
LEMMA ParsedEqual ==
  ASSUME NEW z \in Parsed, NEW w \in Parsed, z.method = w.method, z.path = w.path, z.v10 = w.v10,
         z.host = w.host, z.close = w.close, z.length = w.length, z.body = w.body
  PROVE  z = w
  BY DEF Parsed

(* What is understood is a request. *)
LEMMA UnderstoodIs ==
  ASSUME NEW r \in Request, NEW n \in 0 .. 4
  PROVE  Understood(n, r) \in Parsed
<1>1. /\ r.method \in Method /\ r.path \in Path /\ r.v10 \in BOOLEAN /\ r.host \in BOOLEAN
      /\ r.close \in BOOLEAN /\ r.length \in Int
  BY RequestIs
<1>2. (IF n > 1 THEN r.host ELSE FALSE) \in BOOLEAN
  BY <1>1
<1>3. (IF n > 3 THEN r.close ELSE FALSE) \in BOOLEAN
  BY <1>1
<1>4. (IF n > 2 THEN r.length ELSE -1) \in Int
  BY <1>1
<1> QED BY <1>1, <1>2, <1>3, <1>4 DEF Understood, Parsed

(* A part of a line arrives. *)
LEMMA RecvLineProgress ==
  ASSUME IInv, Progress, ~CutCRLF, NEW n \in 1 .. Len(up), recv_line(n)
  PROVE  Progress'
<1>1. up \in Seq(Element) /\ line_buf \in Seq(Element) /\ n \in 0 .. Len(up) /\ Len(up) \in Nat
  BY DEF IInv, Types
<1> DEFINE a == Take(up, n)
           b == Drop(up, n)
<1>2. /\ pc = "recv" /\ pc' = "parse" /\ line_buf' = line_buf \o a /\ up' = b /\ up[n] # CR
      /\ UNCHANGED <<asked, out, part, req, headers, handled>>
  BY DEF recv_line, clientVars
<1>3. /\ (line_buf \o a) \o b = line_buf \o up /\ a \in Seq(Element) /\ b \in Seq(Element)
      /\ Len(a) = n /\ a[n] = up[n]
  <2>1. n \in 1 .. n BY <1>1
  <2> QED BY <1>1, <2>1, Moved, TakeDrop
<1> HIDE DEF a, b
<1>4. Idle \/ Reading
  BY <1>2 DEF Progress
<1>5. /\ Pending' = Pending /\ Replied' = Replied /\ LinesFit(asked)' = LinesFit(asked) /\ Meant(asked)' = Meant(asked)
      /\ Noted(4, asked)' = Noted(4, asked)
  BY <1>2 DEF Pending, Replied, LinesFit, Meant
<1>6. line_buf' \o up' = line_buf \o up
  BY <1>2, <1>3
<1>7. ASSUME Idle PROVE Idle'
  <2>1. AllText(line_buf \o up) BY <1>1, <1>7, TextParts DEF Idle
  <2>2. line_buf \o a \in Seq(Element) BY <1>1, <1>3, ConcatIs
  <2>3. AllText(line_buf \o a) /\ AllText(b) BY <1>3, <2>1, <2>2, TextParts
  <2>4. AllText(line_buf)' /\ AllText(up)' BY <1>2, <2>3 DEF AllText
  <2>5. NoRequest' = NoRequest BY DEF NoRequest
  <2> QED BY <1>2, <1>5, <1>7, <2>4, <2>5 DEF Idle
<1>8. ASSUME Reading PROVE Reading'
  <2> DEFINE s == line_buf \o a
  <2>1. s[Len(s)] = up[n]
    <3>1. Len(s) = Len(line_buf) + n /\ s[Len(line_buf) + n] = a[n]
      <4>1. n \in 1 .. Len(a) /\ Len(a) = n BY <1>1, <1>3
      <4>2. line_buf \in Seq(Element) /\ a \in Seq(Element) BY <1>1, <1>3
      <4>3. Len(s) = Len(line_buf) + Len(a) /\ \A i \in 1 .. Len(a) : s[Len(line_buf) + i] = a[i]
        BY ONLY <4>2, ConcatIs
      <4> QED BY <4>1, <4>3
    <3> QED BY <1>3, <3>1
  <2>2. NotCut(line_buf)' BY <1>2, <2>1 DEF NotCut, CR
  <2>3. AtRequest' = AtRequest
    BY <1>2, <1>6 DEF AtRequest, NoRequest, AllText, Element, Text, Encoded, RequestLine, HeaderLines, HeaderLine, Filler, CRLF, CR, LF
  <2>4. AtHeader' = AtHeader
    BY <1>2, <1>6 DEF AtHeader, Recorded
  <2> QED BY <1>2, <1>5, <1>8, <2>2, <2>3, <2>4 DEF Reading
<1>9. Idle' \/ Reading'
  BY <1>4, <1>7, <1>8
<1> QED BY <1>2, <1>5, <1>9 DEF Progress


(* The buffer holds no complete line. *)
LEMMA IncompleteProgress ==
  ASSUME IInv, Progress, parse_incomplete
  PROVE  Progress'
<1>1. /\ pc = "parse" /\ pc' = "recv" /\ UNCHANGED <<asked, out, up, line_buf, part, req, headers, handled>>
      /\ line_buf \in Seq(Element) /\ \A i \in DOMAIN line_buf : Text(line_buf[i])
  BY DEF parse_incomplete, clientVars, IInv, Types
<1>2. AllText(line_buf)
  <2>1. DOMAIN line_buf = 1 .. Len(line_buf) BY <1>1
  <2> QED BY <1>1, <2>1 DEF AllText
<1>3. Idle \/ Reading
  BY <1>1 DEF Progress
<1>4. /\ Pending' = Pending /\ Replied' = Replied /\ LinesFit(asked)' = LinesFit(asked) /\ Meant(asked)' = Meant(asked)
      /\ Noted(4, asked)' = Noted(4, asked)
  BY <1>1 DEF Pending, Replied, LinesFit, Meant
<1>5. Idle' = Idle
  BY <1>1, <1>4 DEF Idle
<1>6. Reading => Reading'
  <2>1. AtRequest' = AtRequest /\ AtHeader' = AtHeader BY <1>1 DEF AtRequest, AtHeader, Recorded
  <2>2. AllText(line_buf)' /\ NotCut(line_buf)' = NotCut(line_buf) BY <1>1, <1>2
  <2> QED BY <1>4, <2>1, <2>2 DEF Reading
<1> QED BY <1>1, <1>3, <1>4, <1>5, <1>6 DEF Progress

(* A request line is understood, or it has a rest before it and is rejected. *)
LEMMA RequestLineProgress ==
  ASSUME IInv, client = "open", Progress, parse_request_line
  PROVE  Progress'
<1>1. pc = "parse" /\ CompleteLine /\ part = "REQUEST" /\ line_buf \in Seq(Element) /\ up \in Seq(Element)
  BY DEF parse_request_line, CompleteLine, IInv, Types
<1>2. ~AllText(line_buf)
  BY <1>1, NoLineInText
<1>3. Reading /\ AtRequest /\ Pending /\ NotCut(line_buf)
  BY <1>1, <1>2 DEF Progress, Idle, Reading, AtHeader
<1>4. CASE Rejects(400)
  BY <1>3, <1>4, RejectsProgress
<1>5. CASE /\ Len(LineText) = 1
           /\ req' = [req EXCEPT !.method = LineText[1].method, !.path = LineText[1].path,
                                 !.v10 = LineText[1].v10]
           /\ part' = "HEADER" /\ headers' = RecordMethod(LineText[1].method) /\ NextLine
  <2>1. asked # NULL BY <1>3 DEF Pending
  <2>2. PICK x \in Seq(Element) :
           /\ AllText(x) /\ x # <<>> /\ Len(x) \in Nat
           /\ Len(x) = 1 => x[1] = RequestLine(asked)
           /\ line_buf \o up = x \o (CRLF \o From(0, asked))
    BY <1>3, <2>1, AtRequestLine
  <2>3. asked \in Request /\ From(0, asked) \in Seq(Element)
    <3>1. 0 \in 0 .. 4 OBVIOUS
    <3> QED BY <2>1, <3>1, FromIs DEF IInv, TypeOK
  <2>4. LineText = x /\ AfterLine \o up = From(0, asked) /\ NotCut(AfterLine)
    BY <1>1, <1>2, <1>3, <2>2, <2>3, LineRead
  <2>5. LineText[1] = RequestLine(asked)
    BY <1>5, <2>2, <2>4
  <2>6. req' = Understood(0, asked)
    <3>1. req = NoRequest BY <1>3 DEF AtRequest
    <3>2. /\ LineText[1].method = asked.method /\ LineText[1].path = asked.path
          /\ LineText[1].v10 = asked.v10
      BY <2>5 DEF RequestLine
    <3> DEFINE q == NoRequest
               w == [q EXCEPT !.method = LineText[1].method, !.path = LineText[1].path,
                              !.v10 = LineText[1].v10]
               z == Understood(0, asked)
    <3>3. /\ q \in Parsed /\ q.host = FALSE /\ q.close = FALSE /\ q.length = -1 /\ q.body = NULL
      BY DEF NoRequest, Parsed
    <3>4. /\ z.method = asked.method /\ z.path = asked.path /\ z.v10 = asked.v10
          /\ z.host = FALSE /\ z.close = FALSE /\ z.length = -1 /\ z.body = NULL
      BY DEF Understood
    <3>5. z \in Parsed BY <2>3, UnderstoodIs
    <3> HIDE DEF q, z
    <3>6. /\ w \in Parsed /\ w.method = asked.method /\ w.path = asked.path /\ w.v10 = asked.v10
          /\ w.host = q.host /\ w.close = q.close /\ w.length = q.length /\ w.body = q.body
      <4>1. asked.method \in Method /\ asked.path \in Path /\ asked.v10 \in BOOLEAN BY <2>3, RequestIs
      <4> QED BY <3>2, <3>3, <4>1 DEF Parsed
    <3>7. req' = w BY <1>5, <3>1 DEF q
    <3> HIDE DEF w
    <3>8. w = z BY <3>3, <3>4, <3>5, <3>6, ParsedEqual
    <3> QED BY <3>7, <3>8 DEF z
  <2>7. line_buf' = AfterLine /\ UNCHANGED <<asked, up, out, pc, handled>>
    BY <1>5 DEF NextLine, clientVars
  <2>8. Pending' BY <1>3, <2>7 DEF Pending
  <2>9. AtHeader'
    <3>1. 0 \in 0 .. 4 OBVIOUS
    <3>2. line_buf' \o up' = From(0, asked') /\ req' = Understood(0, asked') BY <2>4, <2>6, <2>7
    <3>3. headers' = RecordMethod(asked.method) /\ asked.method \in Method
      BY <1>5, <2>3, <2>5, RequestIs DEF RequestLine
    <3>4. Recorded' = Content(headers')
      BY DEF Recorded, Content
    <3>5. Recorded' = Noted(0, asked')
      BY <2>7, <3>3, <3>4, MethodRecorded DEF Noted
    <3> QED BY <1>5, <3>1, <3>2, <3>5 DEF AtHeader
  <2>10. NotCut(line_buf)' BY <2>4, <2>7
  <2>11. Reading' BY <1>1, <2>7, <2>8, <2>9, <2>10 DEF Reading
  <2> QED BY <1>1, <2>7, <2>8, <2>11 DEF Progress, Pending
<1> QED BY <1>4, <1>5 DEF parse_request_line


(* What one header line adds to what is understood. *)
LEMMA HeaderUnderstood ==
  ASSUME NEW r \in Request, NEW m \in 0 .. 3, HasLine(m, r), req = Understood(m, r),
         LineText = Words(m, r), parse_header
  PROVE  req' = Understood(m + 1, r)
<1> DEFINE z == Understood(m + 1, r)
           e == LineText[1]
<1>1. m \in 0 .. 4 /\ m + 1 \in 0 .. 4
  OBVIOUS
<1>2. req \in Parsed /\ z \in Parsed
  BY <1>1, UnderstoodIs
<1>3. /\ req.method = r.method /\ req.path = r.path /\ req.v10 = r.v10 /\ req.body = NULL
      /\ req.host = (IF m > 1 THEN r.host ELSE FALSE)
      /\ req.close = (IF m > 3 THEN r.close ELSE FALSE)
      /\ req.length = (IF m > 2 THEN r.length ELSE -1)
  BY DEF Understood
<1>4. /\ z.method = r.method /\ z.path = r.path /\ z.v10 = r.v10 /\ z.body = NULL
      /\ z.host = (IF m + 1 > 1 THEN r.host ELSE FALSE)
      /\ z.close = (IF m + 1 > 3 THEN r.close ELSE FALSE)
      /\ z.length = (IF m + 1 > 2 THEN r.length ELSE -1)
  BY DEF Understood
<1> HIDE DEF z
<1>5. req' = IF Len(LineText) # 1 \/ e.t # "header" THEN req
             ELSE CASE e.name = "host" -> [req EXCEPT !.host = TRUE]
                    [] e.name = "connection" -> [req EXCEPT !.close = TRUE]
                    [] e.name = "content-length" -> [req EXCEPT !.length = e.n]
  BY DEF parse_header
<1>6. r.pad \in Nat /\ r.length \in Int /\ r.host \in BOOLEAN /\ r.close \in BOOLEAN
  BY RequestIs
<1>7. CASE m = 0
  <2>1. LineText = [i \in 1 .. r.pad |-> Filler] /\ r.pad > 0
    BY <1>7 DEF Words, HasLine
  <2>2. e = Filler BY <1>6, <2>1
  <2>3. e.t = "filler" BY <2>2 DEF Filler
  <2>4. req' = req BY <1>5, <2>3
  <2>5. req.host = z.host
    <3>1. z.host = FALSE /\ req.host = FALSE BY <1>3, <1>4, <1>7
    <3> QED BY <3>1
  <2>6. req.close = z.close
    <3>1. z.close = FALSE /\ req.close = FALSE BY <1>3, <1>4, <1>7
    <3> QED BY <3>1
  <2>7. req.length = z.length BY <1>3, <1>4, <1>7
  <2> QED BY <1>2, <1>3, <1>4, <2>4, <2>5, <2>6, <2>7, ParsedEqual DEF z
<1>8. CASE m = 1
  <2>1. LineText = <<HeaderLine("host", 0)>> /\ r.host = TRUE
    BY <1>8 DEF Words, HasLine
  <2>2. Len(LineText) = 1 /\ e.t = "header" /\ e.name = "host" BY <2>1 DEF HeaderLine
  <2> DEFINE w == [req EXCEPT !.host = TRUE]
  <2>3. req' = w BY <1>5, <2>2
  <2>4. /\ w \in Parsed /\ w.method = req.method /\ w.path = req.path /\ w.v10 = req.v10 /\ w.host = TRUE
        /\ w.close = req.close /\ w.length = req.length /\ w.body = req.body
    BY <1>2 DEF Parsed
  <2> HIDE DEF w
  <2>5. z.host = TRUE BY <1>4, <1>8, <2>1
  <2>6. z.close = FALSE /\ req.close = FALSE BY <1>3, <1>4, <1>8
  <2>7. req.length = z.length BY <1>3, <1>4, <1>8
  <2>8. w = z
    <3>1. w.method = z.method /\ w.path = z.path /\ w.v10 = z.v10 /\ w.body = z.body /\ w.length = z.length
      BY <1>3, <1>4, <2>4, <2>7
    <3>2. w.host = z.host BY <2>4, <2>5, Zenon
    <3>3. w.close = z.close BY <2>4, <2>6, Zenon
    <3> QED BY <1>2, <2>4, <3>1, <3>2, <3>3, ParsedEqual
  <2> QED BY <2>3, <2>8 DEF z
<1>9. CASE m = 2
  <2>1. LineText = <<HeaderLine("content-length", r.length)>>
    BY <1>9 DEF Words
  <2>2. Len(LineText) = 1 /\ e.t = "header" /\ e.name = "content-length" /\ e.n = r.length
    BY <2>1 DEF HeaderLine
  <2> DEFINE w == [req EXCEPT !.length = r.length]
  <2>3. req' = w BY <1>5, <2>2
  <2>4. /\ w \in Parsed /\ w.method = req.method /\ w.path = req.path /\ w.v10 = req.v10 /\ w.host = req.host
        /\ w.close = req.close /\ w.length = r.length /\ w.body = req.body
    BY <1>2, <1>6 DEF Parsed
  <2> HIDE DEF w
  <2>5. z.host = r.host /\ req.host = r.host BY <1>3, <1>4, <1>9
  <2>6. z.close = FALSE /\ req.close = FALSE BY <1>3, <1>4, <1>9
  <2>7. z.length = r.length BY <1>4, <1>9
  <2>8. w = z
    <3>1. w.method = z.method /\ w.path = z.path /\ w.v10 = z.v10 /\ w.body = z.body /\ w.length = z.length
      BY <1>3, <1>4, <2>4, <2>7
    <3>2. w.host = z.host BY <2>4, <2>5, Zenon
    <3>3. w.close = z.close BY <2>4, <2>6, Zenon
    <3> QED BY <1>2, <2>4, <3>1, <3>2, <3>3, ParsedEqual
  <2> QED BY <2>3, <2>8 DEF z
<1>10. CASE m = 3
  <2>1. LineText = <<HeaderLine("connection", 0)>> /\ r.close = TRUE
    BY <1>10 DEF Words, HasLine
  <2>2. Len(LineText) = 1 /\ e.t = "header" /\ e.name = "connection" BY <2>1 DEF HeaderLine
  <2> DEFINE w == [req EXCEPT !.close = TRUE]
  <2>3. req' = w BY <1>5, <2>2
  <2>4. /\ w \in Parsed /\ w.method = req.method /\ w.path = req.path /\ w.v10 = req.v10 /\ w.host = req.host
        /\ w.close = TRUE /\ w.length = req.length /\ w.body = req.body
    BY <1>2 DEF Parsed
  <2> HIDE DEF w
  <2>5. z.host = r.host /\ req.host = r.host BY <1>3, <1>4, <1>10
  <2>6. z.close = TRUE BY <1>4, <1>10, <2>1
  <2>7. req.length = z.length BY <1>3, <1>4, <1>10
  <2>8. w = z
    <3>1. w.method = z.method /\ w.path = z.path /\ w.v10 = z.v10 /\ w.body = z.body /\ w.length = z.length
      BY <1>3, <1>4, <2>4, <2>7
    <3>2. w.host = z.host BY <2>4, <2>5, Zenon
    <3>3. w.close = z.close BY <2>4, <2>6, Zenon
    <3> QED BY <1>2, <2>4, <3>1, <3>2, <3>3, ParsedEqual
  <2> QED BY <2>3, <2>8 DEF z
<1>11. m = 0 \/ m = 1 \/ m = 2 \/ m = 3
  OBVIOUS
<1> QED BY <1>7, <1>8, <1>9, <1>10, <1>11

(* What it adds to what is recorded. *)
LEMMA HeaderRecorded ==
  ASSUME HInv, NEW r \in Request, NEW m \in 0 .. 3, HasLine(m, r), Recorded = Noted(m, r),
         LineText = Words(m, r), parse_header
  PROVE  Recorded' = Noted(m + 1, r)
<1> DEFINE x == Words(m, r)
<1>1. headers \in Seq(Buffer) /\ headers # <<>> /\ headers' = Record(headers, x)
  BY DEF HInv, parse_header
<1>2. x \in Seq(Mark) /\ x # <<>> /\ NL \in Mark
  <2>1. x \in Seq(Element) /\ x # <<>>
    BY WordsIs
  <2> HIDE DEF x
  <2> QED BY <2>1 DEF Mark
<1>3. NotedLine(m, r) = x \o <<NL>>
  BY DEF NotedLine
<1> HIDE DEF x
<1>4. Append(x, NL) = x \o <<NL>>
  BY ONLY <1>2
<1>5. Recorded = Content(headers) /\ Recorded' = Content(headers')
  BY DEF Recorded, Content
<1>6. Recorded' = Content(headers) \o Append(x, NL)
  BY <1>1, <1>2, <1>5, RecordAdds
<1>7. Noted(m + 1, r) = Noted(m, r) \o NotedLine(m, r)
  BY NotedIs
<1> QED BY <1>3, <1>4, <1>5, <1>6, <1>7

(* A header line is read. *)
LEMMA HeaderProgress ==
  ASSUME IInv, HInv, Progress, parse_header
  PROVE  Progress'
<1>1. /\ pc = "parse" /\ CompleteLine /\ ~EmptyLine /\ part = "HEADER" /\ line_buf \in Seq(Element)
      /\ up \in Seq(Element)
  BY DEF parse_header, CompleteLine, IInv, Types
<1>2. ~AllText(line_buf)
  BY <1>1, NoLineInText
<1>3. AtHeader /\ Pending /\ NotCut(line_buf)
  BY <1>1, <1>2 DEF Progress, Idle, Reading, AtRequest
<1>4. asked \in Request /\ asked # NULL
  BY <1>3 DEF Pending, IInv, TypeOK
<1>5. line_buf # <<>>
  BY <1>2 DEF AllText
<1>6. line_buf \o up # CRLF \o Bytes(asked)
  <2>1. Bytes(asked) \in Seq(Element) BY <1>4, BytesIs
  <2> QED BY <1>1, <1>3, <1>5, <2>1, HeadRead
<1>7. PICK m \in 0 .. 3 : /\ HasLine(m, asked) /\ req = Understood(m, asked) /\ Recorded = Noted(m, asked)
                          /\ line_buf \o up = Words(m, asked) \o (CRLF \o From(m + 1, asked))
  BY <1>3, <1>4, <1>6, AtHeaderLine
<1>8. m + 1 \in 0 .. 4
  OBVIOUS
<1>9. LineText = Words(m, asked) /\ AfterLine \o up = From(m + 1, asked) /\ NotCut(AfterLine)
  <2> DEFINE x == Words(m, asked)
             t == From(m + 1, asked)
  <2>1. x \in Seq(Element) /\ AllText(x) /\ x # <<>> BY <1>4, <1>7, WordsIs
  <2>2. t \in Seq(Element) BY <1>4, <1>8, FromIs
  <2>3. line_buf \o up = x \o (CRLF \o t) BY <1>7
  <2> HIDE DEF x, t
  <2>4. LineText = x /\ AfterLine \o up = t /\ NotCut(AfterLine)
    BY <1>1, <1>2, <1>3, <2>1, <2>2, <2>3, LineRead
  <2> QED BY <2>4 DEF x, t
<1>10. req' = Understood(m + 1, asked)
  BY <1>4, <1>7, <1>9, HeaderUnderstood
<1>11. line_buf' = AfterLine /\ part' = "HEADER" /\ UNCHANGED <<asked, up, out, pc, handled>>
  BY <1>1 DEF parse_header, NextLine, clientVars
<1>12. Pending'
  BY <1>3, <1>11 DEF Pending
<1>13. AtHeader'
  <2>1. line_buf' \o up' = From(m + 1, asked') /\ req' = Understood(m + 1, asked') BY <1>9, <1>10, <1>11
  <2>2. Recorded' = Noted(m + 1, asked)
    BY <1>4, <1>7, <1>9, HeaderRecorded
  <2> QED BY <1>8, <1>11, <2>1, <2>2 DEF AtHeader
<1>14. NotCut(line_buf)'
  BY <1>9, <1>11
<1>15. Reading'
  BY <1>1, <1>11, <1>12, <1>13, <1>14 DEF Reading
<1> QED BY <1>1, <1>11, <1>12, <1>15 DEF Progress, Pending


(* The body a request was meant to have, as elements of the stream. *)
LEMMA MeantBody ==
  ASSUME NEW r \in Request, NEW s \in Seq(Element),
         Len(s) = IF r.length > 0 THEN r.length ELSE 0,
         \A i \in 1 .. Len(s) : s[i] = Bytes(r)[i]
  PROVE  Meant(r).body = s
<1> DEFINE k == IF r.length > 0 THEN r.length ELSE 0
           w == [i \in 1 .. k |-> [t |-> "byte", b |-> r.body[i]]]
<1>1. Meant(r).body = w
  BY DEF Meant
<1>2. k \in Nat /\ k <= Len(r.body) /\ Len(r.body) \in Nat /\ Len(s) = k
  BY RequestIs
<1> HIDE DEF k
<1>3. \A i \in 1 .. k : i \in 1 .. Len(r.body)
  BY <1>2
<1>4. \A i \in 1 .. k : Bytes(r)[i] = [t |-> "byte", b |-> r.body[i]]
  BY <1>3, BytesIs
<1>5. \A i \in 1 .. k : s[i] \in Element /\ s[i] = Bytes(r)[i]
  BY <1>2
<1>6. w \in Seq(Element) /\ Len(w) = k /\ \A i \in 1 .. k : w[i] = [t |-> "byte", b |-> r.body[i]]
  <2>1. \A i \in 1 .. k : [t |-> "byte", b |-> r.body[i]] \in Element BY <1>4, <1>5
  <2> QED BY <1>2, <2>1
<1> HIDE DEF w
<1>7. \A i \in 1 .. Len(s) : w[i] = s[i]
  BY <1>2, <1>4, <1>5, <1>6
<1>8. w = s
  BY <1>2, <1>6, <1>7, SeqEqual
<1> QED BY <1>1, <1>8

(* A request that was understood and whose body is complete is seen as it was
   meant. *)
LEMMA SeenAsMeant ==
  ASSUME NEW b, req = [Understood(4, asked) EXCEPT !.body = b],
         Meant(asked).body = IF b = NULL THEN <<>> ELSE body
  PROVE  Seen.req = Meant(asked)
<1> DEFINE c == IF b = NULL THEN <<>> ELSE body
           R(m, p, v, h, cl, l, x) == [method |-> m, path |-> p, v10 |-> v, host |-> h, close |-> cl,
                                       length |-> l, body |-> x]
           m1 == asked.method
           p1 == asked.path
           v1 == asked.v10
           h1 == asked.host
           c1 == asked.close
           l1 == asked.length
<1>1. Understood(4, asked) = R(m1, p1, v1, h1, c1, l1, NULL)
  BY DEF Understood
<1>2. ASSUME NEW m, NEW p, NEW v, NEW h, NEW cl, NEW l, NEW x, NEW y
      PROVE  /\ [R(m, p, v, h, cl, l, x) EXCEPT !.body = y] = R(m, p, v, h, cl, l, y)
             /\ R(m, p, v, h, cl, l, x).body = x
  OBVIOUS
<1>3. Meant(asked) = R(m1, p1, v1, h1, c1, l1, Meant(asked).body)
  BY DEF Meant
<1> HIDE DEF R, m1, p1, v1, h1, c1, l1
<1>4. req = R(m1, p1, v1, h1, c1, l1, b) /\ req.body = b
  BY <1>1, <1>2
<1>5. Seen.req = [req EXCEPT !.body = IF req.body = NULL THEN <<>> ELSE body]
  BY DEF Seen
<1>6. Seen.req = [req EXCEPT !.body = c]
  BY <1>4, <1>5
<1>7. Seen.req = R(m1, p1, v1, h1, c1, l1, c)
  BY <1>2, <1>4, <1>6
<1> QED BY <1>3, <1>7

(* The empty line ends the head of a request that was understood, and the body
   follows. *)
LEMMA HeadUnderstood ==
  ASSUME IInv, Progress, HeadEnds
  PROVE  /\ Pending /\ asked \in Request /\ req = Understood(4, asked) /\ Recorded = Noted(4, asked)
         /\ AfterHead \in Seq(Element) /\ AfterHead \o up = Bytes(asked)
<1>1. pc = "parse" /\ EmptyLine /\ line_buf # <<>> /\ line_buf \in Seq(Element) /\ up \in Seq(Element)
  BY DEF HeadEnds, IInv, Types
<1>2. ~AllText(line_buf)
  BY <1>1, NoLineInText
<1>3. (AtHeader \/ AtRequest) /\ Pending /\ NotCut(line_buf)
  BY <1>1, <1>2 DEF Progress, Idle, Reading
<1>4. asked \in Request /\ asked # NULL
  BY <1>3 DEF Pending, IInv, TypeOK
<1>5. ASSUME NEW x \in Seq(Element), NEW t \in Seq(Element), AllText(x), x # <<>>,
             line_buf \o up = x \o (CRLF \o t)
      PROVE  FALSE
  BY <1>1, <1>2, <1>3, <1>5, LineRead
<1>6. AtHeader
  <2> SUFFICES ASSUME AtRequest PROVE FALSE
    BY <1>3
  <2>1. PICK x \in Seq(Element) : AllText(x) /\ x # <<>> /\ line_buf \o up = x \o (CRLF \o From(0, asked))
    BY <1>4, AtRequestLine
  <2>2. From(0, asked) \in Seq(Element)
    <3>1. 0 \in 0 .. 4 OBVIOUS
    <3> QED BY <1>4, <3>1, FromIs
  <2> QED BY <1>5, <2>1, <2>2
<1>7. /\ line_buf \o up = CRLF \o Bytes(asked) /\ req = Understood(4, asked)
      /\ Recorded = Noted(4, asked)
  <2> SUFFICES ASSUME NEW m \in 0 .. 3, HasLine(m, asked),
                      line_buf \o up = Words(m, asked) \o (CRLF \o From(m + 1, asked))
               PROVE  FALSE
    BY <1>4, <1>6, AtHeaderLine
  <2>1. Words(m, asked) \in Seq(Element) /\ AllText(Words(m, asked)) /\ Words(m, asked) # <<>>
    BY <1>4, WordsIs
  <2>2. From(m + 1, asked) \in Seq(Element)
    <3>1. m + 1 \in 0 .. 4 OBVIOUS
    <3> QED BY <1>4, <3>1, FromIs
  <2> QED BY <1>5, <2>1, <2>2
<1>8. Bytes(asked) \in Seq(Element)
  BY <1>4, BytesIs
<1> QED BY <1>1, <1>3, <1>4, <1>7, <1>8, HeadRead


(* The length of a request that was understood. *)
LEMMA UnderstoodLength ==
  ASSUME asked \in Request, req = [Understood(4, asked) EXCEPT !.body = req.body]
  PROVE  req.length = asked.length
<1> DEFINE z == Understood(4, asked)
<1>1. z \in Parsed /\ z.length = asked.length
  <2>1. 4 \in 0 .. 4 OBVIOUS
  <2>2. z \in Parsed BY <2>1, UnderstoodIs
  <2>3. z.length = asked.length BY DEF Understood
  <2> QED BY <2>2, <2>3
<1> HIDE DEF z
<1>2. \A b : [z EXCEPT !.body = b].length = z.length
  BY <1>1 DEF Parsed
<1> QED BY <1>1, <1>2 DEF z

(* A head without a body: the request is rejected or handled. *)
LEMMA HeadProgress ==
  ASSUME IInv, client = "open", Progress, head_rejected \/ head_processed
  PROVE  Progress'
<1>1. HeadEnds
  BY DEF head_rejected, head_processed
<1>2. /\ Pending /\ asked \in Request /\ req = Understood(4, asked) /\ Recorded = Noted(4, asked)
      /\ AfterHead \in Seq(Element) /\ AfterHead \o up = Bytes(asked)
  BY <1>1, HeadUnderstood
<1>3. CASE head_rejected
  <2>1. \E code \in {400, 413} : Rejects(code) BY <1>3 DEF head_rejected
  <2> QED BY <1>2, <2>1, RejectsProgress
<1>4. CASE head_processed
  <2>1. ~(req.length > 0) /\ Finishes(ConnectionClose, AfterHead) /\ UNCHANGED <<clientVars, up>>
    BY <1>4 DEF head_processed, HasBody
  <2>2. up \in Seq(Element) BY DEF IInv, Types
  <2>3. AllText(AfterHead) /\ AllText(up)
    <3>1. AllText(AfterHead \o up) BY <1>2, BytesIs
    <3> QED BY <1>2, <2>2, <3>1, TextParts
  <2>4. ~(asked.length > 0)
    <3>1. Understood(4, asked).length = asked.length BY DEF Understood
    <3> QED BY <1>2, <2>1, <3>1
  <2>5. Meant(asked).body = <<>>
    <3>1. <<>> \in Seq(Element) /\ Len(<<>>) = 0 /\ \A i \in 1 .. Len(<<>>) : <<>>[i] = Bytes(asked)[i]
      OBVIOUS
    <3>2. Len(<<>>) = IF asked.length > 0 THEN asked.length ELSE 0 BY <2>4, <3>1
    <3> QED BY <1>2, <3>1, <3>2, MeantBody
  <2>6. req = [Understood(4, asked) EXCEPT !.body = NULL]
    <3>1. Understood(4, asked) \in Parsed /\ Understood(4, asked).body = NULL
      <4>1. 4 \in 0 .. 4 OBVIOUS
      <4> QED BY <1>2, <4>1, UnderstoodIs DEF Understood
    <3> DEFINE z == Understood(4, asked)
    <3> HIDE DEF z
    <3>2. z \in Parsed /\ z.body = NULL BY <3>1 DEF z
    <3>3. [z EXCEPT !.body = NULL] = z BY <3>2 DEF Parsed
    <3> QED BY <1>2, <3>3 DEF z
  <2>7. Seen.req = Meant(asked) BY <2>5, <2>6, SeenAsMeant
  <2> QED BY <1>2, <2>1, <2>3, <2>7, FinishesProgress
<1> QED BY <1>3, <1>4

(* The two parts of what follows the head. *)
LEMMA HeadBodyProgress ==
  ASSUME IInv, Progress, NEW b \in Block, head_body(b)
  PROVE  Progress'
<1> DEFINE here == IF Len(AfterHead) < req.length THEN Len(AfterHead) ELSE req.length
           a == AfterHead
<1>1. /\ HeadEnds /\ req.length > 0 /\ body' = Take(a, here) /\ line_buf' = Drop(a, here)
      /\ req' = [req EXCEPT !.body = b] /\ pc' = "body" /\ UNCHANGED <<asked, up, out, headers, handled>>
  BY DEF head_body, HasBody, clientVars
<1>2. /\ Pending /\ asked \in Request /\ req = Understood(4, asked) /\ Recorded = Noted(4, asked)
      /\ a \in Seq(Element) /\ a \o up = Bytes(asked)
  BY <1>1, HeadUnderstood
<1>3. req.length = asked.length /\ asked.length \in Int /\ up \in Seq(Element) /\ Len(a) \in Nat
  BY <1>2, RequestIs DEF Understood, IInv, Types
<1> HIDE DEF a
<1>4. here \in 0 .. Len(a) /\ (here < req.length => here = Len(a))
  BY <1>1, <1>3 DEF a
<1> HIDE DEF here
<1> DEFINE c == Take(a, here)
           d == Drop(a, here)
<1>5. c \in Seq(Element) /\ d \in Seq(Element) /\ Len(c) = here /\ Len(d) = Len(a) - here
  BY <1>2, <1>4, TakeDrop
<1>6. c \o d = a
  <2>1. <<>> \in Seq(Element) /\ \A s \in Seq(Element) : <<>> \o s = s OBVIOUS
  <2>2. <<>> \o (c \o d) = <<>> \o a BY <1>2, <1>4, <2>1, Moved
  <2>3. c \o d \in Seq(Element) BY <1>5, ConcatIs
  <2> QED BY <1>2, <2>1, <2>2, <2>3
<1> HIDE DEF c, d
<1>7. c \o (d \o up) = Bytes(asked)
  <2>1. (c \o d) \o up = c \o (d \o up)
    <3>1. c \in Seq(Element) /\ d \in Seq(Element) /\ up \in Seq(Element) BY <1>3, <1>5
    <3> QED BY ONLY <3>1, ElementAssoc, ZenonT(40)
  <2> QED BY <1>2, <1>6, <2>1
<1>8. body' = c /\ line_buf' = d
  BY <1>1 DEF c, d
<1>9. Len(c) < asked.length => d = <<>>
  <2> SUFFICES ASSUME Len(c) < asked.length PROVE d = <<>>
    OBVIOUS
  <2>1. Len(d) = 0 BY <1>3, <1>4, <1>5
  <2> QED BY <1>5, <2>1
<1>10. Pending'
  BY <1>1, <1>2 DEF Pending
<1>11. req' = [Understood(4, asked') EXCEPT !.body = req'.body]
  <2>1. Understood(4, asked) \in Parsed
    <3>1. 4 \in 0 .. 4 OBVIOUS
    <3> QED BY <1>2, <3>1, UnderstoodIs
  <2>2. req'.body = b
    <3>1. req \in Parsed BY DEF IInv, Types
    <3> QED BY <1>1, <3>1 DEF Parsed
  <2> QED BY <1>1, <1>2, <2>2
<1>12. InBody'
  <2>1. Recorded' = Noted(4, asked')
    BY <1>1, <1>2 DEF Recorded
  <2> QED BY <1>1, <1>3, <1>7, <1>8, <1>9, <1>10, <1>11, <2>1 DEF InBody, Bytes
<1> QED BY <1>1, <1>10, <1>12 DEF Progress, Pending

(* A part of the body arrives. *)
LEMMA RecvBodyProgress ==
  ASSUME IInv, Progress, NEW n \in 1 .. Len(up), recv_body(n)
  PROVE  Progress'
<1>1. /\ pc = "body" /\ Len(body) < req.length /\ body' = body \o Take(up, n) /\ up' = Drop(up, n)
      /\ line_buf' = <<>> /\ UNCHANGED <<asked, out, pc, req, headers, handled>>
  BY DEF recv_body, clientVars
<1>2. InBody /\ Pending
  BY <1>1 DEF Progress, InBody
<1>3. req.length = asked.length
  <2>1. asked \in Request BY <1>2 DEF Pending, IInv, TypeOK
  <2>2. req = [Understood(4, asked) EXCEPT !.body = req.body] BY <1>2 DEF InBody
  <2> QED BY <2>1, <2>2, UnderstoodLength
<1>4. line_buf = <<>> /\ body \o (line_buf \o up) = Bytes(asked)
  BY <1>1, <1>2, <1>3 DEF InBody
<1>5. up \in Seq(Element) /\ body \in Seq(Element) /\ n \in 0 .. Len(up)
  BY DEF IInv, Types
<1> DEFINE c == body \o Take(up, n)
           d == Drop(up, n)
<1>6. c \o d = body \o up /\ d \in Seq(Element)
  BY <1>5, Moved
<1>7. <<>> \o up = up /\ <<>> \o d = d
  BY <1>5, <1>6
<1> HIDE DEF c, d
<1>8. c \o (<<>> \o d) = Bytes(asked)
  BY <1>4, <1>6, <1>7
<1>9. body' = c /\ up' = d
  BY <1>1 DEF c, d
<1>10. Pending'
  BY <1>1, <1>2 DEF Pending
<1>11. InBody'
  <2>1. Recorded' = Recorded
    BY <1>1 DEF Recorded
  <2> QED BY <1>1, <1>2, <1>8, <1>9, <1>10, <2>1 DEF InBody
<1> QED BY <1>1, <1>10, <1>11 DEF Progress, Pending


(* The whole body has arrived. *)
LEMMA BodyProgress ==
  ASSUME IInv, client = "open", Progress, body_processed
  PROVE  Progress'
<1>1. /\ pc = "body" /\ Len(body) = req.length /\ UNCHANGED <<clientVars, up>>
      /\ Finishes(ConnectionClose \/ line_buf # <<>>, <<>>)
  BY DEF body_processed
<1>2. InBody /\ Pending
  BY <1>1 DEF Progress, InBody
<1>3. asked \in Request
  BY <1>2 DEF Pending, IInv, TypeOK
<1>4. /\ req = [Understood(4, asked) EXCEPT !.body = req.body] /\ asked.length > 0
      /\ Recorded = Noted(4, asked)
  BY <1>2 DEF InBody
<1>5. Len(body) = asked.length
  BY <1>1, <1>3, <1>4, UnderstoodLength
<1>6. body \in Seq(Element) /\ line_buf \in Seq(Element) /\ up \in Seq(Element)
  BY DEF IInv, Types
<1> DEFINE t == line_buf \o up
<1>7. body \o t = Bytes(asked) /\ t \in Seq(Element)
  BY <1>2, <1>6, ConcatIs DEF InBody
<1> HIDE DEF t
<1>8. Meant(asked).body = body
  <2>1. \A i \in 1 .. Len(body) : body[i] = Bytes(asked)[i] BY <1>6, <1>7, ConcatIs
  <2>2. Len(body) = IF asked.length > 0 THEN asked.length ELSE 0 BY <1>4, <1>5
  <2> QED BY <1>3, <1>6, <2>1, <2>2, MeantBody
<1>9. AllText(up)
  <2>1. AllText(body \o t) BY <1>3, <1>7, BytesIs
  <2>2. AllText(t) BY <1>6, <1>7, <2>1, TextParts
  <2> QED BY <1>6, <2>2, TextParts DEF t
<1>10. req.body # NULL
  BY <1>1 DEF IInv, Allocated
<1>11. Seen.req = Meant(asked)
  <2>1. Meant(asked).body = IF req.body = NULL THEN <<>> ELSE body BY <1>8, <1>10
  <2> QED BY <1>4, <2>1, SeenAsMeant
<1>12. AllText(<<>>)
  BY DEF AllText
<1> QED BY <1>1, <1>2, <1>4, <1>9, <1>11, <1>12, FinishesProgress

(* A line that fits does not fill the buffer: what is received of it before its
   end is shorter. *)
LEMMA FullLine ==
  ASSUME IInv, Pending, AtHeader, AllText(line_buf), LineFull
  PROVE  ~LinesFit(asked)
<1> SUFFICES ASSUME LinesFit(asked) PROVE FALSE
  OBVIOUS
<1>1. asked \in Request /\ asked # NULL /\ line_buf \in Seq(Element) /\ up \in Seq(Element)
  BY DEF Pending, IInv, TypeOK, Types
<1>2. LINE_BUF_SIZE \in Nat /\ LINE_BUF_SIZE > 2
  BY HttpAssumption
<1>3. asked.pad \in Nat /\ asked.pad < LINE_BUF_SIZE - 1 /\ Len(line_buf) = LINE_BUF_SIZE - 1
  BY <1>1, RequestIs DEF LinesFit, LineFull
<1>4. ASSUME NEW x \in Seq(Element), NEW t \in Seq(Element), AllText(x),
             line_buf \o up = x \o (CRLF \o t)
      PROVE  Len(line_buf) <= Len(x) /\ Len(x) \in Nat
  BY <1>1, <1>4, CutLine
<1>5. CASE line_buf \o up = CRLF \o Bytes(asked)
  <2>1. <<>> \in Seq(Element) /\ AllText(<<>>) /\ Len(<<>>) = 0 BY DEF AllText
  <2>2. Bytes(asked) \in Seq(Element) BY <1>1, BytesIs
  <2>3. CRLF \o Bytes(asked) = <<>> \o (CRLF \o Bytes(asked))
    <3>1. CRLF \o Bytes(asked) \in Seq(Element) BY <2>2, TextIs, ConcatIs
    <3> QED BY <3>1
  <2>4. Len(line_buf) <= Len(<<>>) BY <1>4, <1>5, <2>1, <2>2, <2>3
  <2> QED BY <1>2, <1>3, <2>1, <2>4
<1>6. ASSUME NEW m \in 0 .. 3, HasLine(m, asked),
             line_buf \o up = Words(m, asked) \o (CRLF \o From(m + 1, asked))
      PROVE  FALSE
  <2>1. /\ Words(m, asked) \in Seq(Element) /\ AllText(Words(m, asked))
        /\ Len(Words(m, asked)) = IF m = 0 THEN asked.pad ELSE 1
    BY <1>1, <1>6, WordsIs
  <2>2. From(m + 1, asked) \in Seq(Element)
    <3>1. m + 1 \in 0 .. 4 OBVIOUS
    <3> QED BY <1>1, <3>1, FromIs
  <2>3. Len(line_buf) <= Len(Words(m, asked)) BY <1>4, <1>6, <2>1, <2>2
  <2> QED BY <1>2, <1>3, <2>1, <2>3
<1> QED BY <1>1, <1>5, <1>6, AtHeaderLine

(* The line buffer is full: the request is handled as it is, if it has a path. *)
LEMMA EofProgress ==
  ASSUME IInv, client = "open", Progress, recv_line_eof
  PROVE  Progress'
<1>1. pc = "recv" /\ LineFull /\ UNCHANGED <<clientVars, up>>
  BY DEF recv_line_eof
<1>2. CASE Closes(free, req.body) /\ UNCHANGED <<out, store, queue, handled>>
  BY <1>1, <1>2, ClosesProgress
<1>3. CASE req.path # NULL /\ Finishes(TRUE, <<>>)
  <2>1. NoRequest.path = NULL BY DEF NoRequest
  <2>2. Reading /\ AtHeader /\ Pending /\ AllText(line_buf)
    BY <1>1, <1>3, <2>1 DEF Progress, Idle, Reading, AtRequest
  <2>3. ~LinesFit(asked) BY <1>1, <2>2, FullLine
  <2>4. AllText(<<>>) BY DEF AllText
  <2> QED BY <1>1, <1>3, <2>2, <2>3, <2>4, FinishesProgress
<1> QED BY <1>2, <1>3 DEF recv_line_eof

(* A new connection. *)
LEMMA ConnectedProgress ==
  ASSUME http_connected
  PROVE  Progress'
<1>1. /\ pc' = "recv" /\ part' = "REQUEST" /\ line_buf' = <<>> /\ req' = NoRequest /\ asked' = NULL
      /\ up' = <<>> /\ out' = <<>> /\ handled' = <<>>
  BY DEF http_connected
<1>2. AllText(<<>>)
  BY DEF AllText
<1>3. Idle'
  BY <1>1, <1>2 DEF Idle
<1> QED BY <1>1, <1>3 DEF Progress

(* A client sends a request. *)
LEMMA SendsProgress ==
  ASSUME IInv, PInv, NEW r \in Request, client_sends(r)
  PROVE  Progress'
<1>1. /\ client = "open" /\ sock = "open" /\ up = <<>> /\ (asked # NULL => out # <<>>)
      /\ asked' = r /\ up' = Encoded(r) /\ out' = <<>> /\ handled' = <<>>
      /\ UNCHANGED <<pc, part, line_buf, req>>
  BY DEF client_sends, connVars
<1>2. Progress /\ pc # "end"
  BY <1>1 DEF PInv
<1>3. r # NULL
  BY HttpAssumption
<1>4. pc \in {"recv", "parse"} /\ Idle
  <2>1. pc \in {"recv", "parse", "body", "end", "undefined"} BY DEF IInv, TypeOK
  <2>2. ~Pending BY <1>1 DEF Pending
  <2>3. pc # "body" BY <1>2, <2>2 DEF Progress, InBody
  <2>4. pc # "undefined" BY <1>1, <1>2 DEF Progress
  <2> QED BY <1>2, <2>1, <2>2, <2>3, <2>4 DEF Progress, Reading
<1>5. line_buf \in Seq(Element) /\ AllText(line_buf)
  BY <1>4 DEF IInv, Types, Idle
<1>6. NotCut(line_buf)
  <2> SUFFICES ASSUME line_buf # <<>> PROVE line_buf[Len(line_buf)] # CR
    BY DEF NotCut
  <2>1. Len(line_buf) \in 1 .. Len(line_buf) BY <1>5
  <2>2. Text(line_buf[Len(line_buf)]) BY <1>5, <2>1 DEF AllText
  <2> QED BY <2>2, TextIs
<1>7. AtRequest'
  <2>1. line_buf' \o up' = line_buf \o Encoded(asked') BY <1>1
  <2>2. part' = "REQUEST" /\ req' = NoRequest BY <1>1, <1>4 DEF Idle
  <2> QED BY <1>5, <2>1, <2>2 DEF AtRequest
<1>8. Pending'
  BY <1>1, <1>3 DEF Pending
<1>9. AllText(line_buf)' /\ NotCut(line_buf)'
  BY <1>1, <1>5, <1>6
<1>10. Reading'
  BY <1>7, <1>8, <1>9 DEF Reading
<1> QED BY <1>1, <1>3, <1>4, <1>10 DEF Progress

(* Steps of others change nothing of it. *)
LEMMA OthersProgress ==
  ASSUME PInv, UNCHANGED <<asked, client, up, out, sock, pc, part, line_buf, req, body, headers, handled>>
  PROVE  PInv'
<1>1. Pending' = Pending /\ Replied' = Replied /\ Refused' = Refused
  BY DEF Pending, Replied, Refused
<1>2. Idle' = Idle
  BY <1>1 DEF Idle
<1>3. Reading' = Reading
  <2>1. AtRequest' = AtRequest /\ AtHeader' = AtHeader BY DEF AtRequest, AtHeader, Recorded
  <2> QED BY <1>1, <2>1 DEF Reading
<1>4. InBody' = InBody
  BY <1>1 DEF InBody, Recorded
<1>5. Progress' = Progress
  BY <1>1, <1>2, <1>3, <1>4 DEF Progress
<1> QED BY <1>5 DEF PInv


(* Every step takes the request along. *)
LEMMA ProgressStep ==
  ASSUME IInv, HInv, PInv, ~CutCRLF, Next
  PROVE  PInv'
<1>1. pc' = "end" <=> sock' = "closed"
  BY EndsStep DEF PInv
<1>2. CASE o_put \/ o_get_remove \/ evq_pop
  <2>1. UNCHANGED <<asked, client, up, out, sock, pc, part, line_buf, req, body, headers, handled>>
    BY <1>2 DEF o_put, o_get_remove, evq_pop, clientVars, connVars
  <2> QED BY <2>1, OthersProgress
<1>3. CASE http_connected
  BY <1>1, <1>3, ConnectedProgress DEF PInv
<1>4. CASE \E r \in Request : client_sends(r)
  BY <1>1, <1>4, SendsProgress DEF PInv
<1>5. CASE \E n \in 0 .. Len(up) : client_closes(n)
  <2>1. client' = "closed" BY <1>5 DEF client_closes
  <2> QED BY <1>1, <2>1 DEF PInv
<1>6. CASE recv_error
  <2>1. client' = "closed" BY <1>6 DEF recv_error, clientVars
  <2> QED BY <1>1, <2>1 DEF PInv
<1>7. CASE http_input_iteration
  <2> SUFFICES ASSUME client' = "open" PROVE Progress'
    BY <1>1 DEF PInv
  <2>1. client = "open"
    <3> USE DEF clientVars
    <3>1. \A n : recv_line(n) \/ recv_body(n) => client' = client BY DEF recv_line, recv_body
    <3>2. recv_line_eof \/ parse_incomplete => client' = client BY DEF recv_line_eof, parse_incomplete
    <3>3. \A code : Rejects(code) => client' = client BY DEF Rejects
    <3>4. parse_request_line \/ parse_header => client' = client
      BY <3>3 DEF parse_request_line, parse_header, NextLine
    <3>5. head_rejected \/ head_processed => client' = client BY <3>3 DEF head_rejected, head_processed
    <3>6. \A b : head_body(b) => client' = client BY DEF head_body
    <3>7. recv_body_eof \/ body_processed => client' = client BY DEF recv_body_eof, body_processed
    <3> QED BY <1>7, <3>1, <3>2, <3>4, <3>5, <3>6, <3>7 DEF http_input_iteration
  <2>2. Progress BY <2>1 DEF PInv
  <2>3. ~recv_body_eof BY <2>1 DEF recv_body_eof
  <2> QED BY <1>7, <2>1, <2>2, <2>3, RecvLineProgress, RecvBodyProgress, EofProgress,
             IncompleteProgress, RequestLineProgress, HeaderProgress, HeadProgress,
             HeadBodyProgress, BodyProgress DEF http_input_iteration
<1> QED BY <1>2, <1>3, <1>4, <1>5, <1>6, <1>7 DEF Next

(* Where a request is, what is left of it in the stream, and what has been
   understood and recorded of it. *)
LEMMA PInvHolds ==
  ASSUME ~CutCRLF
  PROVE  Spec => []PInv
<1>1. Init => PInv
  BY DEF Init, PInv
<1>2. IInv /\ HInv /\ PInv /\ [Next]_vars => PInv'
  <2> SUFFICES ASSUME IInv, HInv, PInv, [Next]_vars PROVE PInv'
    OBVIOUS
  <2>1. CASE UNCHANGED vars
    BY <2>1, OthersProgress DEF vars, clientVars, connVars
  <2>2. CASE Next
    BY <2>2, ProgressStep
  <2> QED BY <2>1, <2>2
<1> QED BY <1>1, <1>2, IInvHolds, HInvHolds, PTL DEF Spec

(* Where recv does not separate a CR from its LF, http_process is called with the
   method, path, attributes and body of the request the client has sent, however
   else the stream is cut, whatever came before on the connection and whatever is
   left of it, for any requests and buffer sizes. *)
THEOREM RequestsAreIntact ==
  ASSUME ~CutCRLF
  PROVE  Spec => []RequestIntact
<1>1. PInv => RequestIntact
  BY DEF PInv, Progress, RequestIntact
<1> QED BY <1>1, PInvHolds, PTL

(* Under the same condition the buffers hold, when the handler is called, the
   method and every header line of that request, once and in order, wherever the
   lines are split over buffers of any size, and nothing of an earlier request.
   (What collect_buffers makes of the buffers is another matter.) *)
THEOREM LinesAreRecorded ==
  ASSUME ~CutCRLF
  PROVE  Spec => []LinesRecorded
<1>1. IInv /\ PInv => LinesRecorded
  <2> SUFFICES ASSUME IInv, PInv, client = "open", handled # <<>>, LinesFit(asked)
               PROVE  handled[1].recorded = MeantHeaders(asked)
    BY DEF LinesRecorded
  <2>1. Progress
    BY DEF PInv
  <2>2. asked \in Request
    BY <2>1 DEF Progress, IInv, TypeOK
  <2>3. handled[1].recorded = Noted(4, asked)
    BY <2>1 DEF Progress
  <2> QED BY <2>2, <2>3, NotedWhole DEF MeantHeaders
<1> QED BY <1>1, IInvHolds, PInvHolds, PTL

(* Under the same condition each request is handled and answered at most once,
   and not one without the other: a response other than an error comes from the handler, and an error that
   announces the end of the connection ends it. *)
THEOREM RequestsAnsweredOnce ==
  ASSUME ~CutCRLF
  PROVE  Spec => []OneResponse
<1>1. IInv /\ PInv => OneResponse
  <2> SUFFICES ASSUME IInv, PInv, client = "open", asked # NULL
               PROVE  /\ Len(handled) <= 1
                      /\ Len(out) <= 1
                      /\ handled # <<>> /\ pc # "undefined" <=> (out # <<>> /\ out[1].delim # "close")
                      /\ out # <<>> /\ out[1].delim = "close" => sock = "closed"
    BY DEF OneResponse
  <2>1. Progress /\ (pc = "end" <=> sock = "closed") BY DEF PInv
  <2>2. \A s : /\ s = <<>> => Len(s) <= 1
               /\ Len(s) = 1 => (s # <<>> /\ Len(s) <= 1)
    <3>1. Len(<<>>) = 0 /\ 0 <= 1 /\ 1 <= 1 /\ 0 # 1 OBVIOUS
    <3> QED BY <3>1, Zenon
  <2>3. CASE pc \in {"recv", "parse", "body"}
    <3>1. Pending \/ Replied BY <2>1, <2>3 DEF Progress, Idle, Reading, InBody
    <3>2. pc # "undefined" BY <2>3
    <3>3. CASE Pending BY <2>2, <3>2, <3>3 DEF Pending
    <3>4. CASE Replied BY <2>2, <3>2, <3>4 DEF Replied
    <3> QED BY <3>1, <3>3, <3>4
  <2>4. CASE pc = "undefined"
    <3>1. out = <<>> /\ Len(handled) = 1 BY <2>1, <2>4 DEF Progress
    <3> QED BY <2>2, <2>4, <3>1
  <2>5. CASE pc = "end"
    <3>1. Pending \/ Replied \/ Refused BY <2>1, <2>5 DEF Progress
    <3>2. pc # "undefined" /\ sock = "closed" BY <2>1, <2>5
    <3>3. CASE Pending BY <2>2, <3>2, <3>3 DEF Pending
    <3>4. CASE Replied BY <2>2, <3>2, <3>4 DEF Replied
    <3>5. CASE Refused BY <2>2, <3>2, <3>5 DEF Refused
    <3> QED BY <3>1, <3>3, <3>4, <3>5
  <2>6. pc \in {"recv", "parse", "body", "end", "undefined"} BY DEF IInv, TypeOK
  <2> QED BY <2>3, <2>4, <2>5, <2>6
<1> QED BY <1>1, IInvHolds, PInvHolds, PTL
=============================================================================
