-------------------------------- MODULE Sfs ---------------------------------
(***************************************************************************)
(* The format of Simple Fast Serialisation, from sfs.c: which calls of     *)
(* api->store an R object turns into, and the bytes every sink makes of    *)
(* such a call.                                                            *)
(*                                                                         *)
(* An R object is a record: ts, its type; data, the bytes of a vector or   *)
(* the characters of a name or string; kids, the elements of a list, the   *)
(* TAG and CAR of each cell of a pairlist, or the formals, body and        *)
(* environment of a closure; attr, the TAG and CAR of each attribute; id,  *)
(* which tells apart objects that R compares by address; object, the flag  *)
(* of objects with a class.  What is made of an object from what is made   *)
(* of its components is a recursive function over the objects.             *)
(***************************************************************************)
EXTENDS Integers, Sequences, SequencesExt

CONSTANTS
  Robject,     \* the R objects, with each its components
  MAX_DEPTH,   \* bound on their nesting
  Depth        \* how deep each is nested: less than what it is a component of

(* R's type codes, and the one of the format. *)
NILSXP == 0
SYMSXP == 1
LISTSXP == 2
CLOSXP == 3
ENVSXP == 4
LANGSXP == 6
BUILTINSXP == 8
CHARSXP == 9
LGLSXP == 10
INTSXP == 13
REALSXP == 14
CPLXSXP == 15
STRSXP == 16
VECSXP == 19
BCODESXP == 21
RAWSXP == 24
S4SXP == 25
ATTRSXP == 255

SxpTypes ==
  {NILSXP, SYMSXP, LISTSXP, CLOSXP, ENVSXP, LANGSXP, BUILTINSXP, CHARSXP, LGLSXP, INTSXP,
   REALSXP, CPLXSXP, STRSXP, VECSXP, BCODESXP, RAWSXP, S4SXP, ATTRSXP}
PairTypes == {LISTSXP, LANGSXP}
DataTypes == {LGLSXP, INTSXP, REALSXP, CPLXSXP, RAWSXP}

(* The types whose attributes are stored. *)
AttrTypes == DataTypes \cup {STRSXP, VECSXP, S4SXP}

(* Bytes of one element of a vector. *)
Width(ts) ==
  CASE ts \in {LGLSXP, INTSXP} -> 4
    [] ts = REALSXP -> 8
    [] ts = CPLXSXP -> 16
    [] ts = RAWSXP -> 1

Robj(ts, data, kids) ==
  [ts |-> ts, data |-> data, kids |-> kids, attr |-> <<>>, id |-> "plain", object |-> FALSE]
R_NilValue == Robj(NILSXP, <<>>, <<>>)
Symbol(name) == Robj(SYMSXP, name, <<>>)
R_MissingArg == Symbol(<<>>)
R_ClassSymbol == Symbol(<<99>>)
String(chars) == Robj(CHARSXP, chars, <<>>)
NA_STRING == [String(<<78, 65>>) EXCEPT !.id = "NA"]
Environment(id) == [Robj(ENVSXP, <<>>, <<>>) EXCEPT !.id = id]

(* attr is a pairlist: is one of its tags "class"? *)
HasClass(attr) == \E i \in DOMAIN attr : i % 2 = 1 /\ attr[i] = R_ClassSymbol

WithAttr(v, attr) == [v EXCEPT !.attr = attr, !.object = HasClass(attr)]

(* The lengths that stand for environments are those of SFS_EMPTY_ENV,
   SFS_GLOBAL_ENV and SFS_BASE_ENV, as the seven bytes a header has room for. *)
EnvLen(id) ==
  CASE id = "empty" -> <<0, 0, 0, 0, 0, 0, 240>>
    [] id = "global" -> <<1, 0, 0, 0, 0, 0, 240>>
    [] id = "base" -> <<2, 0, 0, 0, 0, 0, 240>>
    [] OTHER -> <<0, 0, 0, 0, 0, 0, 0>>

-----------------------------------------------------------------------------
(* What R guarantees of its objects.                                       *)

(* Bound on lengths, which the model writes in three of the seven bytes that a
   header has room for. *)
MAX_LENGTH == 16777215

(* Vectors are made of whole elements, names and strings have no NUL in them,
   pairlists are not empty, strings occur in string vectors and byte code in
   closures only. *)
WellFormed(v) ==
  /\ v = [ts |-> v.ts, data |-> v.data, kids |-> v.kids, attr |-> v.attr, id |-> v.id,
          object |-> v.object]
  /\ v.ts \in SxpTypes \ {ATTRSXP}
  /\ v.data \in Seq(0 .. 255) /\ v.kids \in Seq(Robject) /\ v.attr \in Seq(Robject)
  /\ Len(v.data) < MAX_LENGTH /\ Len(v.kids) < MAX_LENGTH /\ Len(v.attr) < MAX_LENGTH
  /\ v.ts \in DataTypes => Len(v.data) % Width(v.ts) = 0
  /\ v.ts \in {SYMSXP, CHARSXP} => \A i \in DOMAIN v.data : v.data[i] # 0
  /\ v.ts \notin DataTypes \cup {SYMSXP, CHARSXP} => v.data = <<>>
  /\ v.ts \notin {STRSXP, VECSXP, CLOSXP, BCODESXP} \cup PairTypes => v.kids = <<>>
  /\ v.ts \in PairTypes => v.kids # <<>> /\ Len(v.kids) % 2 = 0
  /\ v.ts = CLOSXP => Len(v.kids) = 3
  /\ v.ts = BCODESXP => Len(v.kids) = 1
  /\ \A i \in DOMAIN v.kids :
       /\ Depth[v.kids[i]] < Depth[v]
       /\ v.kids[i].ts = CHARSXP <=> v.ts = STRSXP
       /\ v.kids[i].ts = BCODESXP => v.ts = CLOSXP /\ i = 2
  /\ v.ts \in {SYMSXP, CHARSXP} => v.attr = <<>>
  /\ Len(v.attr) % 2 = 0
  /\ \A i \in DOMAIN v.attr :
       /\ Depth[v.attr[i]] < Depth[v]
       /\ v.attr[i].ts \notin {CHARSXP, BCODESXP}
       /\ i % 2 = 1 => v.attr[i].ts = SYMSXP
  /\ v.object = HasClass(v.attr)
  /\ v.id \in IF v.ts = ENVSXP THEN {"empty", "global", "base", "custom"}
              ELSE IF v.ts = CHARSXP THEN {"plain", "NA"} ELSE {"plain"}

ASSUME ObjectAssumption ==
  /\ MAX_DEPTH \in Nat
  /\ Depth \in [Robject -> 0 .. MAX_DEPTH]
  /\ \A v \in Robject : WellFormed(v)

-----------------------------------------------------------------------------
(* store: the calls of api->store(api, ts, el, len, buf), in order.        *)

Call(ts, el, len, buf) == [ts |-> ts, el |-> el, len |-> len, buf |-> buf]

Terminated(chars) == Append(chars, 0)

CharCall(c) == Call(CHARSXP, 1, Len(c.data) + 1, Terminated(c.data))
SymCall(v) ==
  IF v.data = <<>> THEN Call(SYMSXP, 1, 0, <<>>)
  ELSE Call(SYMSXP, 1, Len(v.data) + 1, Terminated(v.data))

(* Byte code is stored as its expression. *)
BodyExpr(b) == IF b.ts = BCODESXP THEN b.kids[1] ELSE b

(* Mutant: attributes are counted by their tags and values. *)
AttrCount_Both(v) == Len(v.attr)

(* The number of attributes. *)
AttrCount(v) == Len(v.attr) \div 2

(* The calls for each of the objects s, f[v] being those for v. *)
Each(f, s) == FlattenSeq([i \in DOMAIN s |-> f[s[i]]])

AttrCalls(f, v) ==
  IF v.ts \in AttrTypes /\ v.attr # <<>>
  THEN <<Call(ATTRSXP, 0, AttrCount(v), <<>>)>> \o Each(f, v.attr) ELSE <<>>

ObjectCalls(f, v) ==
  CASE v.ts \in DataTypes -> <<Call(v.ts, Width(v.ts), Len(v.data) \div Width(v.ts), v.data)>>
    [] v.ts = VECSXP -> <<Call(VECSXP, 0, Len(v.kids), <<>>)>> \o Each(f, v.kids)
    [] v.ts = STRSXP ->
         <<Call(STRSXP, 0, Len(v.kids), <<>>)>> \o [i \in DOMAIN v.kids |-> CharCall(v.kids[i])]
    [] v.ts = SYMSXP -> <<SymCall(v)>>
    [] v.ts = CLOSXP ->
         <<Call(CLOSXP, 0, 3, <<>>)>>
         \o Each(f, <<v.kids[1], BodyExpr(v.kids[2]), v.kids[3]>>)
    [] v.ts \in PairTypes -> <<Call(v.ts, 0, Len(v.kids) \div 2, <<>>)>> \o Each(f, v.kids)
    [] v.ts = ENVSXP -> <<Call(ENVSXP, 0, EnvLen(v.id), <<>>)>>
    [] OTHER -> <<Call(v.ts, 0, 0, <<>>)>>

(* Attributes first, then the object itself. *)
store[v \in Robject] == AttrCalls(store, v) \o ObjectCalls(store, v)

-----------------------------------------------------------------------------
(* The bytes of a call: an 8-byte header, len << 8 | ts, and the data.     *)

HeaderSize == 8

(* Seven bytes of a length below 2^24, the lowest first. *)
LengthBytes(n) ==
  <<n % 256, (n \div 256) % 256, (n \div 65536) % 256, 0, 0, 0, 0>>

Header(c) == <<c.ts>> \o (IF c.ts = ENVSXP THEN c.len ELSE LengthBytes(c.len))
Bytes(c) == Header(c) \o c.buf
Stream(calls) == FlattenSeq([i \in DOMAIN calls |-> Bytes(calls[i])])

(* A length of 2^24 or more: more than the loader can allocate here. *)
HUGE == -1

LengthOf(b) ==
  IF \E i \in 4 .. HeaderSize - 1 : b[i] # 0 THEN HUGE ELSE b[1] + 256 * b[2] + 65536 * b[3]

-----------------------------------------------------------------------------
(* The reference: what becomes of an object that is stored and loaded.  A   *)
(* string NA becomes the string "NA", other environments the base          *)
(* environment, attributes are kept on vectors only.                       *)

Restorable[v \in Robject] ==
  /\ v.ts \in {NILSXP, SYMSXP, CLOSXP, ENVSXP, STRSXP, VECSXP, BCODESXP, CHARSXP}
               \cup PairTypes \cup (DataTypes \ {RAWSXP})
  /\ \A i \in DOMAIN v.kids : Restorable[v.kids[i]]
  /\ \A i \in DOMAIN v.attr : v.ts \in AttrTypes => Restorable[v.attr[i]]

Restored[v \in Robject] ==
  LET each(s) == [i \in DOMAIN s |-> Restored[s[i]]]
  IN CASE v.ts = BCODESXP -> Restored[v.kids[1]]
       [] v.ts = CHARSXP -> String(v.data)
       [] v.ts = ENVSXP -> Environment(IF v.id = "custom" THEN "base" ELSE v.id)
       [] v.ts \in AttrTypes -> [v EXCEPT !.kids = each(@), !.attr = each(@)]
       [] OTHER -> Robj(v.ts, v.data, each(v.kids))
=============================================================================
