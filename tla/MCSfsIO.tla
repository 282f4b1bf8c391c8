------------------------------ MODULE MCSfsIO -------------------------------
(* Instances of SfsIO for TLC. *)
EXTENDS SfsIO

Ints(bytes) == Robj(INTSXP, bytes, <<>>)
Strings(s) == Robj(STRSXP, <<>>, s)
List(s) == Robj(VECSXP, <<>>, s)
Pairs(s) == Robj(LISTSXP, <<>>, s)
Lang(s) == Robj(LANGSXP, <<>>, s)
Fun(formals, body, env) == Robj(CLOSXP, <<>>, <<formals, body, env>>)
X == Symbol(<<120>>)
Names == Symbol(<<110>>)
One == Ints(<<1, 0, 0, 0>>)
A == String(<<97>>)
Factor == WithAttr(One, <<Names, Strings(<<A>>), R_ClassSymbol, Strings(<<String(<<102>>)>>)>>)

(* One vector of each type, one larger than the chunk buffer, empty ones, nested
   lists, pairlists with and without tags, calls, closures with and without byte
   code, attributes of attributes, a class that is not the first attribute, and
   types that cannot be loaded. *)
SmallObjects ==
  {R_NilValue, Ints(<<>>), One, Robj(LGLSXP, <<1, 0, 0, 0>>, <<>>),
   Robj(REALSXP, <<0, 0, 0, 0, 0, 0, 240, 63>>, <<>>),
   Robj(CPLXSXP, [i \in 1 .. 16 |-> i], <<>>),
   Robj(REALSXP, [i \in 1 .. 32 |-> i], <<>>),
   Strings(<<>>), Strings(<<A, String(<<>>), NA_STRING>>),
   List(<<>>), List(<<R_NilValue, One>>), List(<<List(<<One>>), Factor>>),
   Pairs(<<X, One, R_NilValue, X>>), Lang(<<R_NilValue, X, Names, One>>),
   [Lang(<<R_NilValue, X>>) EXCEPT !.attr = <<R_ClassSymbol, Strings(<<A>>)>>, !.object = TRUE],
   Fun(Pairs(<<X, R_MissingArg>>), X, Environment("global")),
   Fun(R_NilValue, Robj(BCODESXP, <<>>, <<One>>), Environment("custom")),
   Environment("empty"), Environment("base"),
   Factor, WithAttr(Strings(<<A>>), <<Names, WithAttr(One, <<X, One>>)>>),
   Robj(RAWSXP, <<7>>, <<>>), Robj(S4SXP, <<>>, <<>>), List(<<One, Robj(BUILTINSXP, <<>>, <<>>)>>)}

(* ... and strings that dec_buf has no room for. *)
LongStrings ==
  {Strings(<<String([i \in 1 .. 8 |-> 97])>>), Strings(<<String([i \in 1 .. 8 |-> 13]), A>>),
   Strings(<<String([i \in 1 .. 8 |-> 97]), A>>)}

SomeObjects == SmallObjects \cup LongStrings

(* All objects with their components, and how deep they are nested. *)
RECURSIVE Parts(_)
Parts(v) == {v} \cup UNION {Parts(c) : c \in Range(v.kids) \cup Range(v.attr)}
AllObjects == UNION {Parts(v) : v \in SomeObjects}
RECURSIVE Height(_)
Height(v) == IF Parts(v) = {v} THEN 0 ELSE 1 + Max({Height(c) : c \in Parts(v) \ {v}})
Heights == [v \in AllObjects |-> Height(v)]

AllSinks == {"mem", "file", "sock", "http", "stat"}
(* What malloc leaves in len: nothing, as in fresh memory, a number below the
   size of the buffer, or that size.  pos is that of fresh memory. *)
Uninitialised == {[len |-> n, pos |-> 0] : n \in {0, 12, MAX_CHUNK_SIZE}}
=============================================================================
