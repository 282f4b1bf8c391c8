---------------------------- MODULE ListLemmas ----------------------------
(***************************************************************************)
(* Facts about sequences that the proofs of several components use:        *)
(* induction over the natural numbers, what FlattenSeq makes of lists of   *)
(* buffers, and, for the lists of the C code seen as sequences without     *)
(* repetitions, what prepending, unlinking and popping do to the set of    *)
(* their elements.                                                         *)
(***************************************************************************)
EXTENDS Integers, SequencesExt, SequenceTheorems, WellFoundedInduction, TLAPS

(* A non-empty set of natural numbers has a least element. *)
LEMMA LeastElement ==
  ASSUME NEW T, T \subseteq Nat, T # {}
  PROVE  \E i \in T : \A j \in T : i <= j
<1>1. \E i \in T : \A j \in T : ~ (<<j, i>> \in OpToRel(<, Nat))
  BY NatLessThanWellFounded, WFMin
<1>2. PICK i \in T : \A j \in T : ~ (<<j, i>> \in OpToRel(<, Nat))
  BY <1>1
<1>3. ASSUME NEW j \in T PROVE i <= j
  <2>1. <<j, i>> \in OpToRel(<, Nat) <=> j < i
    BY DEF OpToRel
  <2>2. i \in Nat /\ j \in Nat
    OBVIOUS
  <2>3. ~ (j < i)
    BY <1>2, <2>1
  <2> QED BY <2>2, <2>3
<1> QED BY <1>2, <1>3

(* Induction over the natural numbers, for the set of those that satisfy what
   is to be proved. *)
LEMMA NatSetInduction ==
  ASSUME NEW T, T \subseteq Nat, 0 \in T, \A n \in T : n + 1 \in T
  PROVE  \A n \in Nat : n \in T
<1> DEFINE U == Nat \ T
<1> SUFFICES ASSUME U # {} PROVE FALSE
  OBVIOUS
<1>1. PICK m \in U : \A j \in U : m <= j
  <2>1. U \subseteq Nat OBVIOUS
  <2> HIDE DEF U
  <2> QED BY <2>1, LeastElement
<1>2. m \in Nat /\ m \notin T /\ m # 0
  OBVIOUS
<1>3. m - 1 \in Nat /\ ~(m <= m - 1) /\ (m - 1) + 1 = m
  BY <1>2
<1>4. m - 1 \in T
  BY <1>1, <1>3
<1> QED BY <1>2, <1>3, <1>4

(* The recursive function of FlattenSeq: for every number of sequences there
   is a function that satisfies its equation. *)
LEMMA FlattenExists ==
  ASSUME NEW s, NEW n \in Nat
  PROVE  \E f : f = [i \in 1 .. n |-> IF i = 1 THEN s[i] ELSE f[i - 1] \o s[i]]
<1> DEFINE P(m) == \E f : f = [i \in 1 .. m |-> IF i = 1 THEN s[i] ELSE f[i - 1] \o s[i]]
           T == {m \in Nat : P(m)}
<1>1. P(0)
  <2>1. [i \in 1 .. 0 |-> s[1]]
          = [i \in 1 .. 0 |-> IF i = 1 THEN s[i] ELSE [j \in 1 .. 0 |-> s[1]][i - 1] \o s[i]]
    OBVIOUS
  <2> QED BY <2>1
<1>2. ASSUME NEW m \in Nat, P(m) PROVE P(m + 1)
  <2>1. PICK f : f = [i \in 1 .. m |-> IF i = 1 THEN s[i] ELSE f[i - 1] \o s[i]]
    BY <1>2
  <2> DEFINE g == [i \in 1 .. m + 1 |->
                     IF i <= m THEN f[i] ELSE IF i = 1 THEN s[i] ELSE f[i - 1] \o s[i]]
  <2>2. ASSUME NEW i \in 1 .. m + 1
        PROVE  g[i] = IF i = 1 THEN s[i] ELSE g[i - 1] \o s[i]
    <3>1. CASE i <= m
      <4>1. i \in 1 .. m /\ (i # 1 => i - 1 \in 1 .. m)
        BY <3>1
      <4>2. g[i] = f[i] /\ (i # 1 => g[i - 1] = f[i - 1])
        BY <3>1, <4>1
      <4>3. f[i] = IF i = 1 THEN s[i] ELSE f[i - 1] \o s[i]
        BY <2>1, <4>1, Zenon
      <4> HIDE DEF g
      <4> QED BY <4>2, <4>3
    <3>2. CASE ~(i <= m)
      <4>1. i # 1 => i - 1 \in 1 .. m /\ g[i - 1] = f[i - 1]
        BY <3>2
      <4>2. g[i] = IF i = 1 THEN s[i] ELSE f[i - 1] \o s[i]
        BY <3>2
      <4> HIDE DEF g
      <4> QED BY <4>1, <4>2
    <3> QED BY <3>1, <3>2
  <2>3. g = [i \in 1 .. m + 1 |-> IF i = 1 THEN s[i] ELSE g[i - 1] \o s[i]]
    <3>1. g = [i \in 1 .. m + 1 |-> g[i]]
      OBVIOUS
    <3> HIDE DEF g
    <3> QED BY <2>2, <3>1, Zenon
  <2> HIDE DEF g
  <2> QED BY <2>3
<1>3. n \in T
  <2> HIDE DEF P
  <2>1. T \subseteq Nat /\ 0 \in T /\ \A m \in T : m + 1 \in T
    BY <1>1, <1>2
  <2> HIDE DEF T
  <2> QED BY <2>1, NatSetInduction
<1> QED BY <1>3

(* FlattenSeq by its partial results: the i-th is what the first i sequences
   amount to. *)
Partial(f, s, S) ==
  /\ f \in [1 .. Len(s) -> Seq(S)]
  /\ \A i \in 1 .. Len(s) : f[i] = IF i = 1 THEN s[i] ELSE f[i - 1] \o s[i]

LEMMA FlattenIs ==
  ASSUME NEW S, NEW s \in Seq(Seq(S)), s # <<>>
  PROVE  \E f : Partial(f, s, S) /\ FlattenSeq(s) = f[Len(s)]
<1>0. Len(s) \in Nat /\ Len(s) # 0 /\ \A i \in 1 .. Len(s) : s[i] \in Seq(S)
  OBVIOUS
<1> DEFINE E(f) == f = [i \in 1 .. Len(s) |-> IF i = 1 THEN s[i] ELSE f[i - 1] \o s[i]]
           f == CHOOSE g : E(g)
<1>1. E(f)
  <2>1. \E g : E(g)
    BY <1>0, FlattenExists
  <2> HIDE DEF E
  <2> QED BY <2>1
<1>2. FlattenSeq(s) = f[Len(s)]
  BY <1>0, Zenon DEF FlattenSeq
<1> HIDE DEF f
<1>3. ASSUME NEW i \in 1 .. Len(s) PROVE f[i] = IF i = 1 THEN s[i] ELSE f[i - 1] \o s[i]
  BY <1>1, Zenon
<1>4. DOMAIN f = 1 .. Len(s) /\ f = [i \in 1 .. Len(s) |-> f[i]]
  BY <1>1
<1> HIDE DEF E
<1> DEFINE T == {n \in Nat : n + 1 \in 1 .. Len(s) => f[n + 1] \in Seq(S)}
<1>5. T \subseteq Nat /\ 0 \in T
  BY <1>0, <1>3
<1>6. ASSUME NEW n \in T PROVE n + 1 \in T
  <2>1. n \in Nat /\ (n + 1 \in 1 .. Len(s) => f[n + 1] \in Seq(S))
    OBVIOUS
  <2> HIDE DEF T
  <2> SUFFICES ASSUME (n + 1) + 1 \in 1 .. Len(s) PROVE f[(n + 1) + 1] \in Seq(S)
    BY <2>1 DEF T
  <2>2. n + 1 \in 1 .. Len(s) /\ (n + 1) + 1 # 1 /\ ((n + 1) + 1) - 1 = n + 1
    BY <1>0, <2>1
  <2>3. f[(n + 1) + 1] = f[n + 1] \o s[(n + 1) + 1]
    BY <1>3, <2>2
  <2>4. s[(n + 1) + 1] \in Seq(S) /\ f[n + 1] \in Seq(S)
    BY <1>0, <2>1, <2>2
  <2> QED BY <2>3, <2>4
<1>7. \A i \in 1 .. Len(s) : f[i] \in Seq(S)
  <2> SUFFICES ASSUME NEW i \in 1 .. Len(s) PROVE f[i] \in Seq(S)
    OBVIOUS
  <2>1. i - 1 \in Nat /\ (i - 1) + 1 = i
    BY <1>0
  <2>2. i - 1 \in T
    <3> HIDE DEF T
    <3> QED BY <1>5, <1>6, <2>1, NatSetInduction
  <2> QED BY <2>1, <2>2
<1> HIDE DEF T
<1>8. Partial(f, s, S)
  BY <1>3, <1>4, <1>7 DEF Partial
<1> QED BY <1>2, <1>8

(* FlattenSeq keeps the type. *)
LEMMA FlattenType ==
  ASSUME NEW S, NEW s \in Seq(Seq(S))
  PROVE  FlattenSeq(s) \in Seq(S)
<1>1. CASE s = <<>>
  BY <1>1 DEF FlattenSeq
<1>2. CASE s # <<>>
  <2>1. PICK f : Partial(f, s, S) /\ FlattenSeq(s) = f[Len(s)]
    BY <1>2, FlattenIs
  <2>2. Len(s) \in 1 .. Len(s)
    BY <1>2
  <2> QED BY <2>1, <2>2 DEF Partial
<1> QED BY <1>1, <1>2

(* FlattenSeq of nothing, of one and of one more sequence. *)
LEMMA FlattenEmpty == FlattenSeq(<<>>) = <<>>
BY DEF FlattenSeq

LEMMA FlattenAppend ==
  ASSUME NEW S, NEW s \in Seq(Seq(S)), NEW x \in Seq(S)
  PROVE  FlattenSeq(Append(s, x)) = FlattenSeq(s) \o x
<1> DEFINE t == Append(s, x)
<1>1. /\ t \in Seq(Seq(S)) /\ t # <<>>
      /\ Len(t) = Len(s) + 1 /\ Len(s) \in Nat
      /\ t[Len(s) + 1] = x
      /\ \A i \in 1 .. Len(s) : t[i] = s[i]
  BY AppendProperties
<1> HIDE DEF t
<1>2. PICK g : Partial(g, t, S) /\ FlattenSeq(t) = g[Len(t)]
  BY <1>1, FlattenIs
<1>3. CASE s = <<>>
  <2>1. Len(t) = 1 /\ 1 \in 1 .. Len(t) /\ t[1] = x
    BY <1>1, <1>3
  <2>2. g[1] = t[1]
    BY <2>1, <1>2 DEF Partial
  <2>3. FlattenSeq(s) \o x = x
    BY <1>3, FlattenEmpty
  <2> QED BY <1>2, <2>1, <2>2, <2>3 DEF t
<1>4. CASE s # <<>>
  <2>1. PICK f : Partial(f, s, S) /\ FlattenSeq(s) = f[Len(s)]
    BY <1>4, FlattenIs
  <2>2. /\ Len(s) \in 1 .. Len(s) /\ Len(s) <= Len(t)
        /\ Len(t) \in 1 .. Len(t) /\ Len(t) # 1 /\ Len(t) - 1 = Len(s)
    BY <1>1, <1>4
  <2>3. \A i \in 1 .. Len(s) : s[i] = t[i]
    BY <1>1
  <2>4. f[Len(s)] = g[Len(s)]
    <3> DEFINE T == {m \in Nat : m + 1 \in 1 .. Len(s) => f[m + 1] = g[m + 1]}
    <3>1. T \subseteq Nat /\ 0 \in T
      <4>1. 1 \in 1 .. Len(s) /\ 1 \in 1 .. Len(t)
        BY <1>1, <2>2
      <4>2. f[1] = s[1] /\ g[1] = t[1]
        BY <4>1, <1>2, <2>1 DEF Partial
      <4> QED BY <2>3, <4>1, <4>2
    <3>2. ASSUME NEW m \in T PROVE m + 1 \in T
      <4>1. m \in Nat /\ (m + 1 \in 1 .. Len(s) => f[m + 1] = g[m + 1])
        OBVIOUS
      <4> SUFFICES ASSUME (m + 1) + 1 \in 1 .. Len(s) PROVE f[(m + 1) + 1] = g[(m + 1) + 1]
        BY <4>1
      <4>2. /\ m + 1 \in 1 .. Len(s)
            /\ (m + 1) + 1 # 1 /\ ((m + 1) + 1) - 1 = m + 1
            /\ (m + 1) + 1 \in 1 .. Len(t)
        BY <1>1, <4>1
      <4>3. f[(m + 1) + 1] = f[m + 1] \o s[(m + 1) + 1]
        BY <2>1, <4>2 DEF Partial
      <4>4. g[(m + 1) + 1] = g[m + 1] \o t[(m + 1) + 1]
        BY <1>2, <4>2 DEF Partial
      <4> QED BY <2>3, <4>1, <4>2, <4>3, <4>4
    <3>3. Len(s) - 1 \in Nat /\ (Len(s) - 1) + 1 = Len(s)
      BY <1>1, <2>2
    <3>4. Len(s) - 1 \in T
      <4> HIDE DEF T
      <4>1. \A m \in Nat : m \in T
        BY <3>1, <3>2, NatSetInduction
      <4> QED BY <3>3, <4>1
    <3> QED BY <2>2, <3>3, <3>4
  <2>5. g[Len(t)] = g[Len(t) - 1] \o t[Len(t)]
    BY <1>2, <2>2 DEF Partial
  <2> QED BY <1>1, <1>2, <2>1, <2>2, <2>4, <2>5 DEF t
<1> QED BY <1>3, <1>4

LEMMA FlattenOne ==
  ASSUME NEW S, NEW x \in Seq(S)
  PROVE  FlattenSeq(<<x>>) = x
<1>1. <<>> \in Seq(Seq(S)) /\ Append(<<>>, x) = <<x>>
  OBVIOUS
<1>2. FlattenSeq(Append(<<>>, x)) = FlattenSeq(<<>>) \o x
  BY <1>1, FlattenAppend
<1> QED BY <1>1, <1>2, FlattenEmpty

(* Concatenation is associative. *)
LEMMA ConcatAssoc ==
  ASSUME NEW S, NEW a \in Seq(S), NEW b \in Seq(S), NEW c \in Seq(S)
  PROVE  (a \o b) \o c = a \o (b \o c)
OBVIOUS

LEMMA ConcatAppend ==
  ASSUME NEW S, NEW a \in Seq(S), NEW b \in Seq(S), NEW y \in S
  PROVE  a \o b \in Seq(S) /\ a \o Append(b, y) = Append(a \o b, y)
<1>1. Append(b, y) = b \o <<y>> /\ a \o b \in Seq(S) /\ <<y>> \in Seq(S)
  OBVIOUS
<1>2. Append(a \o b, y) = (a \o b) \o <<y>>
  BY <1>1
<1> QED BY <1>1, <1>2, ConcatAssoc

(* The elements of a concatenation. *)
LEMMA ConcatIs ==
  ASSUME NEW S, NEW a \in Seq(S), NEW b \in Seq(S)
  PROVE  /\ a \o b \in Seq(S) /\ Len(a \o b) = Len(a) + Len(b)
         /\ Len(a) \in Nat /\ Len(b) \in Nat
         /\ \A i \in 1 .. Len(a) : (a \o b)[i] = a[i]
         /\ \A i \in 1 .. Len(b) : (a \o b)[Len(a) + i] = b[i]
  OBVIOUS

(* The two parts of a sequence that is cut, and that it is whole again when they
   are put together. *)
LEMMA CutParts ==
  ASSUME NEW S, NEW s \in Seq(S), NEW n \in 0 .. Len(s)
  PROVE  /\ SubSeq(s, 1, n) \in Seq(S) /\ Len(SubSeq(s, 1, n)) = n
         /\ \A i \in 1 .. n : SubSeq(s, 1, n)[i] = s[i]
         /\ SubSeq(s, n + 1, Len(s)) \in Seq(S) /\ Len(SubSeq(s, n + 1, Len(s))) = Len(s) - n
         /\ \A i \in 1 .. Len(s) - n : SubSeq(s, n + 1, Len(s))[i] = s[n + i]
<1>1. /\ SubSeq(s, 1, n) \in Seq(S) /\ Len(SubSeq(s, 1, n)) = n
      /\ \A i \in 1 .. n : SubSeq(s, 1, n)[i] = s[i]
  OBVIOUS
<1>2. /\ SubSeq(s, n + 1, Len(s)) \in Seq(S) /\ Len(SubSeq(s, n + 1, Len(s))) = Len(s) - n
      /\ \A i \in 1 .. Len(s) - n : SubSeq(s, n + 1, Len(s))[i] = s[n + i]
  OBVIOUS
<1> QED BY <1>1, <1>2

LEMMA CutSeq ==
  ASSUME NEW S, NEW s \in Seq(S), NEW n \in 0 .. Len(s)
  PROVE  s = SubSeq(s, 1, n) \o SubSeq(s, n + 1, Len(s))
<1> DEFINE a == SubSeq(s, 1, n)
           b == SubSeq(s, n + 1, Len(s))
           v == a \o b
<1>1. /\ a \in Seq(S) /\ b \in Seq(S) /\ Len(a) = n /\ Len(b) = Len(s) - n
      /\ \A i \in 1 .. n : a[i] = s[i]
      /\ \A i \in 1 .. Len(s) - n : b[i] = s[n + i]
      /\ Len(s) \in Nat /\ n \in Nat
  <2>1. s \in Seq(S) /\ n \in 0 .. Len(s) /\ Len(s) \in Nat /\ n \in Nat
    OBVIOUS
  <2>2. /\ a \in Seq(S) /\ Len(a) = n /\ \A i \in 1 .. n : a[i] = s[i]
    BY ONLY <2>1, CutParts
  <2>3. /\ b \in Seq(S) /\ Len(b) = Len(s) - n /\ \A i \in 1 .. Len(s) - n : b[i] = s[n + i]
    BY ONLY <2>1, CutParts
  <2> QED BY <2>1, <2>2, <2>3
<1> HIDE DEF a, b
<1>2. /\ v \in Seq(S) /\ Len(v) = Len(a) + Len(b)
      /\ \A i \in 1 .. Len(a) : v[i] = a[i]
      /\ \A i \in 1 .. Len(b) : v[Len(a) + i] = b[i]
  BY <1>1, ConcatIs
<1> HIDE DEF v
<1>3. ASSUME NEW i \in 1 .. Len(s) PROVE s[i] = v[i]
  <2>1. CASE i <= n
    BY <1>1, <1>2, <2>1
  <2>2. CASE i > n
    <3> DEFINE j == i - n
    <3>1. j \in 1 .. Len(s) - n /\ j \in 1 .. Len(b) /\ Len(a) + j = i /\ n + j = i
      BY <1>1, <2>2
    <3> HIDE DEF j
    <3>2. b[j] = s[n + j] /\ v[Len(a) + j] = b[j]
      BY ONLY <1>1, <1>2, <3>1
    <3> QED BY ONLY <3>1, <3>2
  <2> QED BY <1>1, <2>1, <2>2
<1>4. Len(s) = Len(v)
  BY <1>1, <1>2
<1>5. s = v
  BY <1>2, <1>3, <1>4, SeqEqual
<1> QED BY <1>5 DEF a, b, v

(* A list is its front and its last element. *)
LEMMA FrontLast ==
  ASSUME NEW S, NEW h \in Seq(S), h # <<>>
  PROVE  Front(h) \in Seq(S) /\ Last(h) \in S /\ h = Append(Front(h), Last(h))
BY DEF Front, Last

(* FlattenSeq of two lists of sequences. *)
LEMMA FlattenConcat ==
  ASSUME NEW S, NEW s \in Seq(Seq(S)), NEW t \in Seq(Seq(S))
  PROVE  FlattenSeq(s \o t) = FlattenSeq(s) \o FlattenSeq(t)
<1> DEFINE u(n) == SubSeq(t, 1, n)
           T == {n \in Nat : n <= Len(t) =>
                   FlattenSeq(s \o u(n)) = FlattenSeq(s) \o FlattenSeq(u(n))}
<1>0. Len(t) \in Nat
  OBVIOUS
<1>1. 0 \in T
  <2>1. u(0) = <<>> /\ s \o u(0) = s
    OBVIOUS
  <2>2. FlattenSeq(s) \in Seq(S)
    BY FlattenType
  <2>3. FlattenSeq(s) \o <<>> = FlattenSeq(s)
    BY <2>2
  <2> HIDE DEF u
  <2> QED BY <2>1, <2>3, FlattenEmpty
<1>2. ASSUME NEW n \in T PROVE n + 1 \in T
  <2>1. n \in Nat /\ (n <= Len(t) => FlattenSeq(s \o u(n)) = FlattenSeq(s) \o FlattenSeq(u(n)))
    OBVIOUS
  <2> SUFFICES ASSUME n + 1 <= Len(t)
               PROVE  FlattenSeq(s \o u(n + 1)) = FlattenSeq(s) \o FlattenSeq(u(n + 1))
    BY <2>1
  <2> DEFINE x == t[n + 1]
  <2>2. n <= Len(t) /\ n + 1 \in 1 .. Len(t)
    BY <1>0, <2>1
  <2>3. x \in Seq(S)
    BY <2>2
  <2>4. u(n) \in Seq(Seq(S)) /\ u(n + 1) = Append(u(n), x)
    BY <2>1, <2>2
  <2> HIDE DEF u, x
  <2>5. s \o u(n) \in Seq(Seq(S)) /\ s \o Append(u(n), x) = Append(s \o u(n), x)
    <3>1. s \in Seq(Seq(S)) /\ u(n) \in Seq(Seq(S)) /\ x \in Seq(S)
      BY <2>3, <2>4
    <3> QED BY ONLY <3>1, ConcatAppend, SMTT(30)
  <2>6. FlattenSeq(Append(s \o u(n), x)) = FlattenSeq(s \o u(n)) \o x
    BY <2>3, <2>5, FlattenAppend
  <2>7. FlattenSeq(Append(u(n), x)) = FlattenSeq(u(n)) \o x
    BY <2>3, <2>4, FlattenAppend
  <2>8. FlattenSeq(s) \in Seq(S) /\ FlattenSeq(u(n)) \in Seq(S)
    BY <2>4, FlattenType
  <2>9. (FlattenSeq(s) \o FlattenSeq(u(n))) \o x = FlattenSeq(s) \o (FlattenSeq(u(n)) \o x)
    BY ONLY <2>3, <2>8, ConcatAssoc, SMTT(30)
  <2> QED BY <2>1, <2>2, <2>4, <2>5, <2>6, <2>7, <2>9
<1>3. Len(t) \in T
  <2>1. T \subseteq Nat
    OBVIOUS
  <2> HIDE DEF T
  <2> QED BY <1>0, <1>1, <1>2, <2>1, NatSetInduction
<1>4. u(Len(t)) = t
  OBVIOUS
<1>5. FlattenSeq(s \o u(Len(t))) = FlattenSeq(s) \o FlattenSeq(u(Len(t)))
  BY <1>0, <1>3
<1> HIDE DEF u, T
<1> QED BY <1>4, <1>5

-----------------------------------------------------------------------------
(* Prepending to a list: what obj_add does to obj_root, and obj_get to the
   pool. *)
LEMMA PrependList ==
  ASSUME NEW S, NEW s \in Seq(S), NEW x \in S
  PROVE  /\ <<x>> \o s \in Seq(S)
         /\ Range(<<x>> \o s) = Range(s) \cup {x}
         /\ IsInjective(s) /\ x \notin Range(s) => IsInjective(<<x>> \o s)
<1> DEFINE t == <<x>> \o s
<1>1. /\ t \in Seq(S)
      /\ Len(t) = Len(s) + 1
      /\ t[1] = x
      /\ \A i \in 1 .. Len(s) : t[i + 1] = s[i]
      /\ \A i \in 2 .. Len(t) : t[i] = s[i - 1]
  OBVIOUS
<1> HIDE DEF t
<1>2. Range(t) = Range(s) \cup {x}
  <2>1. ASSUME NEW y \in Range(t) PROVE y \in Range(s) \cup {x}
    <3>1. PICK i \in 1 .. Len(t) : y = t[i] BY <1>1 DEF Range
    <3>2. CASE i = 1 BY <1>1, <3>1, <3>2
    <3>3. CASE i # 1
      <4>1. i - 1 \in 1 .. Len(s) /\ y = s[i - 1] BY <1>1, <3>1, <3>3
      <4> QED BY <4>1 DEF Range
    <3> QED BY <3>2, <3>3
  <2>2. ASSUME NEW y \in Range(s) PROVE y \in Range(t)
    <3>1. PICK i \in 1 .. Len(s) : y = s[i] BY DEF Range
    <3>2. i + 1 \in 1 .. Len(t) BY <1>1
    <3>3. t[i + 1] = y BY <1>1, <3>1
    <3> QED BY <1>1, <3>2, <3>3 DEF Range
  <2>3. x \in Range(t)
    BY <1>1 DEF Range
  <2> QED BY <2>1, <2>2, <2>3
<1>3. ASSUME IsInjective(s), x \notin Range(s) PROVE IsInjective(t)
  <2> SUFFICES ASSUME NEW i \in 1 .. Len(t), NEW j \in 1 .. Len(t), t[i] = t[j]
               PROVE  i = j
    BY <1>1 DEF IsInjective
  <2>1. \A n \in 2 .. Len(t) : n - 1 \in 1 .. Len(s) /\ t[n] = s[n - 1]
    BY <1>1
  <2>2. \A n \in 2 .. Len(t) : t[n] # x
    BY <2>1, <1>3 DEF Range
  <2>3. CASE i = 1 \/ j = 1
    BY <2>2, <2>3, <1>1
  <2>4. CASE i # 1 /\ j # 1
    <3>1. s[i - 1] = s[j - 1] BY <2>1, <2>4
    <3>2. i - 1 = j - 1 BY <2>1, <2>4, <3>1, <1>3 DEF IsInjective
    <3> QED BY <3>2
  <2> QED BY <2>3, <2>4
<1> QED BY <1>1, <1>2, <1>3 DEF t

(* Appending to a list: ev_push at the end. *)
LEMMA AppendList ==
  ASSUME NEW S, NEW s \in Seq(S), NEW x \in S
  PROVE  /\ Append(s, x) \in Seq(S)
         /\ Range(Append(s, x)) = Range(s) \cup {x}
         /\ IsInjective(s) /\ x \notin Range(s) => IsInjective(Append(s, x))
<1> DEFINE t == Append(s, x)
<1>1. /\ t \in Seq(S)
      /\ Len(t) = Len(s) + 1
      /\ t[Len(s) + 1] = x
      /\ \A i \in 1 .. Len(s) : t[i] = s[i]
  OBVIOUS
<1> HIDE DEF t
<1>2. Range(t) = Range(s) \cup {x}
  <2>1. ASSUME NEW y \in Range(t) PROVE y \in Range(s) \cup {x}
    <3>1. PICK i \in 1 .. Len(t) : y = t[i] BY <1>1 DEF Range
    <3>2. CASE i = Len(s) + 1 BY <1>1, <3>1, <3>2
    <3>3. CASE i # Len(s) + 1
      <4>1. i \in 1 .. Len(s) /\ y = s[i] BY <1>1, <3>1, <3>3
      <4> QED BY <4>1 DEF Range
    <3> QED BY <3>2, <3>3
  <2>2. ASSUME NEW y \in Range(s) PROVE y \in Range(t)
    <3>1. PICK i \in 1 .. Len(s) : y = s[i] BY DEF Range
    <3>2. i \in 1 .. Len(t) /\ t[i] = y BY <1>1, <3>1
    <3> QED BY <1>1, <3>2 DEF Range
  <2>3. x \in Range(t)
    <3>1. Len(s) + 1 \in 1 .. Len(t) BY <1>1
    <3> QED BY <1>1, <3>1 DEF Range
  <2> QED BY <2>1, <2>2, <2>3
<1>3. ASSUME IsInjective(s), x \notin Range(s) PROVE IsInjective(t)
  <2> SUFFICES ASSUME NEW i \in 1 .. Len(t), NEW j \in 1 .. Len(t), t[i] = t[j]
               PROVE  i = j
    BY <1>1 DEF IsInjective
  <2>1. \A n \in 1 .. Len(t) : n # Len(s) + 1 => n \in 1 .. Len(s)
    BY <1>1
  <2>2. \A n \in 1 .. Len(s) : t[n] # x
    BY <1>1, <1>3 DEF Range
  <2>3. CASE i = Len(s) + 1 \/ j = Len(s) + 1
    BY <2>1, <2>2, <2>3, <1>1
  <2>4. CASE i # Len(s) + 1 /\ j # Len(s) + 1
    <3>1. i \in 1 .. Len(s) /\ j \in 1 .. Len(s) /\ s[i] = s[j]
      BY <1>1, <2>1, <2>4
    <3> QED BY <1>3, <3>1 DEF IsInjective
  <2> QED BY <2>3, <2>4
<1> QED BY <1>1, <1>2, <1>3 DEF t

(* Unlinking the i-th element moves the later ones one place forward. *)
LEMMA UnlinkElements ==
  ASSUME NEW S, NEW s \in Seq(S), NEW i \in DOMAIN s
  PROVE  /\ RemoveAt(s, i) \in Seq(S)
         /\ Len(RemoveAt(s, i)) = Len(s) - 1
         /\ \A j \in 1 .. Len(s) - 1 : RemoveAt(s, i)[j] = IF j < i THEN s[j] ELSE s[j + 1]
<1> DEFINE l == SubSeq(s, 1, i - 1)
           r == SubSeq(s, i + 1, Len(s))
           t == RemoveAt(s, i)
<1>0. i \in 1 .. Len(s) /\ Len(s) \in Nat
  OBVIOUS
<1>1. /\ l \in Seq(S)
      /\ Len(l) = i - 1
      /\ \A j \in 1 .. i - 1 : l[j] = s[j]
  <2>1. \A j \in 1 .. i - 1 : s[j] \in S BY <1>0
  <2>2. 1 \in Int /\ i - 1 \in Int BY <1>0
  <2> HIDE DEF l
  <2>3. /\ l \in Seq(S)
        /\ Len(l) = IF 1 <= i - 1 THEN (i - 1) - 1 + 1 ELSE 0
        /\ \A j \in 1 .. (i - 1) - 1 + 1 : l[j] = s[1 + j - 1]
    BY ONLY <2>1, <2>2, SubSeqProperties DEF l
  <2> QED BY <1>0, <2>3
<1>2. /\ r \in Seq(S)
      /\ Len(r) = Len(s) - i
      /\ \A j \in 1 .. Len(s) - i : r[j] = s[i + j]
  <2>1. \A j \in i + 1 .. Len(s) : s[j] \in S BY <1>0
  <2>2. i + 1 \in Int /\ Len(s) \in Int BY <1>0
  <2> HIDE DEF r
  <2>3. /\ r \in Seq(S)
        /\ Len(r) = IF i + 1 <= Len(s) THEN Len(s) - (i + 1) + 1 ELSE 0
        /\ \A j \in 1 .. Len(s) - (i + 1) + 1 : r[j] = s[(i + 1) + j - 1]
    BY ONLY <2>1, <2>2, SubSeqProperties DEF r
  <2> QED BY <1>0, <2>3
<1>3. t = l \o r
  BY DEF RemoveAt
<1> HIDE DEF l, r, t
<1>4. /\ t \in Seq(S)
      /\ Len(t) = Len(s) - 1
      /\ \A j \in 1 .. Len(t) : t[j] = IF j < i THEN s[j] ELSE s[j + 1]
  <2>1. /\ l \o r \in Seq(S)
        /\ Len(l \o r) = Len(l) + Len(r)
        /\ \A j \in 1 .. Len(l) + Len(r) : (l \o r)[j] =
             IF j <= Len(l) THEN l[j] ELSE r[j - Len(l)]
    BY <1>1, <1>2, ConcatProperties
  <2>2. t \in Seq(S) /\ Len(t) = Len(s) - 1
    BY <1>0, <1>1, <1>2, <1>3, <2>1
  <2>3. ASSUME NEW j \in 1 .. Len(t)
        PROVE  t[j] = IF j < i THEN s[j] ELSE s[j + 1]
    <3>1. CASE j < i
      BY <1>0, <1>1, <1>2, <1>3, <2>1, <2>2, <3>1
    <3>2. CASE ~ (j < i)
      <4>1. t[j] = r[j - (i - 1)] BY <1>0, <1>1, <1>2, <1>3, <2>1, <2>2, <3>2
      <4>2. j - (i - 1) \in 1 .. Len(s) - i BY <1>0, <2>2, <3>2
      <4>3. i + (j - (i - 1)) = j + 1 BY <1>0, <2>2
      <4>4. r[j - (i - 1)] = s[i + (j - (i - 1))] BY <1>2, <4>2
      <4> QED BY <4>1, <4>3, <4>4, <3>2
    <3> QED BY <3>1, <3>2
  <2> QED BY <2>2, <2>3
<1> QED BY <1>4 DEF t

(* Unlinking the i-th element of a list without repetitions takes exactly
   that element away. *)
LEMMA UnlinkList ==
  ASSUME NEW S, NEW s \in Seq(S), NEW i \in DOMAIN s, IsInjective(s)
  PROVE  /\ RemoveAt(s, i) \in Seq(S)
         /\ Range(RemoveAt(s, i)) = Range(s) \ {s[i]}
         /\ IsInjective(RemoveAt(s, i))
<1> DEFINE t == RemoveAt(s, i)
<1>0. i \in 1 .. Len(s) /\ Len(s) \in Nat
  OBVIOUS
<1>1. /\ t \in Seq(S)
      /\ Len(t) = Len(s) - 1
      /\ \A j \in 1 .. Len(t) : t[j] = IF j < i THEN s[j] ELSE s[j + 1]
  <2>1. /\ t \in Seq(S)
        /\ Len(t) = Len(s) - 1
        /\ \A j \in 1 .. Len(s) - 1 : t[j] = IF j < i THEN s[j] ELSE s[j + 1]
    BY UnlinkElements
  <2> HIDE DEF t
  <2> QED BY <2>1
<1> HIDE DEF t
<1>2. Range(t) = Range(s) \ {s[i]}
  <2>1. ASSUME NEW y \in Range(t) PROVE y \in Range(s) \ {s[i]}
    <3>1. PICK j \in 1 .. Len(t) : y = t[j] BY <1>1 DEF Range
    <3>2. PICK n \in 1 .. Len(s) : n # i /\ y = s[n]
      <4>1. CASE j < i BY <1>0, <1>1, <3>1, <4>1
      <4>2. CASE ~ (j < i) BY <1>0, <1>1, <3>1, <4>2
      <4> QED BY <4>1, <4>2
    <3>3. s[n] # s[i] BY <1>0, <3>2 DEF IsInjective
    <3> QED BY <3>2, <3>3 DEF Range
  <2>2. ASSUME NEW y \in Range(s) \ {s[i]} PROVE y \in Range(t)
    <3>1. PICK n \in 1 .. Len(s) : y = s[n] /\ n # i BY DEF Range
    <3>2. CASE n < i
      <4>1. n \in 1 .. Len(t) /\ t[n] = y BY <1>0, <1>1, <3>1, <3>2
      <4> QED BY <1>1, <4>1 DEF Range
    <3>3. CASE n > i
      <4>1. n - 1 \in 1 .. Len(t) BY <1>0, <1>1, <3>3
      <4>2. t[n - 1] = y BY <1>0, <1>1, <3>1, <3>3, <4>1
      <4> QED BY <1>1, <4>1, <4>2 DEF Range
    <3> QED BY <1>0, <3>1, <3>2, <3>3
  <2> QED BY <2>1, <2>2
<1>3. IsInjective(t)
  <2> SUFFICES ASSUME NEW j \in 1 .. Len(t), NEW n \in 1 .. Len(t), t[j] = t[n]
               PROVE  j = n
    BY <1>1 DEF IsInjective
  <2> DEFINE up(m) == IF m < i THEN m ELSE m + 1
  <2>1. \A m \in 1 .. Len(t) : up(m) \in 1 .. Len(s) /\ t[m] = s[up(m)]
    BY <1>0, <1>1
  <2>2. up(j) = up(n)
    <3>1. up(j) \in DOMAIN s /\ up(n) \in DOMAIN s /\ s[up(j)] = s[up(n)]
      BY <1>0, <2>1
    <3> HIDE DEF up
    <3> QED BY <3>1 DEF IsInjective
  <2> QED BY <2>2, <1>0
<1> QED BY <1>1, <1>2, <1>3 DEF t

(* Taking the first element off a list without repetitions. *)
LEMMA TailList ==
  ASSUME NEW S, NEW s \in Seq(S), s # <<>>, IsInjective(s)
  PROVE  /\ Head(s) \in S
         /\ Head(s) \in Range(s)
         /\ Tail(s) \in Seq(S)
         /\ Range(Tail(s)) = Range(s) \ {Head(s)}
         /\ IsInjective(Tail(s))
<1> DEFINE t == Tail(s)
<1>1. /\ Head(s) = s[1] /\ 1 \in 1 .. Len(s) /\ Head(s) \in S
      /\ t \in Seq(S) /\ Len(t) = Len(s) - 1
      /\ \A i \in 1 .. Len(t) : t[i] = s[i + 1]
  BY HeadTailProperties
<1> HIDE DEF t
<1>2. Range(t) = Range(s) \ {Head(s)}
  <2>1. ASSUME NEW y \in Range(t) PROVE y \in Range(s) \ {Head(s)}
    <3>1. PICK i \in 1 .. Len(t) : y = t[i] BY <1>1 DEF Range
    <3>2. i + 1 \in 1 .. Len(s) /\ i + 1 # 1 /\ y = s[i + 1] BY <1>1, <3>1
    <3>3. y # s[1] BY <1>1, <3>2 DEF IsInjective
    <3> QED BY <1>1, <3>2, <3>3, SMTT(30) DEF Range
  <2>2. ASSUME NEW y \in Range(s) \ {Head(s)} PROVE y \in Range(t)
    <3>1. PICK i \in 1 .. Len(s) : y = s[i] BY DEF Range
    <3>2. i # 1 BY <1>1, <3>1
    <3>3. i - 1 \in 1 .. Len(t) /\ t[i - 1] = y BY <1>1, <3>1, <3>2
    <3> QED BY <1>1, <3>3 DEF Range
  <2> QED BY <2>1, <2>2
<1>3. IsInjective(t)
  <2> SUFFICES ASSUME NEW i \in 1 .. Len(t), NEW j \in 1 .. Len(t), t[i] = t[j]
               PROVE  i = j
    BY <1>1 DEF IsInjective
  <2>1. i + 1 \in 1 .. Len(s) /\ j + 1 \in 1 .. Len(s) /\ s[i + 1] = s[j + 1]
    BY <1>1
  <2>2. i + 1 = j + 1 BY <2>1 DEF IsInjective
  <2> QED BY <2>2
<1> QED
  <2>1. Head(s) \in Range(s) BY <1>1 DEF Range
  <2> QED BY <1>1, <1>2, <1>3, <2>1 DEF t
=============================================================================
