----------------------------- MODULE OsrvProofs -----------------------------
(***************************************************************************)
(* The invariants of Osrv hold for every set of clients, keys, requests    *)
(* and objects, and for every size of C_ask's buffer.                      *)
(*                                                                         *)
(* IInv says of each connection that its request is fresh (not received    *)
(* yet, so that nothing is on its way back) or taken (and then what is     *)
(* still on its way to the server are bytes of the payload), and that what *)
(* C_ask has received of a response line together with what is on its way  *)
(* is nothing or an answer: one that is right for the request and for what *)
(* the key had since, with nothing behind it unless the request had more   *)
(* payload than it announced.  Delivers carries that on while C_ask reads  *)
(* the payload and until it returns.                                       *)
(*                                                                         *)
(* Decimal and Number are recursive functions; what is needed of them is   *)
(* proved from a least counterexample.                                     *)
(***************************************************************************)
EXTENDS Osrv, ListLemmas

-----------------------------------------------------------------------------
(* Numbers.                                                                *)

Weight(b) == IF b = "0" THEN 0 ELSE 1

(* v has the values of the first 0, 1, ..., m digits of s. *)
Totals(s, m, v) ==
  /\ v \in [0 .. m -> Nat]
  /\ v[0] = 0
  /\ \A i \in 1 .. m : v[i] = v[i - 1] * 2 + Weight(s[i])

(* Every sequence of digits has totals. *)
LEMMA TotalsExist ==
  ASSUME NEW s, NEW n \in Nat
  PROVE  \E v : Totals(s, n, v)
<1> DEFINE T == {m \in Nat : ~ \E v : Totals(s, m, v)}
<1> SUFFICES ASSUME n \in T PROVE FALSE
  OBVIOUS
<1>1. PICK m \in T : \A j \in T : m <= j
  <2>1. T \subseteq Nat /\ T # {} OBVIOUS
  <2> QED BY <2>1, LeastElement
<1>2. m \in Nat /\ ~ \E v : Totals(s, m, v)
  OBVIOUS
<1>3. CASE m = 0
  <2>1. Totals(s, 0, [i \in 0 .. 0 |-> 0])
    BY DEF Totals
  <2> QED BY <1>2, <1>3, <2>1
<1>4. CASE m # 0
  <2>1. m - 1 \in Nat /\ m - 1 \notin T
    BY <1>1, <1>2, <1>4
  <2>2. PICK v : Totals(s, m - 1, v)
    BY <2>1
  <2> DEFINE w == [i \in 0 .. m |-> IF i = m THEN v[m - 1] * 2 + Weight(s[m]) ELSE v[i]]
  <2>3. \A i \in 0 .. m - 1 : v[i] \in Nat
    BY <2>2 DEF Totals
  <2>4. Weight(s[m]) \in Nat
    BY DEF Weight
  <2>5. \A i \in 0 .. m - 1 : w[i] = v[i]
    BY <1>2
  <2>6. w[m] = v[m - 1] * 2 + Weight(s[m]) /\ w[m] \in Nat
    BY <1>2, <2>1, <2>3, <2>4
  <2>7. w \in [0 .. m -> Nat]
    <3>1. \A i \in 0 .. m : w[i] \in Nat BY <1>2, <2>3, <2>5, <2>6
    <3> QED BY <3>1
  <2> HIDE DEF w
  <2>8. ASSUME NEW i \in 1 .. m PROVE w[i] = w[i - 1] * 2 + Weight(s[i])
    <3>1. i - 1 \in 0 .. m - 1 /\ w[i - 1] = v[i - 1] BY <1>2, <2>5
    <3>2. CASE i = m BY <2>6, <3>1, <3>2
    <3>3. CASE i # m
      <4>1. i \in 1 .. m - 1 BY <1>2, <3>3
      <4> QED BY <2>2, <2>5, <3>1, <4>1 DEF Totals
    <3> QED BY <3>2, <3>3
  <2>9. w[0] = 0
    BY <1>2, <1>4, <2>2, <2>5 DEF Totals
  <2>10. Totals(s, m, w)
    BY <2>7, <2>8, <2>9 DEF Totals
  <2> QED BY <1>2, <2>10
<1> QED BY <1>3, <1>4

(* Totals depend on the digits only. *)
LEMMA TotalsAgree ==
  ASSUME NEW s, NEW t, NEW m \in Nat, NEW n \in Nat, m <= n,
         \A i \in 1 .. m : s[i] = t[i],
         NEW v, Totals(s, m, v), NEW w, Totals(t, n, w)
  PROVE  v[m] = w[m]
<1> DEFINE T == {i \in 0 .. m : v[i] # w[i]}
<1> SUFFICES ASSUME T # {} PROVE FALSE
  OBVIOUS
<1>1. PICK i \in T : \A j \in T : i <= j
  <2>1. T \subseteq Nat OBVIOUS
  <2> QED BY <2>1, LeastElement
<1>2. i \in 0 .. m /\ v[i] # w[i] /\ i # 0
  BY DEF Totals
<1>3. i - 1 \in 0 .. m /\ i - 1 \notin T
  BY <1>1, <1>2
<1>4. v[i - 1] = w[i - 1]
  BY <1>3
<1>5. i \in 1 .. m /\ i \in 1 .. n
  BY <1>2
<1>6. v[i] = v[i - 1] * 2 + Weight(s[i]) /\ w[i] = w[i - 1] * 2 + Weight(t[i])
  BY <1>5 DEF Totals
<1>7. s[i] = t[i]
  BY <1>5
<1> QED BY <1>2, <1>4, <1>6, <1>7

(* Number is the last total. *)
LEMMA NumberIs ==
  ASSUME NEW s, Len(s) \in Nat, NEW v, Totals(s, Len(s), v)
  PROVE  Number(s) = v[Len(s)] /\ Number(s) \in Nat
<1> DEFINE n == Len(s)
           F(u) == [i \in 0 .. n |-> IF i = 0 THEN 0 ELSE u[i - 1] * Radix
                                                     + (IF s[i] = "0" THEN 0 ELSE 1)]
           c == CHOOSE u : u = F(u)
<1>0. n \in Nat /\ Totals(s, n, v)
  OBVIOUS
<1>1. Number(s) = c[n]
  BY DEF Number
<1>2. Radix = 2
  BY DEF Radix, Digit
<1> HIDE DEF n
<1>3. v = F(v)
  <2>1. v = [i \in 0 .. n |-> v[i]] BY <1>0 DEF Totals
  <2>2. ASSUME NEW i \in 0 .. n PROVE v[i] = F(v)[i]
    <3>1. CASE i = 0 BY <1>0, <3>1 DEF Totals
    <3>2. CASE i # 0
      <4>1. i \in 1 .. n BY <1>0, <3>2
      <4> QED BY <1>0, <1>2, <3>2, <4>1 DEF Totals, Weight
    <3> QED BY <3>1, <3>2
  <2> QED BY <2>1, <2>2
<1>4. c = F(c)
  BY <1>3
<1> HIDE DEF c
<1>5. c[0] = 0 /\ \A i \in 1 .. n : c[i] = c[i - 1] * 2 + Weight(s[i])
  <2>1. \A i \in 0 .. n : c[i] = IF i = 0 THEN 0 ELSE c[i - 1] * Radix + (IF s[i] = "0" THEN 0 ELSE 1)
    BY <1>4
  <2> QED BY <1>0, <1>2, <2>1 DEF Weight
<1>6. ASSUME NEW i \in 0 .. n PROVE c[i] = v[i]
  <2> DEFINE T == {j \in 0 .. n : c[j] # v[j]}
  <2> SUFFICES ASSUME T # {} PROVE FALSE
    OBVIOUS
  <2>1. PICK j \in T : \A l \in T : j <= l
    <3>1. T \subseteq Nat OBVIOUS
    <3> QED BY <3>1, LeastElement
  <2>2. j \in 0 .. n /\ c[j] # v[j] /\ j # 0
    BY <1>0, <1>5 DEF Totals
  <2>3. j - 1 \in 0 .. n /\ j - 1 \notin T /\ j \in 1 .. n
    BY <1>0, <2>1, <2>2
  <2>4. c[j - 1] = v[j - 1]
    BY <2>3
  <2> QED BY <1>0, <1>5, <2>2, <2>3, <2>4 DEF Totals
<1>7. n \in 0 .. n /\ v[n] \in Nat
  BY <1>0 DEF Totals
<1>8. Number(s) = v[n]
  BY <1>1, <1>6, <1>7
<1> QED BY <1>7, <1>8 DEF n

(* It is a natural number. *)
LEMMA NumberType ==
  ASSUME NEW s, Len(s) \in Nat
  PROVE  Number(s) \in Nat
  BY TotalsExist, NumberIs

(* That of no digits is 0. *)
LEMMA NumberEmpty == Number(<<>>) = 0
<1>1. Len(<<>>) = 0
  OBVIOUS
<1>2. PICK v : Totals(<<>>, Len(<<>>), v)
  BY <1>1, TotalsExist
<1> QED BY <1>1, <1>2, NumberIs DEF Totals

(* One more digit. *)
LEMMA NumberAppend ==
  ASSUME NEW S, NEW s \in Seq(S), NEW b \in S
  PROVE  Number(Append(s, b)) = Number(s) * 2 + Weight(b)
<1> DEFINE t == Append(s, b)
           n == Len(s)
<1>1. /\ n \in Nat /\ Len(t) = n + 1 /\ t[n + 1] = b
      /\ \A i \in 1 .. n : s[i] = t[i]
  OBVIOUS
<1> HIDE DEF t
<1>2. PICK v : Totals(s, n, v)
  BY <1>1, TotalsExist
<1>3. n <= n + 1 /\ n + 1 \in Nat /\ n + 1 \in 1 .. n + 1
  BY <1>1
<1> HIDE DEF n
<1>4. PICK w : Totals(t, n + 1, w)
  BY <1>3, TotalsExist
<1>5. v[n] = w[n]
  BY ONLY <1>1, <1>2, <1>3, <1>4, TotalsAgree
<1>6. Number(s) = v[n] /\ Number(t) = w[n + 1]
  BY <1>1, <1>2, <1>3, <1>4, NumberIs DEF n
<1>7. w[n + 1] = w[(n + 1) - 1] * 2 + Weight(t[n + 1])
  BY <1>3, <1>4 DEF Totals
<1> QED BY <1>1, <1>5, <1>6, <1>7 DEF t

(* f spells the numbers up to m. *)
Bits == {"0", "1"}
Bit(n) == IF n = 0 THEN "0" ELSE "1"
Spells(m, f) ==
  /\ f \in [0 .. m -> Seq(Bits)]
  /\ \A i \in 0 .. m : f[i] = IF i < 2 THEN <<Bit(i)>> ELSE Append(f[i \div 2], Bit(i % 2))

(* All numbers can be spelled. *)
LEMMA SpellsExist ==
  ASSUME NEW n \in Nat
  PROVE  \E f : Spells(n, f)
<1> DEFINE T == {m \in Nat : ~ \E f : Spells(m, f)}
<1> SUFFICES ASSUME n \in T PROVE FALSE
  OBVIOUS
<1>1. PICK m \in T : \A j \in T : m <= j
  <2>1. T \subseteq Nat /\ T # {} OBVIOUS
  <2> QED BY <2>1, LeastElement
<1>2. m \in Nat /\ ~ \E f : Spells(m, f)
  OBVIOUS
<1>3. CASE m = 0
  <2>1. <<"0">> \in Seq(Bits)
    BY DEF Bits
  <2>2. Spells(0, [i \in 0 .. 0 |-> <<"0">>])
    BY <2>1 DEF Spells, Bit
  <2> QED BY <1>2, <1>3, <2>2
<1>4. CASE m # 0
  <2>1. m - 1 \in Nat /\ m - 1 \notin T
    BY <1>1, <1>2, <1>4
  <2>2. PICK f : Spells(m - 1, f)
    BY <2>1
  <2> DEFINE d == IF m < 2 THEN <<Bit(m)>> ELSE Append(f[m \div 2], Bit(m % 2))
             w == [i \in 0 .. m |-> IF i = m THEN d ELSE f[i]]
  <2>3. \A i \in 0 .. m - 1 : f[i] \in Seq(Bits)
    BY <2>2 DEF Spells
  <2>4. m >= 2 => m \div 2 \in 0 .. m - 1
    BY <1>2
  <2>5. d \in Seq(Bits)
    <3>1. Bit(m) \in Bits /\ Bit(m % 2) \in Bits BY DEF Bit, Bits
    <3>2. CASE m < 2 BY <3>1, <3>2
    <3>3. CASE ~ (m < 2)
      <4>1. f[m \div 2] \in Seq(Bits) BY <1>2, <2>3, <2>4, <3>3
      <4> QED BY <3>1, <3>3, <4>1
    <3> QED BY <3>2, <3>3
  <2> HIDE DEF d
  <2>6. \A i \in 0 .. m - 1 : w[i] = f[i]
    BY <1>2
  <2>7. w[m] = d /\ w \in [0 .. m -> Seq(Bits)]
    <3>1. w[m] = d BY <1>2
    <3>2. \A i \in 0 .. m : w[i] \in Seq(Bits) BY <1>2, <2>3, <2>5, <2>6
    <3> QED BY <3>1, <3>2
  <2> HIDE DEF w
  <2>8. ASSUME NEW i \in 0 .. m
        PROVE  w[i] = IF i < 2 THEN <<Bit(i)>> ELSE Append(w[i \div 2], Bit(i % 2))
    <3>1. i >= 2 => i \div 2 \in 0 .. m - 1 BY <1>2
    <3>2. i >= 2 => w[i \div 2] = f[i \div 2] BY <2>6, <3>1
    <3>3. CASE i = m BY <1>2, <2>7, <3>2, <3>3, SMTT(30) DEF d
    <3>4. CASE i # m
      <4>1. i \in 0 .. m - 1 BY <1>2, <3>4
      <4>2. f[i] = IF i < 2 THEN <<Bit(i)>> ELSE Append(f[i \div 2], Bit(i % 2))
        BY <2>2, <4>1 DEF Spells
      <4> QED BY <1>2, <2>6, <3>2, <4>1, <4>2
    <3> QED BY <3>3, <3>4
  <2>9. Spells(m, w)
    BY <2>7, <2>8 DEF Spells
  <2> QED BY <1>2, <2>9
<1> QED BY <1>3, <1>4

(* There is one spelling. *)
LEMMA SpellsAgree ==
  ASSUME NEW m \in Nat, NEW n \in Nat, NEW f, Spells(m, f), NEW g, Spells(n, g),
         NEW k \in 0 .. m, k <= n
  PROVE  f[k] = g[k]
<1> DEFINE T == {i \in 0 .. k : f[i] # g[i]}
<1> SUFFICES ASSUME T # {} PROVE FALSE
  OBVIOUS
<1>1. PICK i \in T : \A j \in T : i <= j
  <2>1. T \subseteq Nat OBVIOUS
  <2> QED BY <2>1, LeastElement
<1>2. i \in 0 .. k /\ f[i] # g[i] /\ i \in 0 .. m /\ i \in 0 .. n
  OBVIOUS
<1>3. /\ f[i] = IF i < 2 THEN <<Bit(i)>> ELSE Append(f[i \div 2], Bit(i % 2))
      /\ g[i] = IF i < 2 THEN <<Bit(i)>> ELSE Append(g[i \div 2], Bit(i % 2))
  BY <1>2 DEF Spells
<1>4. ~ (i < 2)
  BY <1>2, <1>3
<1>5. i \div 2 \in 0 .. k /\ i \div 2 < i
  BY <1>2, <1>4
<1>6. i \div 2 \notin T
  BY <1>1, <1>2, <1>5
<1> QED BY <1>2, <1>3, <1>4, <1>5, <1>6

(* The recursion of Decimal has a solution, so that Decimal is one. *)
LEMMA DecimalUnfolds ==
  \A n \in Nat : Decimal[n] = IF n < 2 THEN <<Bit(n)>> ELSE Append(Decimal[n \div 2], Bit(n % 2))
<1> DEFINE F(u) == [n \in Nat |-> IF n < Radix THEN <<Digit[n + 1]>>
                                   ELSE Append(u[n \div Radix], Digit[(n % Radix) + 1])]
           s(n) == CHOOSE f : Spells(n, f)
           g == [n \in Nat |-> s(n)[n]]
<1>1. Radix = 2 /\ Digit[1] = "0" /\ Digit[2] = "1"
  BY DEF Radix, Digit
<1>2. \A n \in Nat : n < 2 => Digit[n + 1] = Bit(n)
  <2>1. ASSUME NEW n \in Nat, n < 2 PROVE Digit[n + 1] = Bit(n)
    <3>1. CASE n = 0 BY <1>1, <3>1 DEF Bit
    <3>2. CASE n = 1 BY <1>1, <3>2 DEF Bit
    <3> QED BY <2>1, <3>1, <3>2
  <2> QED BY <2>1
<1>3. \A n \in Nat : n % 2 \in Nat /\ n % 2 < 2 /\ n \div 2 \in Nat
  OBVIOUS
<1>4. \A u : F(u) = [n \in Nat |-> IF n < 2 THEN <<Bit(n)>> ELSE Append(u[n \div 2], Bit(n % 2))]
  BY <1>1, <1>2, <1>3
<1> HIDE DEF F
<1>5. \A n \in Nat : Spells(n, s(n))
  BY SpellsExist
<1>6. ASSUME NEW n \in Nat
      PROVE  g[n] = IF n < 2 THEN <<Bit(n)>> ELSE Append(g[n \div 2], Bit(n % 2))
  <2> HIDE DEF s
  <2>1. n \in 0 .. n /\ s(n)[n] = IF n < 2 THEN <<Bit(n)>> ELSE Append(s(n)[n \div 2], Bit(n % 2))
    BY <1>5 DEF Spells
  <2>2. ASSUME n >= 2 PROVE s(n)[n \div 2] = g[n \div 2]
    <3>1. n \div 2 \in Nat /\ n \div 2 \in 0 .. n \div 2 /\ n \div 2 <= n BY <2>2
    <3>2. Spells(n \div 2, s(n \div 2)) /\ Spells(n, s(n)) BY <1>5, <3>1
    <3>3. s(n \div 2)[n \div 2] = s(n)[n \div 2] BY <3>1, <3>2, SpellsAgree
    <3> QED BY <3>1, <3>3
  <2> QED BY <2>1, <2>2
<1>7. g = F(g)
  <2> DEFINE h == [n \in Nat |-> IF n < 2 THEN <<Bit(n)>> ELSE Append(g[n \div 2], Bit(n % 2))]
  <2>1. \A n \in Nat : g[n] = h[n] BY <1>6
  <2>2. g = h BY <2>1
  <2> QED BY <1>4, <2>2
<1> HIDE DEF g
<1>8. Decimal = CHOOSE u : u = F(u)
  BY DEF Decimal, F
<1>9. Decimal = F(Decimal)
  BY <1>7, <1>8
<1> QED BY <1>4, <1>9

(* snprintf writes digits, and they stand for the number. *)
LEMMA DecimalIs ==
  ASSUME NEW n \in Nat
  PROVE  /\ Decimal[n] \in Seq(Bits) /\ Len(Decimal[n]) >= 1
         /\ Number(Decimal[n]) = n
<1> DEFINE P(m) == Decimal[m] \in Seq(Bits) /\ Len(Decimal[m]) >= 1 /\ Number(Decimal[m]) = m
           T == {m \in Nat : ~P(m)}
<1> SUFFICES ASSUME n \in T PROVE FALSE
  OBVIOUS
<1>1. PICK m \in T : \A j \in T : m <= j
  <2>1. T \subseteq Nat /\ T # {} OBVIOUS
  <2> QED BY <2>1, LeastElement
<1>2. m \in Nat /\ ~P(m)
  OBVIOUS
<1>3. \A i : Bit(i) \in Bits /\ Weight(Bit(i)) = IF i = 0 THEN 0 ELSE 1
  BY DEF Bit, Bits, Weight
<1>4. CASE m < 2
  <2>1. Decimal[m] = <<Bit(m)>>
    BY <1>2, <1>4, DecimalUnfolds
  <2>2. <<>> \in Seq(Bits) /\ <<Bit(m)>> = Append(<<>>, Bit(m)) /\ <<Bit(m)>> \in Seq(Bits)
    BY <1>3
  <2>3. Number(<<Bit(m)>>) = Weight(Bit(m))
    <3>1. Number(Append(<<>>, Bit(m))) = Number(<<>>) * 2 + Weight(Bit(m))
      BY <1>3, <2>2, NumberAppend
    <3> QED BY <1>3, <2>2, <3>1, NumberEmpty
  <2>4. Weight(Bit(m)) = m
    BY <1>2, <1>3, <1>4
  <2> QED BY <1>2, <2>1, <2>2, <2>3, <2>4
<1>5. CASE ~ (m < 2)
  <2> DEFINE h == m \div 2
             r == m % 2
  <2>1. h \in Nat /\ h < m /\ r \in {0, 1} /\ m = h * 2 + r
    BY <1>2, <1>5
  <2>2. Decimal[m] = Append(Decimal[h], Bit(r))
    BY <1>2, <1>5, DecimalUnfolds
  <2> HIDE DEF h, r
  <2>3. P(h)
    <3>1. h \notin T BY <1>1, <1>2, <2>1
    <3> QED BY <2>1, <3>1
  <2>4. Decimal[m] \in Seq(Bits) /\ Len(Decimal[m]) >= 1
    BY <1>3, <2>2, <2>3
  <2>5. Number(Decimal[m]) = Number(Decimal[h]) * 2 + Weight(Bit(r))
    BY <1>3, <2>2, <2>3, NumberAppend
  <2>6. Weight(Bit(r)) = r
    BY <1>3, <2>1
  <2> QED BY <1>2, <2>1, <2>3, <2>4, <2>5, <2>6
<1> QED BY <1>4, <1>5

(* The first newline, and the first byte that is no digit. *)
Newline(s) == SelectInSeq(s, LAMBDA b : b = "\n")
NoDigit(s) == SelectInSeq(s, LAMBDA b : ~IsDigit(b))

(* The first newline of a stream. *)
LEMMA NewlineIs ==
  ASSUME NEW S, NEW s \in Seq(S)
  PROVE  /\ Newline(s) \in 0 .. Len(s)
         /\ Newline(s) = 0 => \A i \in 1 .. Len(s) : s[i] # "\n"
         /\ Newline(s) > 0 => /\ s[Newline(s)] = "\n"
                              /\ \A i \in 1 .. Newline(s) - 1 : s[i] # "\n"
<1> DEFINE I == {i \in 1 .. Len(s) : s[i] = "\n"}
<1>1. Newline(s) = IF I # {} THEN CHOOSE x \in I : \A y \in I : x <= y ELSE 0
  BY DEF Newline, SelectInSeq, Min
<1>2. CASE I = {}
  BY <1>1, <1>2
<1>3. CASE I # {}
  <2>1. I \subseteq Nat OBVIOUS
  <2>2. \E x \in I : \A y \in I : x <= y BY <1>3, <2>1, LeastElement
  <2>3. Newline(s) \in I /\ \A y \in I : Newline(s) <= y BY <1>1, <1>3, <2>2
  <2> HIDE DEF Newline
  <2>4. ASSUME NEW i \in 1 .. Newline(s) - 1 PROVE s[i] # "\n"
    <3>1. i \in 1 .. Len(s) /\ ~ (Newline(s) <= i) BY <2>3
    <3> QED BY <2>3, <3>1
  <2> QED BY <2>3, <2>4
<1> QED BY <1>2, <1>3

(* The first character that is no digit. *)
LEMMA NoDigitIs ==
  ASSUME NEW S, NEW s \in Seq(S)
  PROVE  /\ NoDigit(s) \in 0 .. Len(s)
         /\ (\A i \in 1 .. Len(s) : IsDigit(s[i])) => NoDigit(s) = 0
         /\ Len(s) > 0 /\ ~IsDigit(s[1]) => NoDigit(s) = 1
<1> DEFINE I == {i \in 1 .. Len(s) : ~IsDigit(s[i])}
<1>1. NoDigit(s) = IF I # {} THEN CHOOSE x \in I : \A y \in I : x <= y ELSE 0
  BY DEF NoDigit, SelectInSeq, Min
<1>2. CASE I = {}
  BY <1>1, <1>2
<1>3. CASE I # {}
  <2>1. I \subseteq Nat OBVIOUS
  <2>2. \E x \in I : \A y \in I : x <= y BY <1>3, <2>1, LeastElement
  <2>3. NoDigit(s) \in I /\ \A y \in I : NoDigit(s) <= y BY <1>1, <1>3, <2>2
  <2> HIDE DEF NoDigit
  <2> QED BY <2>3
<1> QED BY <1>2, <1>3

(* What atol makes of digits, of nothing and of a word. *)
LEMMA AtolIs ==
  ASSUME NEW S, NEW s \in Seq(S)
  PROVE  /\ atol(s) \in Nat
         /\ (\A i \in 1 .. Len(s) : IsDigit(s[i])) => atol(s) = Number(s)
         /\ s = <<>> => atol(s) = 0
         /\ Len(s) > 0 /\ ~IsDigit(s[1]) => atol(s) = 0
<1>1. atol(s) = Number(IF NoDigit(s) = 0 THEN s ELSE SubSeq(s, 1, NoDigit(s) - 1))
  BY DEF atol, NoDigit
<1>2. NoDigit(s) \in 0 .. Len(s)
  BY NoDigitIs
<1> HIDE DEF NoDigit
<1>3. NoDigit(s) # 0 => SubSeq(s, 1, NoDigit(s) - 1) \in Seq(S)
  BY <1>2
<1>4. atol(s) \in Nat
  BY <1>1, <1>3, NumberType
<1>5. ASSUME s = <<>> PROVE atol(s) = 0
  BY <1>1, <1>2, <1>5, NumberEmpty
<1>6. ASSUME Len(s) > 0, ~IsDigit(s[1]) PROVE atol(s) = 0
  <2>1. NoDigit(s) = 1 BY <1>6, NoDigitIs
  <2> DEFINE t == IF NoDigit(s) = 0 THEN s ELSE SubSeq(s, 1, NoDigit(s) - 1)
  <2>2. t = <<>> BY <2>1
  <2>3. atol(s) = Number(t) BY <1>1
  <2> HIDE DEF t
  <2> QED BY <2>2, <2>3, NumberEmpty
<1> QED BY <1>1, <1>4, <1>5, <1>6, NoDigitIs

(* C_ask reads the length that do_process has written. *)
LEMMA AtolOfDecimal ==
  ASSUME NEW n \in Nat
  PROVE  atol(Decimal[n]) = n
<1>1. \A b \in Bits : IsDigit(b)
  <2>1. DOMAIN Digit = 1 .. 2 /\ Digit[1] = "0" /\ Digit[2] = "1" BY DEF Digit
  <2> QED BY <2>1 DEF Bits, IsDigit, Range
<1>2. Decimal[n] \in Seq(Bits) /\ Number(Decimal[n]) = n
  BY DecimalIs
<1> QED BY <1>1, <1>2, AtolIs

-----------------------------------------------------------------------------
(* Streams.                                                                *)

(* The two parts of a stream that is cut. *)
LEMMA TakeDrop ==
  ASSUME NEW S, NEW s \in Seq(S), NEW n \in 0 .. Len(s)
  PROVE  /\ Take(s, n) \in Seq(S) /\ Len(Take(s, n)) = n
         /\ \A i \in 1 .. n : Take(s, n)[i] = s[i]
         /\ Drop(s, n) \in Seq(S) /\ Len(Drop(s, n)) = Len(s) - n
         /\ \A i \in 1 .. Len(s) - n : Drop(s, n)[i] = s[n + i]
<1>1. Take(s, n) = SubSeq(s, 1, n) /\ Drop(s, n) = SubSeq(s, n + 1, Len(s))
  BY DEF Take, Drop
<1>2. /\ SubSeq(s, 1, n) \in Seq(S) /\ Len(SubSeq(s, 1, n)) = n
      /\ \A i \in 1 .. n : SubSeq(s, 1, n)[i] = s[i]
  OBVIOUS
<1>3. /\ SubSeq(s, n + 1, Len(s)) \in Seq(S) /\ Len(SubSeq(s, n + 1, Len(s))) = Len(s) - n
      /\ \A i \in 1 .. Len(s) - n : SubSeq(s, n + 1, Len(s))[i] = s[n + i]
  OBVIOUS
<1> QED BY <1>1, <1>2, <1>3

(* Take for any number. *)
LEMMA TakeIs ==
  ASSUME NEW S, NEW s \in Seq(S), NEW n \in Nat
  PROVE  /\ Take(s, n) \in Seq(S)
         /\ Len(Take(s, n)) = IF n < Len(s) THEN n ELSE Len(s)
         /\ Take(s, n) = Take(s, IF n < Len(s) THEN n ELSE Len(s))
         /\ n >= Len(s) => Take(s, n) = s
<1>1. CASE n < Len(s)
  BY <1>1, TakeDrop
<1>2. CASE ~ (n < Len(s))
  <2>1. Take(s, n) = SubSeq(s, 1, Len(s)) BY <1>2 DEF Take
  <2>2. Take(s, Len(s)) = SubSeq(s, 1, Len(s)) BY DEF Take
  <2>3. SubSeq(s, 1, Len(s)) = s OBVIOUS
  <2> QED BY <1>2, <2>1, <2>2, <2>3
<1> QED BY <1>1, <1>2

(* The beginning of a beginning. *)
LEMMA TakeTake ==
  ASSUME NEW S, NEW s \in Seq(S), NEW m \in 0 .. Len(s), NEW n \in Nat, n <= m
  PROVE  Take(Take(s, m), n) = Take(s, n)
<1>1. Take(s, m) \in Seq(S) /\ Len(Take(s, m)) = m /\ \A i \in 1 .. m : Take(s, m)[i] = s[i]
  BY TakeDrop
<1> DEFINE t == Take(s, m)
<1> HIDE DEF t
<1>2. n \in 0 .. Len(t) /\ n \in 0 .. Len(s) /\ t \in Seq(S)
  BY <1>1 DEF t
<1>3. /\ Take(t, n) \in Seq(S) /\ Len(Take(t, n)) = n /\ \A i \in 1 .. n : Take(t, n)[i] = t[i]
      /\ Take(s, n) \in Seq(S) /\ Len(Take(s, n)) = n /\ \A i \in 1 .. n : Take(s, n)[i] = s[i]
  BY <1>2, TakeDrop
<1>4. \A i \in 1 .. n : Take(t, n)[i] = Take(s, n)[i]
  BY <1>1, <1>3 DEF t
<1> QED BY <1>3, <1>4, SeqEqual DEF t

(* Cutting a concatenation in its second half. *)
LEMMA CutBehind ==
  ASSUME NEW S, NEW h \in Seq(S), NEW p \in Seq(S), NEW n \in Len(h) .. Len(h) + Len(p)
  PROVE  /\ Take(h \o p, n) = h \o Take(p, n - Len(h))
         /\ Drop(h \o p, n) = Drop(p, n - Len(h))
<1> DEFINE f == h \o p
           m == n - Len(h)
<1>1. /\ f \in Seq(S) /\ Len(f) = Len(h) + Len(p)
      /\ \A i \in 1 .. Len(f) : f[i] = IF i <= Len(h) THEN h[i] ELSE p[i - Len(h)]
  OBVIOUS
<1>2. n \in 0 .. Len(f) /\ m \in 0 .. Len(p) /\ n = Len(h) + m /\ Len(h) \in Nat /\ Len(p) \in Nat
  BY <1>1
<1> HIDE DEF f, m
<1>3. /\ Take(f, n) \in Seq(S) /\ Len(Take(f, n)) = n /\ \A i \in 1 .. n : Take(f, n)[i] = f[i]
      /\ Drop(f, n) \in Seq(S) /\ Len(Drop(f, n)) = Len(f) - n
      /\ \A i \in 1 .. Len(f) - n : Drop(f, n)[i] = f[n + i]
  BY <1>1, <1>2, TakeDrop
<1>4. /\ Take(p, m) \in Seq(S) /\ Len(Take(p, m)) = m /\ \A i \in 1 .. m : Take(p, m)[i] = p[i]
      /\ Drop(p, m) \in Seq(S) /\ Len(Drop(p, m)) = Len(p) - m
      /\ \A i \in 1 .. Len(p) - m : Drop(p, m)[i] = p[m + i]
  BY <1>2, TakeDrop
<1>5. Take(f, n) = h \o Take(p, m)
  <2> DEFINE t == Take(p, m)
             g == h \o t
  <2> HIDE DEF t
  <2>1. t \in Seq(S) /\ Len(t) = m /\ \A i \in 1 .. m : t[i] = p[i]
    BY <1>4 DEF t
  <2>2. g \in Seq(S) /\ Len(g) = n /\ \A i \in 1 .. n : g[i] = IF i <= Len(h) THEN h[i] ELSE t[i - Len(h)]
    BY <1>2, <2>1
  <2> HIDE DEF g
  <2>3. ASSUME NEW i \in 1 .. n PROVE Take(f, n)[i] = g[i]
    <3>1. CASE i <= Len(h) BY <1>1, <1>2, <1>3, <2>2, <3>1
    <3>2. CASE ~ (i <= Len(h))
      <4>1. i - Len(h) \in 1 .. m /\ i \in 1 .. Len(f) BY <1>1, <1>2, <3>2
      <4>2. f[i] = p[i - Len(h)] BY ONLY <1>1, <3>2, <4>1
      <4>3. g[i] = t[i - Len(h)] BY ONLY <2>2, <3>2, <2>3
      <4>4. Take(f, n)[i] = f[i] BY ONLY <1>3, <2>3
      <4> QED BY ONLY <2>1, <4>1, <4>2, <4>3, <4>4
    <3> QED BY <3>1, <3>2
  <2>4. Take(f, n) = g BY <1>3, <2>2, <2>3, SeqEqual
  <2> QED BY <2>4 DEF g, t
<1>6. Drop(f, n) = Drop(p, m)
  <2>1. Len(f) - n = Len(p) - m BY <1>1, <1>2
  <2>2. ASSUME NEW i \in 1 .. Len(p) - m PROVE Drop(f, n)[i] = Drop(p, m)[i]
    <3>1. n + i \in 1 .. Len(f) /\ ~ (n + i <= Len(h)) /\ (n + i) - Len(h) = m + i BY <1>1, <1>2
    <3>2. f[n + i] = p[m + i] BY <1>1, <3>1
    <3> QED BY <1>3, <1>4, <2>1, <3>2
  <2> QED BY <1>3, <1>4, <2>1, <2>2, SeqEqual
<1> QED BY <1>5, <1>6 DEF f, m

-----------------------------------------------------------------------------
(* The inductive invariant.                                                *)

Letter == {"O", "K", "N", "F", "I", "V", "E", "R", "U", "S", "P", Blank, "?", "0", "1", "\n"}
Sym == Byte \cup Letter
UpSym == Byte \cup Command \cup Key
Asked == [r : Request, sfs : BOOLEAN]

(* What os.ask may return. *)
Result == [status : Seq(Sym \cup {"error"}), bytes : Seq(Sym)] \cup {NULL}

Types ==
  /\ store \in [Key -> Seq(Storable)]
  /\ up \in [Client -> Seq(UpSym)]
  /\ down \in [Client -> Seq(Sym)]
  /\ srv \in [Client -> {"recv", "fetch", "closed"}]
  /\ left \in [Client -> Nat]
  /\ cli \in [Client -> {"header", "payload", "sfs", "done", "interrupted", "closed"}]
  /\ req \in [Client -> Asked \cup {NULL}]
  /\ buf \in [Client -> Seq(Sym)]
  /\ pl \in [Client -> Nat]
  /\ eagain \in [Client -> BOOLEAN]
  /\ result \in [Client -> Result]
  /\ cand \in [Client -> SUBSET (Storable \cup {NULL})]

(* The request announces its whole payload. *)
Exact(q) == Len(q.r.bytes) <= atol(q.r.size)

(* The request q has been sent, perhaps not all of its payload, and not been
   received. *)
Fresh(u, q) == \E m \in 0 .. Len(q.r.bytes) : u = Header(q.r) \o Take(q.r.bytes, m)

(* The header has been received. *)
Taken(u, s, l, q) ==
  /\ u \in Seq(Byte)
  /\ Exact(q) => (s = "recv" => u = <<>>) /\ (s = "fetch" => Len(u) <= l)

(* What do_process sends for an object, and the answers it may give to request
   q when lookups could find C. *)
Label(v) == <<"O", "K", Blank>> \o (IF v.kind = "raw" THEN Decimal[Len(v.bytes)] ELSE <<"?">>)
Sent(v) == Line(Label(v)) \o v.bytes
Lookup == {"GET", "HAS", "DEL"}
Answers(q, a, C) ==
  \/ a = NF /\ q.r.cmd \in Lookup /\ NULL \in C
  \/ a = OK /\ q.r.cmd \in {"HAS", "DEL"} /\ C \ {NULL} # {}
  \/ a = OK /\ q.r.cmd = "PUT" /\ PutObject(q.r) \in C
  \/ q.r.cmd = "GET" /\ \E v \in C \ {NULL} : a = Sent(v)
  \/ a \in {UNSUPP, INV, ERR} /\ q.r.cmd \notin Lookup

(* Nothing or an answer, with something behind it only if q has more payload
   than it announced. *)
Replies(q, t, C) ==
  \/ t = <<>>
  \/ \E a \in Seq(Sym), rest \in Seq(Sym) :
       t = a \o rest /\ Answers(q, a, C) /\ (Exact(q) => rest = <<>>)

(* What os.ask returns for a lookup. *)
Truth(q, res, C) ==
  \/ res = Status(NF) /\ NULL \in C
  \/ \E v \in C \ {NULL} :
       IF q.r.cmd = "GET"
       THEN res = Payload(v.bytes) \/ (~q.sfs /\ res = Payload(<<>>) /\ v.kind = "sfs")
       ELSE res = Status(OK)

(* The answer is on its way to the client, or has been delivered and nothing of
   it is left. *)
Delivers(s, st, q, b, d, n, res, C) ==
  /\ st = "header" /\ q.r.cmd \in Lookup /\ s = "closed" => b \o d # <<>>
  /\ st = "payload" => /\ q.r.cmd = "GET" /\ ~q.sfs
                       /\ \E v \in C \ {NULL} : n = Len(v.bytes) /\ b \o d = v.bytes
  /\ st = "sfs" => /\ q.r.cmd = "GET" /\ q.sfs /\ d # <<>>
                   /\ \E v \in C \ {NULL} : b \o d = v.bytes
  /\ st = "done" => /\ q.r.cmd \in Lookup => Truth(q, res, C)
                    /\ Exact(q) /\ ~(~q.sfs /\ res = Payload(<<>>)) => d = <<>>

Connection(u, s, l, st, q, b, d, n, res, C) ==
  /\ q \in Asked \/ (u = <<>> /\ s = "closed" /\ st = "closed")
  /\ st = "closed" => d = <<>>
  /\ q \in Asked =>
       \/ Fresh(u, q) /\ s = "recv" /\ b = <<>> /\ d = <<>> /\ st \in {"header", "interrupted", "closed"}
       \/ Taken(u, s, l, q)
  /\ st = "header" => /\ Replies(q, b \o d, C)
                      /\ Len(b) <= BufSize - 8
                      /\ \A i \in 1 .. Len(b) : b[i] # "\n"
  /\ st = "payload" => Len(b) < n
  /\ st = "done" /\ q.r.cmd = "PUT" /\ res = Status(OK) => PutObject(q.r) \in C
  /\ Answerable => Delivers(s, st, q, b, d, n, res, C)

Connected(c) ==
  Connection(up[c], srv[c], left[c], cli[c], req[c], buf[c], down[c], pl[c], result[c], cand[c])

(* A lookup that is still to come can find what the key has now. *)
Current(c) ==
  Waiting(c) /\ req[c].r.cmd # "PUT" => Newest(store, req[c].r.key) \in cand[c]

IInv == Types /\ \A c \in Client : Connected(c) /\ Current(c)

-----------------------------------------------------------------------------
(* Requests.                                                               *)

(* What a request is made of. *)
LEMMA RequestIs ==
  ASSUME NEW r \in Request
  PROVE  /\ r.cmd \in Command /\ r.key \in Key /\ r.bare \in BOOLEAN
         /\ r.size \in Seq(Byte) /\ r.bytes \in Seq(Byte)
         /\ \A i \in 1 .. Len(r.size) : r.size[i] # "\n"
         /\ atol(r.size) \in Nat
         /\ r.cmd # "PUT" => r.bytes = <<>>
<1>1. /\ r.cmd \in Command /\ r.key \in Key /\ r.bare \in BOOLEAN
      /\ r.size \in Seq(Byte \ {"\n"}) /\ r.bytes \in Seq(Byte)
  BY OsrvAssumption
<1> DEFINE s == r.size
<1> HIDE DEF s
<1>2. s \in Seq(Byte \ {"\n"})
  BY <1>1 DEF s
<1>3. s \in Seq(Byte) /\ \A i \in 1 .. Len(s) : s[i] # "\n"
  BY <1>2
<1>4. atol(s) \in Nat
  BY <1>2, AtolIs
<1>5. r.cmd # "PUT" => r.bytes = <<>>
  BY OsrvAssumption
<1> QED BY <1>1, <1>3, <1>4, <1>5 DEF s

(* What may be stored is an object. *)
LEMMA StorableIs ==
  /\ Storable \subseteq Object
  /\ NULL \notin Storable
  /\ \A v \in Storable : v.kind \in {"raw", "sfs"} /\ v.bytes \in Seq(Byte)
<1>1. ASSUME NEW r \in Request PROVE PutObject(r) \in Object
  <2>1. Take(r.bytes, atol(r.size)) \in Seq(Byte) BY RequestIs, TakeIs
  <2> QED BY <2>1 DEF PutObject, Object
<1>2. Storable \subseteq Object
  BY <1>1, OsrvAssumption DEF Storable
<1>3. \A v \in Object : v.kind \in {"raw", "sfs"} /\ v.bytes \in Seq(Byte)
  BY DEF Object
<1> QED BY <1>2, <1>3, OsrvAssumption

(* The elements of a line. *)
LEMMA LineIs ==
  ASSUME NEW S, NEW s \in Seq(S), "\n" \in S
  PROVE  /\ Line(s) \in Seq(S) /\ Len(Line(s)) = Len(s) + 1 /\ Line(s)[Len(s) + 1] = "\n"
         /\ \A i \in 1 .. Len(s) : Line(s)[i] = s[i]
  BY DEF Line

(* What a request may have between its command line and its size line. *)
BlankLine(r) == IF r.blank THEN <<"\n">> ELSE <<>>

(* A request's header starts with command and key. *)
LEMMA HeaderIs ==
  ASSUME NEW r \in Request
  PROVE  /\ Header(r) \in Seq(UpSym) /\ Len(Header(r)) \in Nat /\ Len(Header(r)) >= 2
         /\ Header(r)[1] = r.cmd
         /\ Header(r)[2] = IF r.bare THEN "\n" ELSE r.key
         /\ r.cmd = "PUT" /\ ~r.bare =>
              Header(r) = Line(<<"PUT", r.key>>) \o (BlankLine(r) \o Line(r.size))
<1> DEFINE h == Line(IF r.bare THEN <<r.cmd>> ELSE <<r.cmd, r.key>>)
           y == BlankLine(r) \o Line(r.size)
           z == IF r.cmd = "PUT" THEN y ELSE <<>>
<1>1. /\ r.cmd \in UpSym /\ r.key \in UpSym /\ "\n" \in UpSym /\ r.size \in Seq(UpSym)
      /\ r.bare \in BOOLEAN
  <2>1. r.size \in Seq(Byte) /\ Byte \subseteq UpSym BY RequestIs DEF UpSym
  <2>2. r.size \in Seq(UpSym) BY <2>1
  <2> QED BY <2>2, RequestIs, OsrvAssumption DEF UpSym
<1>2. /\ h \in Seq(UpSym) /\ Len(h) \in Nat /\ Len(h) >= 2 /\ h[1] = r.cmd
      /\ h[2] = IF r.bare THEN "\n" ELSE r.key
  <2>1. CASE r.bare
    <3> DEFINE w == <<r.cmd>>
    <3>1. w \in Seq(UpSym) /\ Len(w) = 1 /\ w[1] = r.cmd BY <1>1
    <3>2. h = Line(w) BY <2>1
    <3> HIDE DEF h, w
    <3> QED BY <1>1, <2>1, <3>1, <3>2, LineIs
  <2>2. CASE ~r.bare
    <3> DEFINE w == <<r.cmd, r.key>>
    <3>1. w \in Seq(UpSym) /\ Len(w) = 2 /\ w[1] = r.cmd /\ w[2] = r.key
      BY <1>1
    <3>2. h = Line(w) BY <2>2
    <3> HIDE DEF h, w
    <3> QED BY <1>1, <2>2, <3>1, <3>2, LineIs
  <2> QED BY <2>1, <2>2
<1>3. z \in Seq(UpSym) /\ Len(z) \in Nat
  <2>1. y \in Seq(UpSym)
    <3>1. Line(r.size) \in Seq(UpSym) BY <1>1, LineIs
    <3>2. BlankLine(r) \in Seq(UpSym) BY <1>1 DEF BlankLine
    <3> QED BY ONLY <3>1, <3>2, ConcatIs
  <2> HIDE DEF y
  <2>2. CASE r.cmd = "PUT"
    <3>1. z = y BY <2>2
    <3> HIDE DEF z
    <3> QED BY <2>1, <3>1
  <2>3. CASE r.cmd # "PUT"
    <3>1. z = <<>> BY <2>3
    <3> HIDE DEF z
    <3> QED BY <3>1
  <2> QED BY <2>2, <2>3
<1>4. Header(r) = h \o z
  BY DEF Header, BlankLine
<1>5. r.cmd = "PUT" /\ ~r.bare => h = Line(<<"PUT", r.key>>) /\ z = y
  OBVIOUS
<1> HIDE DEF h, y, z
<1>6. /\ h \o z \in Seq(UpSym) /\ Len(h \o z) = Len(h) + Len(z)
      /\ (h \o z)[1] = h[1] /\ (h \o z)[2] = h[2]
  BY <1>2, <1>3
<1>7. /\ Header(r) \in Seq(UpSym) /\ Len(Header(r)) \in Nat /\ Len(Header(r)) >= 2
      /\ Header(r)[1] = r.cmd
      /\ Header(r)[2] = IF r.bare THEN "\n" ELSE r.key
  BY <1>2, <1>3, <1>4, <1>6
<1>8. r.cmd = "PUT" /\ ~r.bare =>
        Header(r) = Line(<<"PUT", r.key>>) \o (BlankLine(r) \o Line(r.size))
  BY <1>4, <1>5 DEF y
<1> QED BY <1>7, <1>8

(* Newlines before a size line are skipped, and nothing else is. *)
LEMMA SizeLineIs ==
  ASSUME NEW S, NEW s \in Seq(S)
  PROVE  /\ (\A i \in 1 .. Len(s) : s[i] = "\n") => size_line(s) = <<>>
         /\ Len(s) > 0 /\ s[1] # "\n" => size_line(s) = s
         /\ Len(s) > 1 /\ s[1] = "\n" /\ s[2] # "\n" => size_line(s) = Drop(s, 1)
<1> DEFINE I == {i \in 1 .. Len(s) : s[i] # "\n"}
           j == SelectInSeq(s, LAMBDA b : b # "\n")
<1>1. j = IF I # {} THEN CHOOSE x \in I : \A y \in I : x <= y ELSE 0
  BY DEF SelectInSeq, Min
<1>2. size_line(s) = IF j = 0 THEN <<>> ELSE Drop(s, j - 1)
  BY DEF size_line
<1>3. ASSUME NEW k \in I, \A i \in I : k <= i PROVE j = k
  <2>1. I \subseteq Nat OBVIOUS
  <2>2. j \in I /\ \A i \in I : j <= i BY <1>1, <1>3
  <2>3. j <= k /\ k <= j BY <1>3, <2>2
  <2> HIDE DEF I, j
  <2>4. j \in Nat /\ k \in Nat BY <2>1, <2>2
  <2> QED BY <2>3, <2>4
<1>4. ASSUME \A i \in 1 .. Len(s) : s[i] = "\n" PROVE size_line(s) = <<>>
  <2>1. I = {} BY <1>4
  <2> QED BY <1>1, <1>2, <2>1
<1> HIDE DEF j
<1>5. ASSUME Len(s) > 0, s[1] # "\n" PROVE size_line(s) = s
  <2>1. 1 \in I /\ \A i \in I : 1 <= i BY <1>5
  <2>2. j = 1 BY <1>3, <2>1
  <2>3. Drop(s, 0) = s BY DEF Drop
  <2> QED BY <1>2, <2>2, <2>3
<1>6. ASSUME Len(s) > 1, s[1] = "\n", s[2] # "\n" PROVE size_line(s) = Drop(s, 1)
  <2>1. 2 \in I BY <1>6
  <2>2. ASSUME NEW i \in I PROVE 2 <= i BY <1>6, <2>2
  <2>3. j = 2 BY <1>3, <2>1, <2>2
  <2> QED BY <1>2, <2>3
<1> QED BY <1>4, <1>5, <1>6

(* do_process finds the size line and the payload of a PUT where they are,
   behind a blank line or not, unless the size line is empty and a payload
   follows it. *)
LEMMA PutParsed ==
  ASSUME NEW r \in Request, r.cmd = "PUT", ~r.bare, NEW p \in Seq(Byte),
         r.size = <<>> => p = <<>>
  PROVE  put_parts(Drop(Header(r) \o p, 3)) = [size |-> r.size, bytes |-> p]
<1> DEFINE k == r.key
           z == r.size
           b == BlankLine(r)
           n == Len(z)
<1>1. /\ z \in Seq(Byte) /\ n \in Nat /\ Len(z) = n /\ k \in Key
      /\ \A i \in 1 .. n : z[i] # "\n"
  BY RequestIs
<1>2. Header(r) = Line(<<"PUT", k>>) \o (b \o Line(z))
  BY HeaderIs
<1>3. b = <<>> \/ b = <<"\n">>
  BY DEF BlankLine
<1>4. z = <<>> => p = <<>>
  OBVIOUS
<1> HIDE DEF z, k, b
<1> DEFINE S == UpSym
           h == Line(<<"PUT", k>>)
           y == Line(z)
           x == y \o p
           e == b \o x
<1>5. z \in Seq(S) /\ p \in Seq(S) /\ "\n" \in S
  <2>1. Byte \subseteq S BY DEF UpSym
  <2> QED BY <1>1, <2>1, OsrvAssumption
<1>6. h \in Seq(S) /\ Len(h) = 3
  <2> DEFINE w == <<"PUT", k>>
  <2>1. w \in Seq(S) /\ Len(w) = 2 BY <1>1 DEF UpSym, Command
  <2> HIDE DEF S, w
  <2>2. Line(w) \in Seq(S) /\ Len(Line(w)) = Len(w) + 1 BY ONLY <1>5, <2>1, LineIs
  <2> QED BY <2>1, <2>2 DEF w
<1> HIDE DEF S
<1>7. y \in Seq(S) /\ Len(y) = n + 1 /\ (\A i \in 1 .. n : y[i] = z[i]) /\ y[n + 1] = "\n"
  BY <1>5, LineIs
<1>8. b \in Seq(S)
  <2>1. <<>> \in Seq(S) /\ <<"\n">> \in Seq(S) BY ONLY <1>5
  <2> QED BY ONLY <1>3, <2>1
<1> HIDE DEF h, y, n
<1>9. /\ x \in Seq(S) /\ Len(x) = n + 1 + Len(p) /\ Len(p) \in Nat
      /\ \A i \in 1 .. n + 1 : x[i] = y[i]
  <2>1. /\ x \in Seq(S) /\ Len(x) = Len(y) + Len(p) /\ Len(p) \in Nat
        /\ \A i \in 1 .. Len(y) : x[i] = y[i]
    BY ONLY <1>5, <1>7, ConcatIs
  <2> HIDE DEF x
  <2> QED BY <1>1, <1>7, <2>1
<1>10. Drop(Header(r) \o p, 3) = e
  <2>1. b \o y \in Seq(S) BY ONLY <1>7, <1>8, ConcatIs
  <2>2. (b \o y) \o p = b \o (y \o p)
    <3>1. b \in Seq(S) /\ y \in Seq(S) /\ p \in Seq(S) BY <1>5, <1>7, <1>8
    <3> QED BY ONLY <3>1, ConcatAssoc, SMTT(60)
  <2>3. (h \o (b \o y)) \o p = h \o ((b \o y) \o p)
    <3> DEFINE w == b \o y
    <3>1. h \in Seq(S) /\ w \in Seq(S) /\ p \in Seq(S) BY <1>5, <1>6, <2>1
    <3> HIDE DEF w
    <3>2. (h \o w) \o p = h \o (w \o p) BY ONLY <3>1, ConcatAssoc, SMTT(60)
    <3> QED BY <3>2 DEF w
  <2>4. Header(r) \o p = h \o e
    <3>1. Header(r) = h \o (b \o y) BY <1>2 DEF h, y
    <3> QED BY ONLY <2>2, <2>3, <3>1
  <2>5. e \in Seq(S) /\ Len(e) \in Nat
    <3> HIDE DEF x
    <3> QED BY ONLY <1>8, <1>9, ConcatIs
  <2> HIDE DEF e
  <2>6. Drop(h \o e, 3) = Drop(e, 0)
    <3>1. 3 \in Len(h) .. Len(h) + Len(e) /\ 3 - Len(h) = 0 BY <1>6, <2>5
    <3>2. Drop(h \o e, 3) = Drop(e, 3 - Len(h)) BY ONLY <1>6, <2>5, <3>1, CutBehind
    <3> QED BY <3>1, <3>2
  <2>7. Drop(e, 0) = e BY <2>5 DEF Drop
  <2> QED BY <2>4, <2>6, <2>7
<1>11. CASE z = <<>>
  <2>1. y = <<"\n">> BY <1>11 DEF y, Line
  <2>2. x = <<"\n">> BY <1>4, <1>11, <2>1
  <2>3. <<>> \in Seq({"\n"}) /\ <<"\n">> \in Seq({"\n"}) OBVIOUS
  <2>4. e \in Seq({"\n"}) /\ \A i \in 1 .. Len(e) : e[i] = "\n"
    <3> HIDE DEF x
    <3>1. b \in Seq({"\n"}) /\ x \in Seq({"\n"}) BY ONLY <1>3, <2>2, <2>3
    <3>2. e \in Seq({"\n"}) BY ONLY <3>1, ConcatIs
    <3> HIDE DEF e
    <3> QED BY ONLY <3>2
  <2> HIDE DEF e
  <2>5. size_line(e) = <<>> BY ONLY <2>4, SizeLineIs
  <2>6. <<>> \in Seq(S) OBVIOUS
  <2>7. Newline(<<>>) = 0
    <3>1. Newline(<<>>) \in 0 .. Len(<<>>) BY ONLY <2>6, NewlineIs
    <3> QED BY <3>1
  <2>8. SubSeq(<<>>, 1, 0 - 1) = <<>> /\ Drop(<<>>, 0) = <<>> BY DEF Drop
  <2>9. put_parts(e) = [size |-> SubSeq(<<>>, 1, 0 - 1), bytes |-> Drop(<<>>, 0)]
    BY ONLY <2>5, <2>7 DEF put_parts, Newline
  <2> QED BY <1>4, <1>10, <1>11, <2>8, <2>9 DEF z
<1>12. CASE z # <<>>
  <2>1. n > 0 /\ x[1] # "\n" /\ Len(x) > 0
    <3>1. n > 0 BY <1>1, <1>12 DEF n
    <3>2. x[1] = z[1] /\ z[1] # "\n" BY <1>1, <1>7, <1>9, <3>1
    <3> HIDE DEF x
    <3> QED BY <1>1, <1>9, <3>1, <3>2
  <2> HIDE DEF x
  <2>2. size_line(e) = x
    <3>1. CASE b = <<>>
      <4>1. e = x BY <1>9, <3>1
      <4> HIDE DEF e
      <4> QED BY ONLY <1>9, <2>1, <4>1, SizeLineIs
    <3>2. CASE b = <<"\n">>
      <4>1. Len(b) = 1 /\ b[1] = "\n" BY <3>2
      <4>2. /\ e \in Seq(S) /\ Len(e) = Len(b) + Len(x)
            /\ (\A i \in 1 .. Len(b) : e[i] = b[i]) /\ \A i \in 1 .. Len(x) : e[Len(b) + i] = x[i]
        BY ONLY <1>8, <1>9, ConcatIs
      <4>3. Drop(b \o x, 1) = Drop(x, 1 - Len(b))
        <5>1. 1 \in Len(b) .. Len(b) + Len(x) BY <1>1, <1>9, <4>1
        <5> QED BY ONLY <1>8, <1>9, <5>1, CutBehind
      <4>4. Drop(x, 0) = x BY <1>9 DEF Drop
      <4>5. Drop(e, 1) = x BY <4>1, <4>3, <4>4
      <4> HIDE DEF e
      <4>6. Len(e) > 1 /\ e[1] = "\n" /\ e[2] # "\n" BY <1>1, <1>9, <2>1, <4>1, <4>2
      <4>7. size_line(e) = Drop(e, 1) BY ONLY <4>2, <4>6, SizeLineIs
      <4> QED BY <4>5, <4>7
    <3> QED BY <1>3, <3>1, <3>2
  <2>3. Newline(x) = n + 1
    <3>1. /\ Newline(x) \in 0 .. Len(x)
          /\ Newline(x) = 0 => \A i \in 1 .. Len(x) : x[i] # "\n"
          /\ Newline(x) > 0 => x[Newline(x)] = "\n" /\ \A i \in 1 .. Newline(x) - 1 : x[i] # "\n"
      BY <1>9, NewlineIs
    <3>2. x[n + 1] = "\n" /\ n + 1 \in 1 .. Len(x) /\ \A i \in 1 .. n : x[i] # "\n"
      BY <1>1, <1>7, <1>9
    <3> DEFINE l == Newline(x)
    <3> HIDE DEF l
    <3>3. l \in Nat /\ l # 0 /\ l > 0 BY <3>1, <3>2 DEF l
    <3>4. l <= n + 1
      <4>1. ASSUME l > n + 1 PROVE FALSE
        <5>1. n + 1 \in 1 .. l - 1 BY <1>1, <3>3, <4>1
        <5> QED BY <3>1, <3>2, <3>3, <5>1 DEF l
      <4> QED BY <1>1, <3>3, <4>1
    <3>5. l \notin 1 .. n BY <3>1, <3>2, <3>3 DEF l
    <3> QED BY <1>1, <3>3, <3>4, <3>5 DEF l
  <2>4. SubSeq(x, 1, (n + 1) - 1) = z
    <3> DEFINE w == SubSeq(x, 1, (n + 1) - 1)
    <3>1. w \in Seq(S) /\ Len(w) = n /\ \A i \in 1 .. n : w[i] = x[i]
      BY <1>1, <1>9
    <3> HIDE DEF w
    <3>2. ASSUME NEW i \in 1 .. n PROVE w[i] = z[i]
      <4>1. i \in 1 .. n + 1 BY <1>1
      <4> QED BY <1>7, <1>9, <3>1, <4>1
    <3> QED BY <1>1, <1>5, <3>1, <3>2, SeqEqual DEF w
  <2>5. Drop(x, n + 1) = p
    <3>1. n + 1 \in Len(y) .. Len(y) + Len(p) /\ n + 1 - Len(y) = 0 BY <1>1, <1>7, <1>9
    <3>2. Drop(y \o p, n + 1) = Drop(p, n + 1 - Len(y)) BY ONLY <1>5, <1>7, <3>1, CutBehind
    <3>3. Drop(p, 0) = p BY <1>5 DEF Drop
    <3> QED BY <3>1, <3>2, <3>3 DEF x
  <2>6. put_parts(e) = [size |-> SubSeq(x, 1, Newline(x) - 1), bytes |-> Drop(x, Newline(x))]
    BY ONLY <2>2 DEF put_parts, Newline
  <2> QED BY <1>10, <2>3, <2>4, <2>5, <2>6 DEF z
<1> QED BY <1>11, <1>12

-----------------------------------------------------------------------------
(* Steps.                                                                  *)

(* What one more candidate does to a connection: nothing. *)
LEMMA MoreCandidates ==
  ASSUME NEW u, NEW s, NEW l, NEW st, NEW q, NEW b, NEW d, NEW n, NEW res, NEW C, NEW D,
         C \subseteq D, Connection(u, s, l, st, q, b, d, n, res, C)
  PROVE  Connection(u, s, l, st, q, b, d, n, res, D)
<1>1. \A a : Answers(q, a, C) => Answers(q, a, D)
  BY DEF Answers
<1>2. \A t : Replies(q, t, C) => Replies(q, t, D)
  BY <1>1 DEF Replies
<1>3. \A t : Truth(q, t, C) => Truth(q, t, D)
  BY DEF Truth
<1>4. Delivers(s, st, q, b, d, n, res, C) => Delivers(s, st, q, b, d, n, res, D)
  BY <1>3 DEF Delivers
<1> QED BY <1>2, <1>4 DEF Connection

(* The connections other than c. *)
Others(c) ==
  \A d \in Client \ {c} :
    /\ up'[d] = up[d] /\ srv'[d] = srv[d] /\ left'[d] = left[d] /\ cli'[d] = cli[d]
    /\ req'[d] = req[d] /\ buf'[d] = buf[d] /\ down'[d] = down[d] /\ pl'[d] = pl[d]
    /\ result'[d] = result[d]

(* A step on one connection that leaves the store as it is. *)
LEMMA ConnectionStep ==
  ASSUME IInv, NEW c \in Client, Others(c), Types', store' = store,
         \A d \in Client \ {c} : cand'[d] = cand[d],
         Connected(c)', Current(c)'
  PROVE  IInv'
<1>1. ASSUME NEW d \in Client PROVE Connected(d)' /\ Current(d)'
  <2>1. CASE d = c BY <2>1
  <2>2. CASE d # c
    <3>1. Connected(d)' <=> Connected(d) BY <2>2 DEF Others, Connected
    <3>2. Waiting(d)' <=> Waiting(d) BY <2>2 DEF Others, Waiting
    <3>3. Current(d)' <=> Current(d) BY <2>2, <3>2 DEF Others, Current, Newest
    <3> QED BY <3>1, <3>3 DEF IInv
  <2> QED BY <2>1, <2>2
<1> QED BY <1>1 DEF IInv

(* A new store: what it does to the candidates. *)
LEMMA NewStore ==
  ASSUME IInv, NEW s \in [Key -> Seq(Storable)], StoreBecomes(s), cli' = cli, req' = req
  PROVE  /\ store' \in [Key -> Seq(Storable)]
         /\ cand' \in [Client -> SUBSET (Storable \cup {NULL})]
         /\ \A c \in Client : cand[c] \subseteq cand'[c] /\ Current(c)'
         /\ \A c \in Client : Waiting(c) => Newest(s, req[c].r.key) \in cand'[c]
<1>1. store' = s /\ \A c \in Client :
        cand'[c] = IF Waiting(c) THEN cand[c] \cup {Newest(s, req[c].r.key)} ELSE cand[c]
  BY DEF StoreBecomes
<1>2. \A c \in Client : Waiting(c) => req[c] \in Asked
  BY DEF IInv, Connected, Connection, Waiting
<1>3. \A c \in Client : Waiting(c) => Newest(s, req[c].r.key) \in Storable \cup {NULL}
  <2>1. ASSUME NEW k \in Key PROVE Newest(s, k) \in Storable \cup {NULL}
    <3>1. s[k] \in Seq(Storable) OBVIOUS
    <3>2. CASE s[k] = <<>> BY <3>2 DEF Newest
    <3>3. CASE s[k] # <<>>
      <4>1. Head(s[k]) \in Storable BY <3>1, <3>3
      <4> QED BY <3>3, <4>1 DEF Newest
    <3> QED BY <3>2, <3>3
  <2>2. \A q \in Asked : q.r.key \in Key BY RequestIs DEF Asked
  <2> QED BY <1>2, <2>1, <2>2
<1>4. \A c \in Client : cand[c] \subseteq Storable \cup {NULL}
  BY DEF IInv, Types
<1>5. \A c \in Client : cand'[c] \subseteq Storable \cup {NULL}
  BY <1>1, <1>3, <1>4
<1>6. cand' = [c \in Client |-> cand'[c]]
  BY DEF StoreBecomes
<1>7. cand' \in [Client -> SUBSET (Storable \cup {NULL})]
  BY <1>5, <1>6
<1>8. \A c \in Client : Waiting(c)' <=> Waiting(c)
  BY DEF Waiting
<1>9. \A c \in Client : Current(c)'
  BY <1>1, <1>8 DEF Current
<1> QED BY <1>1, <1>7, <1>9

(* A step of do_process that has connection c done. *)
LEMMA ServerStep ==
  ASSUME IInv, NEW c \in Client, Others(c), UNCHANGED cliVars,
         up' \in [Client -> Seq(UpSym)], down' \in [Client -> Seq(Sym)],
         srv' \in [Client -> {"recv", "fetch", "closed"}], left' \in [Client -> Nat],
         \/ UNCHANGED <<store, cand>>
         \/ \E s \in [Key -> Seq(Storable)] : StoreBecomes(s),
         Connected(c)'
  PROVE  IInv'
<1>1. Types /\ cli' = cli /\ req' = req /\ buf' = buf /\ pl' = pl /\ eagain' = eagain /\ result' = result
  BY DEF IInv, cliVars
<1>2. CASE UNCHANGED <<store, cand>>
  <2>1. Types' BY <1>1, <1>2 DEF Types
  <2>2. Current(c)' BY <1>1, <1>2 DEF IInv, Current, Waiting, Newest
  <2> QED BY <1>2, <2>1, <2>2, ConnectionStep
<1>3. ASSUME NEW s \in [Key -> Seq(Storable)], StoreBecomes(s) PROVE IInv'
  <2>1. /\ store' \in [Key -> Seq(Storable)]
        /\ cand' \in [Client -> SUBSET (Storable \cup {NULL})]
        /\ \A d \in Client : cand[d] \subseteq cand'[d] /\ Current(d)'
    BY <1>1, <1>3, NewStore
  <2>2. Types' BY <1>1, <2>1 DEF Types
  <2>3. ASSUME NEW d \in Client, d # c PROVE Connected(d)'
    <3>1. Connection(up[d], srv[d], left[d], cli[d], req[d], buf[d], down[d], pl[d], result[d], cand[d])
      BY DEF IInv, Connected
    <3>2. Connection(up[d], srv[d], left[d], cli[d], req[d], buf[d], down[d], pl[d], result[d], cand'[d])
      BY <2>1, <3>1, MoreCandidates
    <3> QED BY <2>3, <3>2 DEF Others, Connected
  <2> QED BY <2>1, <2>2, <2>3 DEF IInv
<1> QED BY <1>2, <1>3

(* The R session of the server stores or removes an object. *)
LEMMA StoreStep ==
  ASSUME IInv, NEW s \in [Key -> Seq(Storable)], StoreBecomes(s),
         UNCHANGED <<up, down, srvVars, cliVars>>
  PROVE  IInv'
<1>1. Types /\ UNCHANGED <<up, down, srv, left, cli, req, buf, pl, eagain, result>>
  BY DEF IInv, cliVars, srvVars
<1>2. /\ store' \in [Key -> Seq(Storable)]
      /\ cand' \in [Client -> SUBSET (Storable \cup {NULL})]
      /\ \A d \in Client : cand[d] \subseteq cand'[d] /\ Current(d)'
  BY <1>1, NewStore
<1>3. Types'
  BY <1>1, <1>2 DEF Types
<1>4. ASSUME NEW d \in Client PROVE Connected(d)'
  <2>1. Connection(up[d], srv[d], left[d], cli[d], req[d], buf[d], down[d], pl[d], result[d], cand[d])
    BY DEF IInv, Connected
  <2>2. Connection(up[d], srv[d], left[d], cli[d], req[d], buf[d], down[d], pl[d], result[d], cand'[d])
    BY <1>2, <2>1, MoreCandidates
  <2> QED BY <1>1, <2>2 DEF Connected
<1> QED BY <1>2, <1>3, <1>4 DEF IInv

(* The store after an addition or a removal. *)
LEMMA StoreChanges ==
  ASSUME IInv, NEW k \in Key
  PROVE  /\ \A v \in Storable : /\ Added(k, v) \in [Key -> Seq(Storable)]
                                /\ Newest(Added(k, v), k) = v
         /\ store[k] # <<>> => Removed(k) \in [Key -> Seq(Storable)]
<1>1. store \in [Key -> Seq(Storable)] /\ store[k] \in Seq(Storable)
  BY DEF IInv, Types
<1>2. ASSUME NEW v \in Storable
      PROVE  Added(k, v) \in [Key -> Seq(Storable)] /\ Newest(Added(k, v), k) = v
  <2> DEFINE t == <<v>> \o store[k]
  <2>1. t \in Seq(Storable) /\ t # <<>> /\ Head(t) = v BY <1>1
  <2>2. Added(k, v) = [store EXCEPT ![k] = t] BY DEF Added
  <2> HIDE DEF t
  <2>3. Added(k, v)[k] = t /\ Added(k, v) \in [Key -> Seq(Storable)] BY <1>1, <2>1, <2>2
  <2> QED BY <2>1, <2>3 DEF Newest
<1>3. ASSUME store[k] # <<>> PROVE Removed(k) \in [Key -> Seq(Storable)]
  <2>1. Tail(store[k]) \in Seq(Storable) BY <1>1, <1>3
  <2> QED BY <1>1, <2>1 DEF Removed
<1> QED BY <1>2, <1>3

(* o.put and o.get with removal keep the invariant. *)
LEMMA RSessionStep ==
  ASSUME IInv, NEW k \in Key, o_get_remove(k) \/ \E v \in Value : o_put(k, v)
  PROVE  IInv'
<1>1. CASE o_get_remove(k)
  BY <1>1, StoreStep, StoreChanges DEF o_get_remove
<1>2. ASSUME NEW v \in Value, o_put(k, v) PROVE IInv'
  <2>1. v \in Storable BY DEF Storable
  <2> QED BY <1>2, <2>1, StoreStep, StoreChanges DEF o_put
<1> QED BY <1>1, <1>2

(* The invariant holds initially. *)
LEMMA InitIInv == Init => IInv
<1> SUFFICES ASSUME Init PROVE IInv
  OBVIOUS
<1>1. Types
  BY DEF Init, Types, Result
<1>2. ASSUME NEW c \in Client PROVE Connected(c) /\ Current(c)
  <2>1. /\ up[c] = <<>> /\ srv[c] = "closed" /\ left[c] = 0 /\ cli[c] = "closed" /\ down[c] = <<>>
    BY DEF Init
  <2>2. Taken(<<>>, "closed", 0, req[c])
    BY DEF Taken
  <2>3. Connected(c)
    BY <2>1, <2>2 DEF Connected, Connection, Delivers
  <2> QED BY <2>1, <2>3 DEF Current, Waiting
<1> QED BY <1>1, <1>2 DEF IInv

(* What send_buf does. *)
LEMMA SendBuf ==
  ASSUME IInv, NEW c \in Client, NEW a \in Seq(Sym), NEW then \in {"recv", "closed"},
         send_buf(c, a, then)
  PROVE  /\ down' \in [Client -> Seq(Sym)]
         /\ srv' \in [Client -> {"recv", "fetch", "closed"}]
         /\ srv'[c] \in {then, "closed"}
         /\ down'[c] = IF cli[c] = "closed" THEN down[c] ELSE down[c] \o a
         /\ \A d \in Client \ {c} : down'[d] = down[d] /\ srv'[d] = srv[d]
<1>1. down \in [Client -> Seq(Sym)] /\ srv \in [Client -> {"recv", "fetch", "closed"}]
  BY DEF IInv, Types
<1> DEFINE t == IF cli[c] = "closed" THEN down[c] ELSE down[c] \o a
<1>2. t \in Seq(Sym)
  BY <1>1
<1>3. down' = [down EXCEPT ![c] = t]
  BY DEF send_buf
<1> HIDE DEF t
<1>4. PICK st \in {then, "closed"} : srv' = [srv EXCEPT ![c] = st]
  BY DEF send_buf
<1>5. down' \in [Client -> Seq(Sym)] /\ down'[c] = t /\ \A d \in Client \ {c} : down'[d] = down[d]
  BY <1>1, <1>2, <1>3
<1>6. /\ srv' \in [Client -> {"recv", "fetch", "closed"}] /\ srv'[c] \in {then, "closed"}
      /\ \A d \in Client \ {c} : srv'[d] = srv[d]
  BY <1>1, <1>4
<1> QED BY <1>5, <1>6 DEF t

(* do_process has received the rest of a request and answers a. *)
LEMMA AnswerStep ==
  ASSUME IInv, NEW c \in Client, NEW a \in Seq(Sym), NEW then \in {"recv", "closed"},
         send_buf(c, a, then), UNCHANGED cliVars, left' = left,
         up' \in [Client -> Seq(UpSym)], \A d \in Client \ {c} : up'[d] = up[d],
         \/ UNCHANGED <<store, cand>>
         \/ \E s \in [Key -> Seq(Storable)] : StoreBecomes(s),
         req[c] \in Asked, up'[c] \in Seq(Byte),
         Exact(req[c]) /\ then = "recv" => up'[c] = <<>>,
         a # <<>>,
         \/ /\ buf[c] \o down[c] = <<>> /\ cli[c] \in {"header", "interrupted", "closed"}
            /\ cli[c] = "header" => Answers(req[c], a, cand'[c])
         \/ ~Exact(req[c]) /\ a = UNSUPP /\ req[c].r.cmd \notin Lookup
  PROVE  IInv'
<1>1. /\ down' \in [Client -> Seq(Sym)]
      /\ srv' \in [Client -> {"recv", "fetch", "closed"}]
      /\ srv'[c] \in {then, "closed"}
      /\ down'[c] = IF cli[c] = "closed" THEN down[c] ELSE down[c] \o a
      /\ \A d \in Client \ {c} : down'[d] = down[d] /\ srv'[d] = srv[d]
  BY SendBuf
<1>2. /\ cli' = cli /\ req' = req /\ buf' = buf /\ pl' = pl /\ eagain' = eagain /\ result' = result
      /\ buf[c] \in Seq(Sym) /\ down[c] \in Seq(Sym) /\ left \in [Client -> Nat]
  BY DEF IInv, Types, cliVars
<1>3. Others(c)
  BY <1>1, <1>2 DEF Others
<1>4. cand[c] \subseteq cand'[c]
  BY <1>2, NewStore
<1>5. Connection(up[c], srv[c], left[c], cli[c], req[c], buf[c], down[c], pl[c], result[c], cand'[c])
  BY <1>4, MoreCandidates DEF IInv, Connected
<1>6. Taken(up'[c], srv'[c], left[c], req[c])
  BY <1>1 DEF Taken
<1>7. ASSUME cli[c] = "header" PROVE Replies(req[c], buf[c] \o down'[c], cand'[c])
  <2> DEFINE b == buf[c]
             d == down[c]
             q == req[c]
             C == cand'[c]
  <2>1. down'[c] = d \o a BY <1>1, <1>7
  <2>2. b \in Seq(Sym) /\ d \in Seq(Sym) /\ Replies(q, b \o d, C)
    BY <1>2, <1>5, <1>7 DEF Connection
  <2>3. \/ b \o d = <<>> /\ Answers(q, a, C)
        \/ ~Exact(q) /\ a = UNSUPP /\ q.r.cmd \notin Lookup
    BY <1>7
  <2> HIDE DEF b, d, q, C
  <2>4. b \o (d \o a) = (b \o d) \o a
    <3>1. b \in Seq(Sym) /\ d \in Seq(Sym) /\ a \in Seq(Sym) BY <2>2
    <3> QED BY ONLY <3>1
  <2> DEFINE t == b \o d
  <2>5. t \in Seq(Sym) BY <2>2
  <2>6. <<>> \in Seq(Sym) /\ <<>> \o a = a /\ a \o <<>> = a OBVIOUS
  <2>7. ASSUME t = <<>>, Answers(q, a, C) PROVE Replies(q, t \o a, C)
    <3>1. t \o a = a \o <<>> BY <2>6, <2>7
    <3> QED BY <2>6, <2>7, <3>1 DEF Replies
  <2> HIDE DEF t
  <2>8. ASSUME t # <<>>, ~Exact(q) PROVE Replies(q, t \o a, C)
    <3>1. PICK e \in Seq(Sym), rest \in Seq(Sym) : t = e \o rest /\ Answers(q, e, C)
      BY <2>2, <2>8 DEF Replies, t
    <3>2. (e \o rest) \o a = e \o (rest \o a) /\ rest \o a \in Seq(Sym)
      <4>1. e \in Seq(Sym) /\ rest \in Seq(Sym) /\ a \in Seq(Sym) OBVIOUS
      <4> QED BY ONLY <4>1
    <3> QED BY <2>8, <3>1, <3>2 DEF Replies
  <2>9. ASSUME a = UNSUPP, q.r.cmd \notin Lookup PROVE Answers(q, a, C)
    BY <2>9 DEF Answers
  <2>10. Replies(q, t \o a, C) BY <2>3, <2>7, <2>8, <2>9 DEF t
  <2> QED BY <2>1, <2>4, <2>10 DEF b, d, q, C, t
<1>8. ASSUME Answerable
      PROVE  Delivers(srv'[c], cli[c], req[c], buf[c], down'[c], pl[c], result[c], cand'[c])
  <2>1. Delivers(srv[c], cli[c], req[c], buf[c], down[c], pl[c], result[c], cand'[c])
    BY <1>5, <1>8 DEF Connection
  <2>2. CASE cli[c] = "header" /\ req[c].r.cmd \in Lookup
    <3>1. buf[c] \o down[c] = <<>> /\ down'[c] = down[c] \o a BY <1>1, <2>2
    <3>2. buf[c] \o (down[c] \o a) = (buf[c] \o down[c]) \o a
      <4> DEFINE b == buf[c]
                 d == down[c]
      <4>1. b \in Seq(Sym) /\ d \in Seq(Sym) /\ a \in Seq(Sym) BY <1>2
      <4> HIDE DEF b, d
      <4>2. (b \o d) \o a = b \o (d \o a) BY ONLY <4>1, ConcatAssoc
      <4> QED BY <4>2 DEF b, d
    <3>3. <<>> \o a = a OBVIOUS
    <3>4. buf[c] \o down'[c] = a BY <3>1, <3>2, <3>3
    <3> QED BY <2>2, <3>4 DEF Delivers
  <2>3. CASE cli[c] \in {"interrupted", "closed"} \/ (cli[c] = "header" /\ req[c].r.cmd \notin Lookup)
    BY <2>3 DEF Delivers
  <2>4. CASE cli[c] \notin {"header", "interrupted", "closed"}
    <3>1. ~Exact(req[c]) /\ req[c].r.cmd \notin Lookup BY <2>4
    <3> QED BY <2>1, <2>4, <3>1 DEF Delivers, Lookup
  <2> QED BY <2>2, <2>3, <2>4
<1>9. Connection(up'[c], srv'[c], left[c], cli[c], req[c], buf[c], down'[c], pl[c], result[c], cand'[c])
  <2>1. cli[c] = "closed" => down'[c] = <<>> BY <1>1, <1>5 DEF Connection
  <2> QED BY <1>5, <1>6, <1>7, <1>8, <2>1 DEF Connection
<1>10. Connected(c)'
  BY <1>2, <1>9 DEF Connected
<1> QED BY <1>1, <1>2, <1>3, <1>10, ServerStep

(* The first n elements of what is on its way to the server are a new request
   with the part p of its payload, or come from behind an announced payload. *)
NewRequest(c, n, p) ==
  /\ p \in Seq(Byte)
  /\ Take(up[c], n) = Header(req[c].r) \o p
  /\ p = Take(req[c].r.bytes, Len(p))
  /\ Len(p) + Len(up'[c]) <= Len(req[c].r.bytes)
  /\ buf[c] = <<>> /\ down[c] = <<>> /\ cli[c] \in {"header", "interrupted", "closed"}

(* What the main recv returns is the request or, if that had too much payload, some of it. *)
LEMMA ReceivedIs ==
  ASSUME IInv, NEW c \in Client, NEW n \in 0 .. Len(up[c]), Received(c, n)
  PROVE  /\ up' \in [Client -> Seq(UpSym)] /\ \A d \in Client \ {c} : up'[d] = up[d]
         /\ req[c] \in Asked /\ up'[c] \in Seq(Byte)
         /\ \/ \E p : NewRequest(c, n, p)
            \/ Take(up[c], n)[1] \notin Command /\ ~Exact(req[c])
<1> DEFINE u == up[c]
           q == req[c]
<1>1. /\ up \in [Client -> Seq(UpSym)] /\ srv[c] = "recv" /\ n \in 1 .. Len(u) /\ u \in Seq(UpSym)
      /\ u[1] \in Command => n >= Len(Header(q.r))
      /\ up' = [up EXCEPT ![c] = Drop(u, n)]
  BY DEF IInv, Types, Received
<1>2. Connection(u, srv[c], left[c], cli[c], q, buf[c], down[c], pl[c], result[c], cand[c])
  BY DEF IInv, Connected
<1>3. q \in Asked /\ q.r \in Request
  BY <1>1, <1>2 DEF Connection, Asked
<1>4. \/ Fresh(u, q) /\ buf[c] = <<>> /\ down[c] = <<>> /\ cli[c] \in {"header", "interrupted", "closed"}
      \/ Taken(u, srv[c], left[c], q)
  BY <1>2, <1>3 DEF Connection
<1> HIDE DEF u
<1>5. /\ Drop(u, n) \in Seq(UpSym) /\ Take(u, n)[1] = u[1] /\ Len(Drop(u, n)) = Len(u) - n
      /\ \A i \in 1 .. Len(u) - n : Drop(u, n)[i] = u[n + i]
  <2>1. n \in 0 .. Len(u) /\ 1 \in 1 .. n BY <1>1
  <2> QED BY <1>1, <2>1, TakeDrop
<1>6. /\ up' \in [Client -> Seq(UpSym)] /\ (\A d \in Client \ {c} : up'[d] = up[d])
      /\ up'[c] = Drop(u, n)
  BY <1>1, <1>5
<1>7. CASE /\ Fresh(u, q) /\ buf[c] = <<>> /\ down[c] = <<>>
           /\ cli[c] \in {"header", "interrupted", "closed"}
  <2> DEFINE h == Header(q.r)
             y == q.r.bytes
  <2>1. PICK m \in 0 .. Len(y) : u = h \o Take(y, m)
    BY <1>7 DEF Fresh
  <2>2. h \in Seq(UpSym) /\ Len(h) >= 2 /\ Len(h) \in Nat /\ h[1] = q.r.cmd /\ q.r.cmd \in Command
    BY <1>3, HeaderIs, RequestIs
  <2>3. y \in Seq(Byte) /\ y \in Seq(UpSym)
    <3>1. y \in Seq(Byte) /\ Byte \subseteq UpSym BY <1>3, RequestIs DEF UpSym
    <3> HIDE DEF y
    <3> QED BY <3>1
  <2> HIDE DEF h, y
  <2> DEFINE w == Take(y, m)
  <2>4. w \in Seq(Byte) /\ w \in Seq(UpSym) /\ Len(w) = m /\ Len(y) \in Nat
    BY <2>3, TakeDrop
  <2>5. u = h \o w
    BY <2>1
  <2> HIDE DEF w
  <2>6. Len(u) = Len(h) + m /\ u[1] = h[1]
    <3>1. 1 \in 1 .. Len(h) BY <2>2
    <3>2. Len(u) = Len(h) + Len(w) /\ \A i \in 1 .. Len(h) : u[i] = h[i]
      BY ONLY <2>2, <2>4, <2>5, ConcatIs, Zenon
    <3> QED BY <2>4, <3>1, <3>2
  <2>7. n \in Len(h) .. Len(h) + Len(w)
    BY <1>1, <2>2, <2>4, <2>6 DEF h
  <2> DEFINE j == n - Len(h)
  <2>8. j \in 0 .. m /\ j \in Nat /\ j <= m /\ n = Len(h) + j
    BY <2>2, <2>4, <2>7
  <2>9. Take(u, n) = h \o Take(w, j) /\ Drop(u, n) = Drop(w, j)
    BY <2>2, <2>4, <2>5, <2>7, CutBehind
  <2> HIDE DEF j
  <2>10. Take(w, j) = Take(y, j)
    BY <2>3, <2>8, TakeTake DEF w
  <2>11. /\ Take(w, j) \in Seq(Byte) /\ Len(Take(w, j)) = j
         /\ Drop(w, j) \in Seq(Byte) /\ Len(Drop(w, j)) = m - j
    BY <2>4, <2>8, TakeDrop
  <2>12. NewRequest(c, n, Take(w, j))
    <3>1. Len(Take(w, j)) + Len(Drop(u, n)) <= Len(y) BY <2>1, <2>4, <2>8, <2>9, <2>11
    <3> QED BY <1>6, <1>7, <2>9, <2>10, <2>11, <3>1 DEF NewRequest, u, h, y
  <2> QED BY <1>3, <1>6, <2>9, <2>11, <2>12
<1>8. CASE Taken(u, srv[c], left[c], q)
  <2>1. u \in Seq(Byte) /\ u # <<>> /\ ~Exact(q)
    BY <1>1, <1>8 DEF Taken
  <2>2. Drop(u, n) \in Seq(Byte) BY <1>1, <2>1, TakeDrop
  <2>3. u[1] \in Byte BY <1>1, <2>1
  <2>4. Take(u, n)[1] \notin Command BY <1>5, <2>3, OsrvAssumption
  <2> QED BY <1>3, <1>6, <2>1, <2>2, <2>4 DEF u
<1> QED BY <1>4, <1>7, <1>8

(* A request with a payload that it does not announce is a PUT. *)
LEMMA ExtraIsPut ==
  ASSUME NEW q \in Asked, ~Exact(q)
  PROVE  q.r.cmd \notin Lookup
<1>1. q.r \in Request
  BY DEF Asked
<1>2. q.r.cmd # "PUT" => q.r.bytes = <<>> /\ Len(q.r.bytes) = 0
  BY <1>1, OsrvAssumption
<1>3. atol(q.r.size) \in Nat
  BY <1>1, RequestIs
<1> QED BY <1>2, <1>3 DEF Exact, Lookup

(* Command and key of the request that was received. *)
LEMMA NewRequestIs ==
  ASSUME NEW c \in Client, NEW n, NEW p, NewRequest(c, n, p), req[c] \in Asked, up'[c] \in Seq(Byte)
  PROVE  /\ Take(up[c], n)[1] = req[c].r.cmd
         /\ Take(up[c], n)[2] = IF req[c].r.bare THEN "\n" ELSE req[c].r.key
         /\ req[c].r.cmd # "PUT" => up'[c] = <<>>
         /\ buf[c] \o down[c] = <<>>
<1> DEFINE r == req[c].r
           h == Header(r)
<1>1. r \in Request
  BY DEF Asked
<1>2. /\ h \in Seq(UpSym) /\ Len(h) \in Nat /\ Len(h) >= 2 /\ h[1] = r.cmd
      /\ h[2] = IF r.bare THEN "\n" ELSE r.key
  BY <1>1, HeaderIs
<1>3. p \in Seq(Byte) /\ p \in Seq(UpSym) /\ Take(up[c], n) = h \o p
  <2>1. p \in Seq(Byte) /\ Byte \subseteq UpSym /\ Take(up[c], n) = h \o p BY DEF NewRequest, UpSym
  <2> QED BY <2>1
<1>4. r.cmd # "PUT" => r.bytes = <<>> /\ Len(r.bytes) = 0
  BY <1>1, OsrvAssumption
<1>5. Len(p) \in Nat /\ Len(up'[c]) \in Nat /\ Len(p) + Len(up'[c]) <= Len(r.bytes)
  BY <1>3 DEF NewRequest
<1>6. r.cmd # "PUT" => up'[c] = <<>>
  <2>1. r.cmd # "PUT" => Len(up'[c]) = 0 BY <1>4, <1>5
  <2> QED BY <2>1
<1>7. buf[c] \o down[c] = <<>>
  <2>1. buf[c] = <<>> /\ down[c] = <<>> BY DEF NewRequest
  <2> QED BY <2>1
<1> HIDE DEF h, r
<1>8. (h \o p)[1] = h[1] /\ (h \o p)[2] = h[2]
  <2>1. 1 \in 1 .. Len(h) /\ 2 \in 1 .. Len(h) BY <1>2
  <2> QED BY <1>2, <1>3, <2>1, ConcatIs
<1> QED BY <1>2, <1>3, <1>6, <1>7, <1>8 DEF r

(* The elements of responses. *)
LEMMA Letters ==
  /\ "O" \in Sym /\ "K" \in Sym /\ "N" \in Sym /\ "F" \in Sym /\ "I" \in Sym /\ "V" \in Sym
  /\ "E" \in Sym /\ "R" \in Sym /\ "U" \in Sym /\ "S" \in Sym /\ "P" \in Sym /\ Blank \in Sym
  /\ "?" \in Sym /\ "0" \in Sym /\ "1" \in Sym /\ "\n" \in Sym
  BY DEF Sym, Letter

(* The words that end in a newline. *)
LEMMA Words ==
  /\ <<"O", "K">> \in Seq(Sym) /\ <<"N", "F">> \in Seq(Sym) /\ <<"I", "N", "V">> \in Seq(Sym)
  /\ <<"E", "R", "R">> \in Seq(Sym) /\ <<"U", "N", "S", "U", "P", "P">> \in Seq(Sym)
  /\ \A a \in {OK, NF, INV, ERR, UNSUPP} : a \in Seq(Sym) /\ a # <<>>
<1>1. <<"O", "K">> \in Seq(Sym) /\ <<"N", "F">> \in Seq(Sym) /\ <<"I", "N", "V">> \in Seq(Sym)
  BY Letters
<1>2. <<"E", "R", "R">> \in Seq(Sym) /\ <<"U", "N", "S", "U", "P", "P">> \in Seq(Sym)
  BY Letters
<1>3. ASSUME NEW w \in Seq(Sym) PROVE Line(w) \in Seq(Sym) /\ Line(w) # <<>>
  <2>1. Line(w) \in Seq(Sym) /\ Len(Line(w)) = Len(w) + 1 /\ Len(w) \in Nat BY LineIs, Letters
  <2> DEFINE l == Line(w)
  <2> HIDE DEF l
  <2>2. l # <<>> BY <2>1 DEF l
  <2> QED BY <2>1, <2>2 DEF l
<1> QED BY <1>1, <1>2, <1>3 DEF OK, NF, INV, ERR, UNSUPP

(* The response to GET. *)
LEMMA SentIs ==
  ASSUME NEW v \in Storable
  PROVE  /\ Sent(v) \in Seq(Sym) /\ Sent(v) # <<>>
         /\ v.kind = "raw" =>
              Sent(v) = Line(<<"O", "K", Blank>> \o Decimal[Len(v.bytes)]) \o v.bytes
         /\ v.kind = "sfs" => Sent(v) = Line(<<"O", "K", Blank, "?">>) \o v.bytes
<1>1. v.kind \in {"raw", "sfs"} /\ v.bytes \in Seq(Byte) /\ Len(v.bytes) \in Nat
  BY StorableIs
<1> DEFINE w == IF v.kind = "raw" THEN Decimal[Len(v.bytes)] ELSE <<"?">>
           t == <<"O", "K", Blank>>
           y == v.bytes
<1>2. t \in Seq(Sym) /\ w \in Seq(Sym) /\ y \in Seq(Sym) /\ "\n" \in Sym
  <2>2. t \in Seq(Sym) BY Letters
  <2>3. Decimal[Len(y)] \in Seq(Bits) /\ Bits \subseteq Sym BY <1>1, DecimalIs, Letters DEF Bits
  <2>4. Decimal[Len(y)] \in Seq(Sym) BY <2>3
  <2>5. <<"?">> \in Seq(Sym) BY Letters
  <2>6. Byte \subseteq Sym BY DEF Sym
  <2>7. y \in Seq(Sym) BY <1>1, <2>6
  <2> QED BY <2>2, <2>4, <2>5, <2>7, Letters
<1>3. Sent(v) = Line(t \o w) \o y
  BY DEF Sent, Label
<1>4. ASSUME v.kind = "sfs" PROVE t \o w = <<"O", "K", Blank, "?">>
  <2>1. w = <<"?">> BY <1>4
  <2> DEFINE g == t \o <<"?">>
             e == <<"O", "K", Blank, "?">>
  <2>2. /\ g \in Seq(Sym) /\ Len(g) = 4 /\ g[1] = "O" /\ g[2] = "K" /\ g[3] = Blank /\ g[4] = "?"
        /\ e \in Seq(Sym) /\ Len(e) = 4 /\ e[1] = "O" /\ e[2] = "K" /\ e[3] = Blank /\ e[4] = "?"
    BY Letters
  <2> HIDE DEF g, e
  <2>3. \A i \in 1 .. 4 : g[i] = e[i] BY <2>2
  <2>4. g = e BY <2>2, <2>3, SeqEqual
  <2> QED BY <2>1, <2>4 DEF g, e
<1> HIDE DEF w, t, y
<1> DEFINE x == t \o w
           l == Line(x)
<1>5. x \in Seq(Sym)
  BY <1>2
<1> HIDE DEF x
<1>6. l \in Seq(Sym) /\ Len(l) = Len(x) + 1 /\ Len(x) \in Nat
  BY <1>2, <1>5, LineIs
<1> HIDE DEF l
<1>7. l \o y \in Seq(Sym) /\ Len(l \o y) = Len(l) + Len(y) /\ Len(l) \in Nat /\ Len(y) \in Nat /\ Len(l) > 0
  <2>1. l \in Seq(Sym) /\ y \in Seq(Sym) BY <1>2, <1>6
  <2>2. l \o y \in Seq(Sym) /\ Len(l \o y) = Len(l) + Len(y) /\ Len(l) \in Nat /\ Len(y) \in Nat
    BY ONLY <2>1, ConcatIs
  <2> QED BY <1>6, <2>2
<1>8. Sent(v) \in Seq(Sym) /\ Sent(v) # <<>>
  <2>1. l \o y # <<>> BY <1>7
  <2> QED BY <1>3, <1>7, <2>1 DEF l, x
<1> QED BY <1>3, <1>4, <1>8 DEF w, t, y

(* A lookup finds a candidate. *)
LEMMA NewestIs ==
  ASSUME IInv, NEW c \in Client, cli[c] = "header", req[c].r.cmd # "PUT"
  PROVE  Newest(store, req[c].r.key) \in cand[c]
  BY DEF IInv, Current, Waiting

(* What a lookup finds may be stored. *)
LEMMA NewestStorable ==
  ASSUME IInv, NEW k \in Key
  PROVE  /\ Newest(store, k) # NULL => Newest(store, k) \in Storable
         /\ Newest(store, k) = NULL <=> store[k] = <<>>
<1>1. store[k] \in Seq(Storable)
  BY DEF IInv, Types
<1>2. store[k] # <<>> => Head(store[k]) \in Storable
  BY <1>1
<1> QED BY <1>2, StorableIs DEF Newest

(* GET and HAS keep the invariant. *)
LEMMA GetStep ==
  ASSUME IInv, NEW c \in Client, NEW n \in 0 .. Len(up[c]), process_get(c, n)
  PROVE  IInv'
<1> DEFINE f == Take(up[c], n)
           q == req[c]
           o == Newest(store, f[2])
<1>1. Received(c, n) /\ f[1] \in {"GET", "HAS"} /\ f[2] \in Key /\ UNCHANGED <<store, cand, left>>
  BY DEF process_get
<1>2. /\ up' \in [Client -> Seq(UpSym)] /\ (\A d \in Client \ {c} : up'[d] = up[d])
      /\ q \in Asked /\ up'[c] \in Seq(Byte) /\ UNCHANGED cliVars
      /\ \/ \E p : NewRequest(c, n, p)
         \/ f[1] \notin Command /\ ~Exact(q)
  BY <1>1, ReceivedIs DEF Received
<1>3. PICK p : NewRequest(c, n, p)
  BY <1>1, <1>2 DEF Command
<1>4. /\ f[1] = q.r.cmd /\ f[2] = (IF q.r.bare THEN "\n" ELSE q.r.key)
      /\ (q.r.cmd # "PUT" => up'[c] = <<>>) /\ buf[c] \o down[c] = <<>>
  BY <1>2, <1>3, NewRequestIs
<1>5. f[2] = q.r.key /\ q.r.cmd \in Lookup /\ q.r.cmd # "PUT" /\ up'[c] = <<>>
  BY <1>1, <1>4, OsrvAssumption DEF Lookup
<1>6. cli[c] \in {"header", "interrupted", "closed"}
  BY <1>3 DEF NewRequest
<1>7. cli[c] = "header" => o \in cand'[c]
  BY <1>1, <1>5, NewestIs
<1>8. o # NULL => o \in Storable
  BY <1>1, NewestStorable
<1>9. ASSUME NEW a \in Seq(Sym), a # <<>>, NEW then \in {"recv", "closed"}, send_buf(c, a, then),
             cli[c] = "header" => Answers(q, a, cand'[c])
      PROVE  IInv'
  BY <1>1, <1>2, <1>4, <1>5, <1>6, <1>9, AnswerStep
<1> HIDE DEF f, q, o
<1>10. CASE o = NULL /\ send_buf(c, NF, "recv")
  <2>1. cli[c] = "header" => Answers(q, NF, cand'[c]) BY <1>5, <1>7, <1>10 DEF Answers
  <2> QED BY <1>9, <1>10, <2>1, Words
<1>11. CASE o # NULL /\ f[1] = "HAS" /\ send_buf(c, OK, "recv")
  <2>1. cli[c] = "header" => Answers(q, OK, cand'[c]) BY <1>4, <1>7, <1>11 DEF Answers
  <2> QED BY <1>9, <1>11, <2>1, Words
<1>12. ASSUME o # NULL, f[1] = "GET", NEW then \in {"recv", "closed"}, send_buf(c, Sent(o), then)
       PROVE  IInv'
  <2>1. Sent(o) \in Seq(Sym) /\ Sent(o) # <<>> BY <1>8, <1>12, SentIs
  <2>2. cli[c] = "header" => Answers(q, Sent(o), cand'[c]) BY <1>4, <1>7, <1>12 DEF Answers
  <2> QED BY <1>9, <1>12, <2>1, <2>2
<1>13. CASE /\ o # NULL /\ f[1] = "GET" /\ o.kind = "raw"
            /\ send_buf(c, Line(<<"O", "K", Blank>> \o Decimal[Len(o.bytes)]) \o o.bytes, "recv")
  <2>1. send_buf(c, Sent(o), "recv") BY <1>8, <1>13, SentIs
  <2> QED BY <1>12, <1>13, <2>1
<1>14. CASE /\ o # NULL /\ f[1] = "GET" /\ o.kind = "sfs"
            /\ send_buf(c, Line(<<"O", "K", Blank, "?">>) \o o.bytes, "closed")
  <2>1. send_buf(c, Sent(o), "closed") BY <1>8, <1>14, SentIs
  <2> QED BY <1>12, <1>14, <2>1
<1> QED BY <1>10, <1>11, <1>13, <1>14 DEF process_get, f, o

(* So does DEL. *)
LEMMA DelStep ==
  ASSUME IInv, NEW c \in Client, NEW n \in 0 .. Len(up[c]), process_del(c, n)
  PROVE  IInv'
<1> DEFINE f == Take(up[c], n)
           q == req[c]
           k == f[2]
<1>1. Received(c, n) /\ f[1] = "DEL" /\ k \in Key /\ left' = left
  BY DEF process_del
<1>2. /\ up' \in [Client -> Seq(UpSym)] /\ (\A d \in Client \ {c} : up'[d] = up[d])
      /\ q \in Asked /\ up'[c] \in Seq(Byte) /\ UNCHANGED cliVars
      /\ \/ \E p : NewRequest(c, n, p)
         \/ f[1] \notin Command /\ ~Exact(q)
  BY <1>1, ReceivedIs DEF Received
<1>3. PICK p : NewRequest(c, n, p)
  BY <1>1, <1>2 DEF Command
<1>4. /\ f[1] = q.r.cmd /\ k = (IF q.r.bare THEN "\n" ELSE q.r.key)
      /\ (q.r.cmd # "PUT" => up'[c] = <<>>) /\ buf[c] \o down[c] = <<>>
  BY <1>2, <1>3, NewRequestIs
<1>5. k = q.r.key /\ q.r.cmd = "DEL" /\ q.r.cmd # "PUT" /\ up'[c] = <<>>
  BY <1>1, <1>4, OsrvAssumption
<1>6. cli[c] \in {"header", "interrupted", "closed"}
  BY <1>3 DEF NewRequest
<1>7. cli[c] = "header" => Newest(store, k) \in cand[c]
  BY <1>5, NewestIs
<1>8. Newest(store, k) = NULL <=> store[k] = <<>>
  BY <1>1, NewestStorable
<1> HIDE DEF f, q, k
<1>9. CASE store[k] = <<>> /\ send_buf(c, NF, "recv") /\ UNCHANGED <<store, cand>>
  <2>1. cli[c] = "header" => Answers(q, NF, cand'[c])
    BY <1>5, <1>7, <1>8, <1>9 DEF Answers, Lookup
  <2> QED BY <1>1, <1>2, <1>4, <1>5, <1>6, <1>9, <2>1, AnswerStep, Words DEF q
<1>10. CASE store[k] # <<>> /\ send_buf(c, OK, "recv") /\ StoreBecomes(Removed(k))
  <2>1. Removed(k) \in [Key -> Seq(Storable)] BY <1>1, <1>10, StoreChanges
  <2>2. cand[c] \subseteq cand'[c] BY <1>2, <1>10, <2>1, NewStore DEF cliVars
  <2>3. cli[c] = "header" => Answers(q, OK, cand'[c])
    BY <1>5, <1>7, <1>8, <1>10, <2>2 DEF Answers
  <2> QED BY <1>1, <1>2, <1>4, <1>5, <1>6, <1>10, <2>1, <2>3, AnswerStep, Words DEF q
<1> QED BY <1>9, <1>10 DEF process_del, f, k

(* do_process takes bytes and does not answer. *)
LEMMA QuietStep ==
  ASSUME IInv, NEW c \in Client, UNCHANGED <<store, down, cliVars, cand>>,
         up' \in [Client -> Seq(UpSym)], srv' \in [Client -> {"recv", "fetch", "closed"}],
         left' \in [Client -> Nat],
         \A d \in Client \ {c} : up'[d] = up[d] /\ srv'[d] = srv[d] /\ left'[d] = left[d],
         req[c] \in Asked, Taken(up'[c], srv'[c], left'[c], req[c]),
         Answerable /\ cli[c] = "header" /\ req[c].r.cmd \in Lookup => srv'[c] # "closed"
  PROVE  IInv'
<1>1. /\ cli' = cli /\ req' = req /\ buf' = buf /\ pl' = pl /\ eagain' = eagain /\ result' = result
      /\ down' = down /\ down \in [Client -> Seq(Sym)] /\ store' = store /\ cand' = cand
  BY DEF IInv, Types, cliVars
<1>2. Others(c)
  BY <1>1 DEF Others
<1>3. Connection(up[c], srv[c], left[c], cli[c], req[c], buf[c], down[c], pl[c], result[c], cand[c])
  BY DEF IInv, Connected
<1>4. Answerable => Delivers(srv'[c], cli[c], req[c], buf[c], down[c], pl[c], result[c], cand[c])
  BY <1>3 DEF Connection, Delivers
<1>5. Connection(up'[c], srv'[c], left'[c], cli[c], req[c], buf[c], down[c], pl[c], result[c], cand[c])
  BY <1>3, <1>4 DEF Connection
<1>6. Connected(c)'
  BY <1>1, <1>5 DEF Connected
<1> QED BY <1>1, <1>2, <1>6, ServerStep

(* So does a command without argument. *)
LEMMA BareStep ==
  ASSUME IInv, NEW c \in Client, NEW n \in 0 .. Len(up[c]), process_bare(c, n)
  PROVE  IInv'
<1> DEFINE f == Take(up[c], n)
           q == req[c]
<1>1. /\ Received(c, n) /\ OneWord(f)
      /\ srv' = [srv EXCEPT ![c] = "closed"] /\ UNCHANGED <<store, cand, left, down>>
  BY DEF process_bare
<1>2. /\ up' \in [Client -> Seq(UpSym)] /\ (\A d \in Client \ {c} : up'[d] = up[d])
      /\ q \in Asked /\ up'[c] \in Seq(Byte) /\ UNCHANGED cliVars
      /\ \/ \E p : NewRequest(c, n, p)
         \/ f[1] \notin Command /\ ~Exact(q)
  BY <1>1, ReceivedIs DEF Received
<1>3. q.r \in Request /\ q.r.cmd \in Command /\ q.r.key \in Key
  BY <1>2, RequestIs DEF Asked
<1>4. ASSUME NEW p, NewRequest(c, n, p) PROVE q.r.bare
  <2>1. f[1] = q.r.cmd /\ f[2] = (IF q.r.bare THEN "\n" ELSE q.r.key) BY <1>2, <1>4, NewRequestIs
  <2>2. 2 \in DOMAIN f
    <3>1. f = Header(q.r) \o p /\ p \in Seq(Byte) BY <1>4 DEF NewRequest
    <3>2. Header(q.r) \in Seq(UpSym) /\ Len(Header(q.r)) >= 2 BY <1>3, HeaderIs
    <3>3. p \in Seq(UpSym) BY <3>1 DEF UpSym
    <3> HIDE DEF f
    <3>4. f \in Seq(UpSym) /\ Len(f) >= 2 BY ONLY <3>1, <3>2, <3>3, ConcatIs
    <3> QED BY <3>4
  <2>3. q.r.cmd # "\n" /\ q.r.key # "\n" /\ q.r.key \notin Command \cup Upper
    BY <1>3, OsrvAssumption
  <2> HIDE DEF f
  <2>4. ASSUME ~q.r.bare PROVE FALSE
    <3>1. \A i \in 1 .. 2 : f[i] # "\n" BY <2>1, <2>3, <2>4
    <3>2. f[2] \in Command \cup Upper BY <1>1, <2>2, <3>1 DEF OneWord
    <3> QED BY <2>1, <2>3, <2>4, <3>2
  <2> QED BY <2>4
<1>5. ASSUME f[1] \notin Command, ~Exact(q) PROVE q.r.cmd \notin Lookup
  BY <1>2, <1>5, ExtraIsPut
<1>6. Answerable /\ q.r.bare => q.r.cmd \notin Lookup
  BY <1>3 DEF Answerable, Lookup
<1> HIDE DEF f
<1>7. Answerable => q.r.cmd \notin Lookup
  BY <1>2, <1>4, <1>5, <1>6
<1>8. srv \in [Client -> {"recv", "fetch", "closed"}] /\ left \in [Client -> Nat]
  BY DEF IInv, Types
<1>9. Taken(up'[c], srv'[c], left'[c], q)
  BY <1>1, <1>2, <1>8 DEF Taken
<1>10. /\ srv' \in [Client -> {"recv", "fetch", "closed"}] /\ left' \in [Client -> Nat]
       /\ \A d \in Client \ {c} : srv'[d] = srv[d] /\ left'[d] = left[d]
  BY <1>1, <1>8
<1> QED BY <1>1, <1>2, <1>7, <1>9, <1>10, QuietStep

(* So does an unsupported command. *)
LEMMA OtherStep ==
  ASSUME IInv, NEW c \in Client, NEW n \in 0 .. Len(up[c]), process_other(c, n)
  PROVE  IInv'
<1> DEFINE f == Take(up[c], n)
           q == req[c]
<1>1. /\ Received(c, n) /\ (f[1] \notin Command \/ f[1] = "FOO")
      /\ send_buf(c, UNSUPP, "recv") /\ UNCHANGED <<store, cand, left>>
  BY DEF process_other
<1>2. /\ up' \in [Client -> Seq(UpSym)] /\ (\A d \in Client \ {c} : up'[d] = up[d])
      /\ q \in Asked /\ up'[c] \in Seq(Byte) /\ UNCHANGED cliVars
      /\ \/ \E p : NewRequest(c, n, p)
         \/ f[1] \notin Command /\ ~Exact(q)
  BY <1>1, ReceivedIs DEF Received
<1> HIDE DEF f
<1>3. CASE f[1] \notin Command /\ ~Exact(q)
  <2>1. q.r.cmd \notin Lookup BY <1>2, <1>3, ExtraIsPut
  <2> QED BY <1>1, <1>2, <1>3, <2>1, AnswerStep, Words
<1>4. ASSUME NEW p, NewRequest(c, n, p) PROVE IInv'
  <2>1. /\ f[1] = q.r.cmd /\ (q.r.cmd # "PUT" => up'[c] = <<>>) /\ buf[c] \o down[c] = <<>>
    BY <1>2, <1>4, NewRequestIs DEF f
  <2>2. q.r.cmd \in Command BY <1>2, RequestIs DEF Asked
  <2>3. q.r.cmd = "FOO" /\ up'[c] = <<>> BY <1>1, <2>1, <2>2
  <2>4. Answers(q, UNSUPP, cand'[c]) BY <2>3 DEF Answers, Lookup
  <2>5. cli[c] \in {"header", "interrupted", "closed"} BY <1>4 DEF NewRequest
  <2> QED BY <1>1, <1>2, <2>1, <2>3, <2>4, <2>5, AnswerStep, Words
<1> QED BY <1>2, <1>3, <1>4

(* So does the end of the stream. *)
LEMMA EofStep ==
  ASSUME IInv, NEW c \in Client, process_eof(c)
  PROVE  IInv'
<1>1. /\ srv[c] = "recv" /\ up[c] = <<>> /\ cli[c] = "closed"
      /\ srv' = [srv EXCEPT ![c] = "closed"] /\ UNCHANGED <<store, up, down, left, cliVars, cand>>
  BY DEF process_eof
<1>2. /\ srv \in [Client -> {"recv", "fetch", "closed"}] /\ left \in [Client -> Nat]
      /\ up \in [Client -> Seq(UpSym)]
  BY DEF IInv, Types
<1>3. req[c] \in Asked
  BY <1>1 DEF IInv, Connected, Connection
<1>4. Taken(up'[c], srv'[c], left'[c], req[c])
  BY <1>1, <1>2 DEF Taken
<1>5. srv' \in [Client -> {"recv", "fetch", "closed"}] /\ \A d \in Client \ {c} : srv'[d] = srv[d]
  BY <1>1, <1>2
<1> QED BY <1>1, <1>2, <1>3, <1>4, <1>5, QuietStep

(* So does the loop that fetches the rest of a payload. *)
LEMMA FetchStep ==
  ASSUME IInv, NEW c \in Client, NEW n \in 0 .. Len(up[c]), process_fetch(c, n)
  PROVE  IInv'
<1> DEFINE u == up[c]
           l == left[c]
           q == req[c]
<1>1. /\ srv \in [Client -> {"recv", "fetch", "closed"}] /\ left \in [Client -> Nat]
      /\ up \in [Client -> Seq(UpSym)] /\ u \in Seq(UpSym) /\ l \in Nat
  BY DEF IInv, Types
<1>2. srv[c] = "fetch" /\ UNCHANGED <<store, down, cliVars, cand>>
  BY DEF process_fetch
<1>3. q \in Asked /\ Taken(u, "fetch", l, q)
  BY <1>2 DEF IInv, Connected, Connection
<1>4. CASE /\ n \in 1 .. Len(u) /\ n <= l
           /\ up' = [up EXCEPT ![c] = Drop(u, n)]
           /\ left' = [left EXCEPT ![c] = l - n]
           /\ srv' = [srv EXCEPT ![c] = IF l = n THEN "recv" ELSE "fetch"]
  <2>1. u \in Seq(Byte) /\ (Exact(q) => Len(u) <= l) BY <1>3 DEF Taken
  <2> DEFINE w == Drop(u, n)
             st == IF l = n THEN "recv" ELSE "fetch"
  <2>2. w \in Seq(Byte) /\ w \in Seq(UpSym) /\ Len(w) = Len(u) - n BY <1>1, <1>4, <2>1, TakeDrop
  <2>3. l - n \in Nat BY <1>1, <1>4
  <2>4. st \in {"recv", "fetch", "closed"} /\ st # "closed" OBVIOUS
  <2>5. Taken(w, st, l - n, q)
    <3>1. Exact(q) => Len(w) <= l - n BY <1>1, <1>4, <2>1, <2>2
    <3>2. Exact(q) /\ st = "recv" => Len(w) = 0 BY <1>1, <1>4, <2>2, <3>1
    <3>3. Exact(q) /\ st = "recv" => w = <<>> BY <2>2, <3>2
    <3> QED BY <2>2, <3>1, <3>3 DEF Taken
  <2> HIDE DEF w, st
  <2>6. up'[c] = w /\ srv'[c] = st /\ left'[c] = l - n BY <1>1, <1>4 DEF w, st
  <2>7. /\ up' \in [Client -> Seq(UpSym)] /\ srv' \in [Client -> {"recv", "fetch", "closed"}]
        /\ left' \in [Client -> Nat]
        /\ \A d \in Client \ {c} : up'[d] = up[d] /\ srv'[d] = srv[d] /\ left'[d] = left[d]
    BY <1>1, <1>4, <2>2, <2>3, <2>4 DEF w, st
  <2>8. Taken(up'[c], srv'[c], left'[c], q) /\ srv'[c] # "closed" BY <2>4, <2>5, <2>6
  <2> QED BY <1>2, <1>3, <2>7, <2>8, QuietStep
<1>5. CASE /\ u = <<>> /\ left' = [left EXCEPT ![c] = 0] /\ srv' = [srv EXCEPT ![c] = "recv"]
           /\ UNCHANGED up
  <2>1. Taken(up'[c], srv'[c], left'[c], q) /\ srv'[c] # "closed" BY <1>1, <1>5 DEF Taken
  <2>2. /\ up' \in [Client -> Seq(UpSym)] /\ srv' \in [Client -> {"recv", "fetch", "closed"}]
        /\ left' \in [Client -> Nat]
        /\ \A d \in Client \ {c} : up'[d] = up[d] /\ srv'[d] = srv[d] /\ left'[d] = left[d]
    BY <1>1, <1>5
  <2> QED BY <1>2, <1>3, <2>1, <2>2, QuietStep
<1> QED BY <1>4, <1>5 DEF process_fetch

(* So does PUT. *)
LEMMA PutStep ==
  ASSUME IInv, NEW c \in Client, NEW n \in 0 .. Len(up[c]), process_put(c, n)
  PROVE  IInv'
<1> DEFINE f == Take(up[c], n)
           q == req[c]
           r == q.r
           z == r.size
           k == f[2]
           len == put_size(z)
<1>1. Received(c, n) /\ f[1] = "PUT" /\ k \in Key
  BY DEF process_put
<1>2. /\ up' \in [Client -> Seq(UpSym)] /\ (\A d \in Client \ {c} : up'[d] = up[d])
      /\ q \in Asked /\ up'[c] \in Seq(Byte) /\ UNCHANGED cliVars
      /\ \/ \E p : NewRequest(c, n, p)
         \/ f[1] \notin Command /\ ~Exact(q)
  BY <1>1, ReceivedIs DEF Received
<1>3. PICK p : NewRequest(c, n, p)
  BY <1>1, <1>2 DEF Command
<1>4. f[1] = r.cmd /\ k = (IF r.bare THEN "\n" ELSE r.key) /\ buf[c] \o down[c] = <<>>
  BY <1>2, <1>3, NewRequestIs
<1>5. r \in Request /\ r.cmd = "PUT" /\ ~r.bare /\ k = r.key
  BY <1>1, <1>2, <1>4, OsrvAssumption DEF Asked
<1>6. /\ p \in Seq(Byte) /\ f = Header(r) \o p /\ p = Take(r.bytes, Len(p))
      /\ Len(p) + Len(up'[c]) <= Len(r.bytes) /\ cli[c] \in {"header", "interrupted", "closed"}
  BY <1>3 DEF NewRequest
<1>7. put_parts(Drop(f, 3)) = [size |-> z, bytes |-> p]
  <2> HIDE DEF f, r, z
  <2>1. r.size = <<>> => p = <<>>
    <3>1. r.size = <<>> => r.bytes = <<>> BY <1>5, OsrvAssumption
    <3>2. r.bytes = <<>> => Len(r.bytes) = 0 OBVIOUS
    <3>3. Len(p) \in Nat /\ Len(up'[c]) \in Nat BY <1>2, <1>6
    <3>4. r.bytes = <<>> => Len(p) = 0 BY <1>6, <3>2, <3>3
    <3> QED BY <1>6, <3>1, <3>4
  <2>2. put_parts(Drop(Header(r) \o p, 3)) = [size |-> r.size, bytes |-> p]
    BY <1>5, <1>6, <2>1, PutParsed
  <2> QED BY <1>6, <2>2 DEF z
<1>8. /\ z \in Seq(Byte) /\ atol(z) \in Nat /\ r.bytes \in Seq(Byte) /\ Len(r.bytes) \in Nat
      /\ Len(p) \in Nat /\ Len(up'[c]) \in Nat
  <2> HIDE DEF r
  <2>1. /\ z \in Seq(Byte) /\ atol(z) \in Nat /\ r.bytes \in Seq(Byte) BY ONLY <1>5, RequestIs
  <2> QED BY <1>2, <1>6, <2>1
<1>9. Exact(q) <=> Len(r.bytes) <= atol(z)
  BY DEF Exact
<1>10. r.cmd \notin Lookup
  BY <1>5 DEF Lookup
<1>11. \/ process_inv(c) /\ UNCHANGED <<store, cand, left>>
       \/ /\ len = 0
          /\ send_buf(c, UNSUPP, "recv") /\ UNCHANGED <<store, cand, left>>
       \/ send_buf(c, ERR, "closed") /\ UNCHANGED <<store, cand, left>>
       \/ /\ len > 0 /\ Arrived(p, len)
          /\ StoreBecomes(Added(k, [kind |-> "raw", bytes |-> Stored(p, len)]))
          /\ send_buf(c, OK, IF Len(p) > len THEN "closed" ELSE "recv") /\ UNCHANGED left
       \/ /\ len > 0 /\ ~Arrived(p, len) /\ srv' = [srv EXCEPT ![c] = "fetch"]
          /\ left' = [left EXCEPT ![c] = len - Len(p)] /\ UNCHANGED <<store, cand, down>>
  <2> DEFINE put == [size |-> z, bytes |-> p]
  <2>1. put.size = z /\ put.bytes = p OBVIOUS
  <2>2. put_parts(Drop(f, 3)) = put BY <1>7
  <2> HIDE DEF put, len, z
  <2> QED BY <2>1, <2>2 DEF process_put, len
<1> HIDE DEF f
<1>12. len > 0 => len = atol(z)
  BY <1>8 DEF put_size
<1>13. ASSUME len = 0 PROVE atol(z) = 0
  <2>1. CASE z # <<"?">> BY <1>8, <1>13, <2>1 DEF put_size
  <2>2. CASE z = <<"?">>
    <3>1. ~IsDigit("?")
      <4>1. Range(Digit) = {"0", "1"} BY DEF Digit, Range
      <4> QED BY <4>1 DEF IsDigit
    <3>2. Len(z) > 0 /\ z[1] = "?" BY <2>2
    <3> QED BY <1>8, <3>1, <3>2, AtolIs
  <2> QED BY <1>13, <2>1, <2>2
<1> HIDE DEF len
<1>14. ASSUME NEW a \in {INV, ERR, UNSUPP}, NEW then \in {"recv", "closed"}, send_buf(c, a, then),
              UNCHANGED <<store, cand, left>>, Exact(q) /\ then = "recv" => up'[c] = <<>>
       PROVE  IInv'
  <2>1. Answers(q, a, cand'[c]) BY <1>10, <1>14 DEF Answers
  <2>2. a \in Seq(Sym) /\ a # <<>> BY <1>14, Words
  <2> QED BY <1>2, <1>4, <1>6, <1>14, <2>1, <2>2, AnswerStep
<1>15. CASE process_inv(c) /\ UNCHANGED <<store, cand, left>>
  BY <1>14, <1>15 DEF process_inv
<1>16. CASE /\ len = 0
            /\ send_buf(c, UNSUPP, "recv") /\ UNCHANGED <<store, cand, left>>
  <2>1. Exact(q) => Len(up'[c]) = 0 BY <1>6, <1>8, <1>9, <1>13, <1>16
  <2>2. Exact(q) => up'[c] = <<>> BY <1>2, <2>1
  <2> QED BY <1>14, <1>16, <2>2
<1>17. CASE send_buf(c, ERR, "closed") /\ UNCHANGED <<store, cand, left>>
  BY <1>14, <1>17
<1>18. CASE /\ len > 0 /\ Arrived(p, len)
            /\ StoreBecomes(Added(k, [kind |-> "raw", bytes |-> Stored(p, len)]))
            /\ send_buf(c, OK, IF Len(p) > len THEN "closed" ELSE "recv") /\ UNCHANGED left
  <2>1. len = atol(z) /\ len \in Nat /\ len <= Len(p) BY <1>8, <1>12, <1>18 DEF Arrived
  <2>2. Len(p) \in 0 .. Len(r.bytes) BY <1>6, <1>8
  <2>3. Stored(p, len) = Take(r.bytes, atol(z))
    <3>1. Take(Take(r.bytes, Len(p)), len) = Take(r.bytes, len)
      BY <1>8, <2>1, <2>2, TakeTake
    <3> QED BY <1>6, <2>1, <3>1 DEF Stored
  <2> DEFINE v == [kind |-> "raw", bytes |-> Stored(p, len)]
             s == Added(k, v)
  <2>4. v = PutObject(r) /\ v \in Storable
    <3>1. v = PutObject(r) BY <2>3 DEF PutObject
    <3>2. atol(r.size) > 0 BY <1>18, <2>1
    <3> QED BY <1>5, <3>1, <3>2 DEF Storable
  <2> HIDE DEF v
  <2>5. s \in [Key -> Seq(Storable)] /\ Newest(s, k) = v BY <1>1, <2>4, StoreChanges
  <2>6. StoreBecomes(s) BY <1>18 DEF v
  <2> HIDE DEF s
  <2>7. Waiting(c) => Newest(s, r.key) \in cand'[c]
    BY <1>2, <2>5, <2>6, NewStore DEF cliVars
  <2>8. cli[c] = "header" => Answers(q, OK, cand'[c])
    BY <1>5, <2>4, <2>5, <2>7 DEF Answers, Waiting
  <2> DEFINE then == IF Len(p) > len THEN "closed" ELSE "recv"
  <2>9. then \in {"recv", "closed"} OBVIOUS
  <2>10. Exact(q) /\ then = "recv" => up'[c] = <<>>
    <3>1. Exact(q) /\ then = "recv" => Len(up'[c]) = 0 BY <1>6, <1>8, <1>9, <2>1
    <3> QED BY <1>2, <3>1
  <2>11. send_buf(c, OK, then) /\ left' = left BY <1>18
  <2> HIDE DEF then
  <2> QED BY <1>2, <1>4, <1>6, <2>5, <2>6, <2>8, <2>9, <2>10, <2>11, AnswerStep, Words
<1>19. CASE /\ len > 0 /\ ~Arrived(p, len) /\ srv' = [srv EXCEPT ![c] = "fetch"]
            /\ left' = [left EXCEPT ![c] = len - Len(p)] /\ UNCHANGED <<store, cand, down>>
  <2>1. srv \in [Client -> {"recv", "fetch", "closed"}] /\ left \in [Client -> Nat]
    BY DEF IInv, Types
  <2>2. len = atol(z) /\ len \in Nat /\ len - Len(p) \in Nat BY <1>8, <1>12, <1>19 DEF Arrived
  <2>3. Exact(q) => Len(up'[c]) <= len - Len(p) BY ONLY <1>6, <1>8, <1>9, <2>2, SMTT(30)
  <2>4. Taken(up'[c], srv'[c], left'[c], q) /\ srv'[c] # "closed"
    BY <1>2, <1>19, <2>1, <2>3 DEF Taken
  <2>5. /\ srv' \in [Client -> {"recv", "fetch", "closed"}] /\ left' \in [Client -> Nat]
        /\ \A d \in Client \ {c} : srv'[d] = srv[d] /\ left'[d] = left[d]
    BY <1>19, <2>1, <2>2
  <2> QED BY <1>2, <1>19, <2>4, <2>5, QuietStep
<1> QED BY <1>11, <1>15, <1>16, <1>17, <1>18, <1>19

(* So does every step of do_process. *)
LEMMA ServerSteps ==
  ASSUME IInv, NEW c \in Client, do_process(c)
  PROVE  IInv'
  BY GetStep, DelStep, PutStep, BareStep, OtherStep, FetchStep, EofStep DEF do_process

-----------------------------------------------------------------------------
(* Steps of the client.                                                    *)

(* g and e are b and d after n elements have been received. *)
Receives(S, b, d, n, g, e) ==
  /\ e \in Seq(S) /\ g \in Seq(S) /\ Len(g) = Len(b) + n /\ Len(b) \in Nat
  /\ \A i \in 1 .. Len(b) : g[i] = b[i]
  /\ g \o e = b \o d

(* What is received and what is still on its way make up the same stream. *)
LEMMA CutAndJoin ==
  ASSUME NEW S, NEW b \in Seq(S), NEW d \in Seq(S), NEW n \in 0 .. Len(d),
         NEW g, g = b \o Take(d, n), NEW e, e = Drop(d, n)
  PROVE  Receives(S, b, d, n, g, e)
<1> DEFINE t == Take(d, n)
           w == Drop(d, n)
<1>1. /\ t \in Seq(S) /\ Len(t) = n /\ (\A i \in 1 .. n : t[i] = d[i])
      /\ w \in Seq(S) /\ Len(w) = Len(d) - n /\ \A i \in 1 .. Len(d) - n : w[i] = d[n + i]
  BY TakeDrop
<1> HIDE DEF t, w
<1>2. t \o w = d
  <2> DEFINE x == t \o w
  <2>1. /\ x \in Seq(S) /\ Len(x) = Len(d) /\ (\A i \in 1 .. Len(t) : x[i] = t[i])
        /\ \A i \in 1 .. Len(w) : x[Len(t) + i] = w[i]
    <3>1. /\ x \in Seq(S) /\ Len(x) = Len(t) + Len(w) /\ (\A i \in 1 .. Len(t) : x[i] = t[i])
          /\ \A i \in 1 .. Len(w) : x[Len(t) + i] = w[i]
      <4>1. t \in Seq(S) /\ w \in Seq(S) BY <1>1
      <4> QED BY ONLY <4>1, ConcatIs
    <3>2. Len(t) + Len(w) = Len(d) BY <1>1
    <3> QED BY <3>1, <3>2
  <2> HIDE DEF x
  <2>2. ASSUME NEW i \in 1 .. Len(d) PROVE x[i] = d[i]
    <3>1. CASE i <= n BY <1>1, <2>1, <3>1
    <3>2. CASE i > n
      <4> DEFINE j == i - n
      <4>1. j \in 1 .. Len(d) - n /\ n + j = i BY <3>2
      <4> HIDE DEF j
      <4>2. w[j] = d[i] /\ j \in 1 .. Len(w) /\ Len(t) + j = i BY <1>1, <4>1
      <4> QED BY <2>1, <4>2
    <3> QED BY <3>1, <3>2
  <2> QED BY <2>1, <2>2, SeqEqual DEF x
<1>3. b \in Seq(S) /\ t \in Seq(S) /\ w \in Seq(S)
  BY <1>1
<1>4. (b \o t) \o w = b \o (t \o w)
  BY ONLY <1>3
<1>5. /\ b \o t \in Seq(S) /\ Len(b \o t) = Len(b) + Len(t) /\ Len(b) \in Nat
      /\ \A i \in 1 .. Len(b) : (b \o t)[i] = b[i]
  BY ONLY <1>3, ConcatIs
<1>6. g = b \o t /\ e = w
  BY DEF t, w
<1>7. g \o e = b \o d
  BY <1>2, <1>4, <1>6
<1> QED BY <1>1, <1>5, <1>6, <1>7 DEF Receives

NoNewline(s) == \A i \in 1 .. Len(s) : s[i] # "\n"

(* C_ask has received b of a stream of a line w and what follows it. *)
LEMMA FirstLine ==
  ASSUME NEW S, NEW b \in Seq(S), NEW d \in Seq(S), NEW w \in Seq(S), NEW t \in Seq(S), "\n" \in S,
         NoNewline(w), b \o d = Line(w) \o t
  PROVE  /\ Newline(b) = 0 => Len(b) <= Len(w)
         /\ Newline(b) > 0 => /\ Newline(b) = Len(w) + 1
                              /\ Take(b, Newline(b) - 1) = w
                              /\ Drop(b, Newline(b)) \o d = t
<1> DEFINE l == Line(w)
           g == b \o d
           n == Len(w)
           nl == Newline(b)
<1>1. /\ l \in Seq(S) /\ Len(l) = n + 1 /\ l[n + 1] = "\n" /\ n \in Nat
      /\ \A i \in 1 .. n : l[i] = w[i]
  BY LineIs
<1>2. /\ g \in Seq(S) /\ Len(g) = Len(b) + Len(d) /\ (\A i \in 1 .. Len(b) : g[i] = b[i])
      /\ (\A i \in 1 .. Len(d) : g[Len(b) + i] = d[i]) /\ Len(b) \in Nat /\ Len(d) \in Nat
  <2>1. b \in Seq(S) /\ d \in Seq(S) OBVIOUS
  <2> QED BY ONLY <2>1, ConcatIs
<1>3. g = l \o t
  OBVIOUS
<1> HIDE DEF l, g
<1>4. /\ Len(g) = n + 1 + Len(t) /\ (\A i \in 1 .. n + 1 : g[i] = l[i])
      /\ (\A i \in 1 .. Len(t) : g[n + 1 + i] = t[i]) /\ Len(t) \in Nat
  <2>1. l \in Seq(S) /\ t \in Seq(S) BY <1>1
  <2>2. /\ Len(l \o t) = Len(l) + Len(t) /\ Len(t) \in Nat
        /\ (\A i \in 1 .. Len(l) : (l \o t)[i] = l[i])
        /\ \A i \in 1 .. Len(t) : (l \o t)[Len(l) + i] = t[i]
    BY ONLY <2>1, ConcatIs
  <2> QED BY ONLY <1>1, <1>3, <2>2
<1>5. /\ nl \in 0 .. Len(b) /\ (nl = 0 => \A i \in 1 .. Len(b) : b[i] # "\n")
      /\ nl > 0 => b[nl] = "\n" /\ \A i \in 1 .. nl - 1 : b[i] # "\n"
  BY NewlineIs
<1>6. g[n + 1] = "\n" /\ \A i \in 1 .. n : g[i] # "\n"
  <2>1. \A i \in 1 .. n : w[i] # "\n" BY DEF NoNewline
  <2>2. n + 1 \in 1 .. n + 1 /\ \A i \in 1 .. n : i \in 1 .. n + 1 BY <1>1
  <2> QED BY ONLY <1>1, <1>4, <2>1, <2>2
<1> HIDE DEF n, nl
<1>7. n \in Nat
  BY <1>1
<1>8. ASSUME nl = 0 PROVE Len(b) <= n
  <2>1. ASSUME Len(b) > n PROVE FALSE
    <3>1. n + 1 \in 1 .. Len(b) BY <1>2, <1>7, <2>1
    <3> QED BY <1>2, <1>5, <1>6, <1>8, <3>1
  <2> QED BY <1>2, <1>7, <2>1
<1>9. ASSUME nl > 0 PROVE nl = n + 1 /\ Take(b, nl - 1) = w /\ Drop(b, nl) \o d = t
  <2>1. nl \in 1 .. Len(b) /\ g[nl] = "\n" BY <1>2, <1>5, <1>9
  <2>2. nl \notin 1 .. n BY <1>6, <2>1
  <2>3. ~ (n + 1 < nl)
    <3>1. ASSUME n + 1 < nl PROVE FALSE
      <4>1. n + 1 \in 1 .. nl - 1 /\ n + 1 \in 1 .. Len(b) BY <1>2, <1>7, <2>1, <3>1
      <4> QED BY <1>2, <1>5, <1>6, <1>9, <4>1
    <3> QED BY <3>1
  <2>4. nl = n + 1 /\ nl - 1 = n BY <1>2, <1>7, <2>1, <2>2, <2>3
  <2>5. n \in 0 .. Len(b) /\ n + 1 \in 0 .. Len(b) BY <1>2, <1>7, <2>1, <2>4
  <2>6. /\ Take(b, n) \in Seq(S) /\ Len(Take(b, n)) = n /\ \A i \in 1 .. n : Take(b, n)[i] = b[i]
    BY <2>5, TakeDrop
  <2>7. Take(b, n) = w
    <3>1. \A i \in 1 .. n : Take(b, n)[i] = w[i]
      <4>1. \A i \in 1 .. n : i \in 1 .. n + 1 /\ i \in 1 .. Len(b) BY <1>2, <1>7, <2>5
      <4> QED BY <1>1, <1>2, <1>4, <2>6, <4>1
    <3>2. Len(w) = n BY DEF n
    <3> QED BY <2>6, <3>1, <3>2, SeqEqual
  <2> DEFINE e == Drop(b, n + 1)
             x == e \o d
  <2>8. e \in Seq(S) /\ Len(e) = Len(b) - (n + 1) /\ \A i \in 1 .. Len(b) - (n + 1) : e[i] = b[n + 1 + i]
    BY <2>5, TakeDrop
  <2> HIDE DEF e
  <2>9. /\ x \in Seq(S) /\ Len(x) = Len(e) + Len(d) /\ (\A i \in 1 .. Len(e) : x[i] = e[i])
        /\ \A i \in 1 .. Len(d) : x[Len(e) + i] = d[i]
    <3>1. e \in Seq(S) /\ d \in Seq(S) BY <2>8
    <3> QED BY ONLY <3>1, ConcatIs
  <2> HIDE DEF x
  <2>10. Len(x) = Len(t) BY <1>2, <1>4, <1>7, <2>8, <2>9
  <2>11. ASSUME NEW i \in 1 .. Len(t) PROVE x[i] = t[i]
    <3>1. g[n + 1 + i] = t[i] BY <1>4
    <3>2. CASE i <= Len(e)
      <4>1. i \in 1 .. Len(e) /\ i \in 1 .. Len(b) - (n + 1) /\ n + 1 + i \in 1 .. Len(b)
        BY <1>2, <1>7, <2>5, <2>8, <3>2
      <4> QED BY <1>2, <2>8, <2>9, <3>1, <4>1
    <3>3. CASE i > Len(e)
      <4>1. /\ i - Len(e) \in 1 .. Len(d) /\ Len(e) + (i - Len(e)) = i
            /\ Len(b) + (i - Len(e)) = n + 1 + i
        BY <1>2, <1>4, <1>7, <2>5, <2>8, <2>9, <2>10, <3>3, SMTT(30)
      <4>2. x[Len(e) + (i - Len(e))] = d[i - Len(e)] BY ONLY <2>9, <4>1
      <4>3. g[Len(b) + (i - Len(e))] = d[i - Len(e)] BY ONLY <1>2, <4>1
      <4> QED BY ONLY <3>1, <4>1, <4>2, <4>3
    <3> QED BY <1>2, <1>7, <2>5, <2>8, <3>2, <3>3
  <2>12. x = t BY <2>9, <2>10, <2>11, SeqEqual
  <2> QED BY <2>4, <2>7, <2>12 DEF x, e
<1> QED BY <1>8, <1>9 DEF n, nl

(* The status line of an object. *)
LEMMA LabelIs ==
  ASSUME NEW v \in Storable
  PROVE  /\ Label(v) \in Seq(Sym) /\ NoNewline(Label(v)) /\ Len(Label(v)) >= 4
         /\ Len(Label(v)) <= 3 + Len(Decimal[Len(v.bytes)])
         /\ Label(v)[1] = "O" /\ Take(Label(v), 3) = <<"O", "K", Blank>>
         /\ atol(Drop(Label(v), 3)) = IF v.kind = "raw" THEN Len(v.bytes) ELSE 0
<1> DEFINE w == IF v.kind = "raw" THEN Decimal[Len(v.bytes)] ELSE <<"?">>
           t == <<"O", "K", Blank>>
           D == Decimal[Len(v.bytes)]
<1>1. v.kind \in {"raw", "sfs"} /\ v.bytes \in Seq(Byte) /\ Len(v.bytes) \in Nat
  BY StorableIs
<1>2. D \in Seq(Bits) /\ Len(D) >= 1 /\ Len(D) \in Nat /\ atol(D) = Len(v.bytes)
  BY <1>1, DecimalIs, AtolOfDecimal
<1> HIDE DEF D
<1> DEFINE T == Bits \cup {"?"}
<1>3. T \subseteq Sym /\ \A x \in T : x # "\n"
  BY Letters DEF Bits
<1>4. <<"?">> \in Seq(T) /\ Len(<<"?">>) = 1 /\ atol(<<"?">>) = 0
  <2>1. ~IsDigit("?")
    <3>1. Range(Digit) = {"0", "1"} BY DEF Digit, Range
    <3> QED BY <3>1 DEF IsDigit
  <2> DEFINE s == <<"?">>
  <2>2. s \in Seq(T) /\ Len(s) = 1 /\ s[1] = "?" OBVIOUS
  <2> HIDE DEF s, T
  <2>3. atol(s) = 0 BY <2>1, <2>2, AtolIs
  <2> QED BY <2>2, <2>3 DEF s
<1>5. /\ w \in Seq(T) /\ Len(w) >= 1 /\ Len(w) <= Len(D) /\ Len(w) \in Nat
      /\ atol(w) = IF v.kind = "raw" THEN Len(v.bytes) ELSE 0
  <2>1. D \in Seq(T) BY <1>2
  <2>2. CASE v.kind = "raw"
    <3>1. w = D BY <2>2 DEF D
    <3> HIDE DEF w
    <3> QED BY <1>2, <2>1, <2>2, <3>1
  <2>3. CASE v.kind # "raw"
    <3>1. w = <<"?">> BY <2>3
    <3> HIDE DEF w
    <3> QED BY <1>2, <1>4, <2>3, <3>1
  <2> QED BY <2>2, <2>3
<1> HIDE DEF T
<1>6. w \in Seq(Sym) /\ \A i \in 1 .. Len(w) : w[i] # "\n"
  <2> HIDE DEF w
  <2> QED BY <1>3, <1>5
<1>7. t \in Seq(Sym) /\ Len(t) = 3 /\ t[1] = "O" /\ t[2] = "K" /\ t[3] = Blank
  BY Letters
<1>8. Blank # "\n"
  BY DEF Blank
<1>9. Label(v) = t \o w
  BY DEF Label
<1> HIDE DEF w, t
<1> DEFINE g == t \o w
<1>10. /\ g \in Seq(Sym) /\ Len(g) = Len(t) + Len(w) /\ (\A i \in 1 .. Len(t) : g[i] = t[i])
       /\ \A i \in 1 .. Len(w) : g[Len(t) + i] = w[i]
  <2>1. t \in Seq(Sym) /\ w \in Seq(Sym) BY <1>6, <1>7
  <2> QED BY ONLY <2>1, ConcatIs
<1>11. 3 \in Len(t) .. Len(t) + Len(w) /\ 3 - Len(t) = 0
  BY <1>5, <1>7
<1>12. Take(g, 3) = t \o Take(w, 0) /\ Drop(g, 3) = Drop(w, 0)
  <2>1. t \in Seq(Sym) /\ w \in Seq(Sym) BY <1>6, <1>7
  <2>2. Take(g, 3) = t \o Take(w, 3 - Len(t)) /\ Drop(g, 3) = Drop(w, 3 - Len(t))
    BY ONLY <1>11, <2>1, CutBehind
  <2> QED BY <1>11, <2>2
<1>13. Take(w, 0) = <<>> /\ Drop(w, 0) = w
  <2>1. 0 \in 0 .. Len(w) BY <1>5
  <2>2. Take(w, 0) \in Seq(Sym) /\ Len(Take(w, 0)) = 0 BY <1>6, <2>1, TakeDrop
  <2>3. Drop(w, 0) = w BY <1>6 DEF Drop
  <2> QED BY <2>2, <2>3
<1>14. t \o <<>> = t
  BY <1>7
<1> HIDE DEF g
<1>15. ASSUME NEW i \in 1 .. Len(g) PROVE g[i] # "\n"
  <2>1. CASE i <= 3
    <3>1. i \in 1 .. Len(t) /\ i \in {1, 2, 3} BY <1>7, <2>1
    <3>2. g[i] = t[i] BY <1>10, <3>1
    <3>3. t[1] # "\n" /\ t[2] # "\n" /\ t[3] # "\n" BY <1>7, <1>8
    <3> QED BY <3>1, <3>2, <3>3
  <2>2. CASE i > 3
    <3> DEFINE j == i - 3
    <3>1. j \in 1 .. Len(w) /\ Len(t) + j = i BY <1>5, <1>7, <1>10, <2>2
    <3> HIDE DEF j
    <3> QED BY <1>6, <1>10, <3>1
  <2> QED BY <2>1, <2>2
<1>16. /\ g \in Seq(Sym) /\ NoNewline(g) /\ Len(g) >= 4 /\ Len(g) <= 3 + Len(D)
  BY <1>2, <1>5, <1>7, <1>10, <1>15 DEF NoNewline
<1>17. g[1] = "O" /\ Take(g, 3) = t /\ Drop(g, 3) = w
  <2>1. 1 \in 1 .. Len(t) BY <1>7
  <2>2. g[1] = "O" BY <1>7, <1>10, <2>1
  <2> QED BY ONLY <1>12, <1>13, <1>14, <2>2
<1>18. Label(v) = g
  BY <1>9 DEF g
<1> QED BY <1>5, <1>16, <1>17, <1>18 DEF t, D

(* The status line w and what follows it of an answer. *)
Shape(q, w, y, C) ==
  \/ w = <<"N", "F">> /\ y = <<>> /\ q.r.cmd \in Lookup /\ NULL \in C
  \/ w = <<"O", "K">> /\ y = <<>> /\ q.r.cmd \in {"HAS", "DEL"} /\ C \ {NULL} # {}
  \/ w = <<"O", "K">> /\ y = <<>> /\ q.r.cmd = "PUT" /\ PutObject(q.r) \in C
  \/ q.r.cmd = "GET" /\ \E v \in C \ {NULL} : w = Label(v) /\ y = v.bytes
  \/ /\ w \in {<<"U", "N", "S", "U", "P", "P">>, <<"I", "N", "V">>, <<"E", "R", "R">>}
     /\ y = <<>> /\ q.r.cmd \notin Lookup

(* A status word has no newline. *)
LEMMA WordsHaveNoNewline ==
  /\ NoNewline(<<"O", "K">>) /\ NoNewline(<<"N", "F">>) /\ NoNewline(<<"I", "N", "V">>)
  /\ NoNewline(<<"E", "R", "R">>) /\ NoNewline(<<"U", "N", "S", "U", "P", "P">>)
  BY DEF NoNewline

(* Every answer is a line and what follows it. *)
LEMMA AnswerShape ==
  ASSUME NEW q, NEW a, NEW C \in SUBSET (Storable \cup {NULL}), Answers(q, a, C)
  PROVE  \E w \in Seq(Sym), y \in Seq(Sym) :
           a = Line(w) \o y /\ NoNewline(w) /\ Shape(q, w, y, C)
<1>1. ASSUME NEW w \in Seq(Sym), a = Line(w), NoNewline(w), Shape(q, w, <<>>, C)
      PROVE  \E x \in Seq(Sym), y \in Seq(Sym) : a = Line(x) \o y /\ NoNewline(x) /\ Shape(q, x, y, C)
  <2>1. Line(w) \in Seq(Sym) BY LineIs, Letters
  <2> DEFINE l == Line(w)
  <2> HIDE DEF l
  <2>2. l \o <<>> = l BY <2>1 DEF l
  <2>3. a = Line(w) \o <<>> /\ <<>> \in Seq(Sym) BY <1>1, <2>2 DEF l
  <2> QED BY <1>1, <2>3
<1>2. CASE a = NF /\ q.r.cmd \in Lookup /\ NULL \in C
  BY <1>1, <1>2, Words, WordsHaveNoNewline DEF NF, Shape
<1>3. CASE a = OK /\ q.r.cmd \in {"HAS", "DEL"} /\ C \ {NULL} # {}
  BY <1>1, <1>3, Words, WordsHaveNoNewline DEF OK, Shape
<1>4. CASE a = OK /\ q.r.cmd = "PUT" /\ PutObject(q.r) \in C
  BY <1>1, <1>4, Words, WordsHaveNoNewline DEF OK, Shape
<1>5. ASSUME q.r.cmd = "GET", NEW v \in C \ {NULL}, a = Sent(v)
      PROVE  \E w \in Seq(Sym), y \in Seq(Sym) : a = Line(w) \o y /\ NoNewline(w) /\ Shape(q, w, y, C)
  <2>1. v \in Storable OBVIOUS
  <2>2. v.bytes \in Seq(Sym)
    <3>1. v.bytes \in Seq(Byte) /\ Byte \subseteq Sym BY <2>1, StorableIs DEF Sym
    <3> QED BY <3>1
  <2>3. Label(v) \in Seq(Sym) /\ NoNewline(Label(v)) BY <2>1, LabelIs
  <2>4. Shape(q, Label(v), v.bytes, C) BY <1>5 DEF Shape
  <2> QED BY <1>5, <2>2, <2>3, <2>4 DEF Sent
<1>6. CASE a = UNSUPP /\ q.r.cmd \notin Lookup
  BY <1>1, <1>6, Words, WordsHaveNoNewline DEF UNSUPP, Shape
<1>7. CASE a = INV /\ q.r.cmd \notin Lookup
  BY <1>1, <1>7, Words, WordsHaveNoNewline DEF INV, Shape
<1>8. CASE a = ERR /\ q.r.cmd \notin Lookup
  BY <1>1, <1>8, Words, WordsHaveNoNewline DEF ERR, Shape
<1> QED BY <1>2, <1>3, <1>4, <1>5, <1>6, <1>7, <1>8 DEF Answers

(* What Connected(c) says of a request that has been made. *)
LEMMA MadeRequest ==
  ASSUME IInv, NEW c \in Client, cli[c] # "closed"
  PROVE  /\ req[c] \in Asked /\ req[c].r \in Request
         /\ cand[c] \in SUBSET (Storable \cup {NULL})
         /\ buf[c] \in Seq(Sym) /\ down[c] \in Seq(Sym) /\ pl[c] \in Nat
         /\ Connection(up[c], srv[c], left[c], cli[c], req[c], buf[c], down[c], pl[c], result[c], cand[c])
  BY DEF IInv, Types, Connected, Connection, Asked

(* A step of C_ask on connection c, which has received what is not in d. *)
LEMMA ClientStep ==
  ASSUME IInv, NEW c \in Client, cli[c] # "closed",
         NEW d \in Seq(Sym), down' = [down EXCEPT ![c] = d],
         NEW st \in {"header", "payload", "sfs", "done", "interrupted"},
         NEW b \in Seq(Sym), NEW len \in Nat, NEW res \in Result,
         Client_sets(c, st, b, len, res), UNCHANGED <<store, up, srvVars, cand>>,
         st \in {"header", "payload", "sfs"} => Waiting(c),
         \/ Taken(up[c], srv[c], left[c], req[c])
         \/ b = <<>> /\ d = <<>> /\ st \in {"header", "interrupted"},
         st = "header" => /\ Replies(req[c], b \o d, cand[c])
                          /\ Len(b) <= BufSize - 8
                          /\ \A i \in 1 .. Len(b) : b[i] # "\n",
         st = "payload" => Len(b) < len,
         st = "done" /\ req[c].r.cmd = "PUT" /\ res = Status(OK) => PutObject(req[c].r) \in cand[c],
         Answerable => Delivers(srv[c], st, req[c], b, d, len, res, cand[c])
  PROVE  IInv'
<1>1. Types /\ req[c] \in Asked /\ srv' = srv /\ left' = left /\ up' = up /\ store' = store /\ cand' = cand
  BY MadeRequest DEF IInv, srvVars
<1>2. /\ cli' = [cli EXCEPT ![c] = st] /\ buf' = [buf EXCEPT ![c] = b] /\ pl' = [pl EXCEPT ![c] = len]
      /\ result' = [result EXCEPT ![c] = res] /\ req' = req /\ eagain' = eagain
  BY DEF Client_sets
<1>3. Types'
  BY <1>1, <1>2 DEF Types
<1>4. Others(c)
  BY <1>1, <1>2 DEF Others, Types
<1>5. cli'[c] = st /\ buf'[c] = b /\ pl'[c] = len /\ result'[c] = res /\ down'[c] = d
  BY <1>1, <1>2 DEF Types
<1>6. Connection(up[c], srv[c], left[c], cli[c], req[c], buf[c], down[c], pl[c], result[c], cand[c])
  BY MadeRequest
<1>7. \/ Fresh(up[c], req[c]) /\ srv[c] = "recv" /\ b = <<>> /\ d = <<>> /\ st \in {"header", "interrupted", "closed"}
      \/ Taken(up[c], srv[c], left[c], req[c])
  BY <1>1, <1>6 DEF Connection
<1>8. Connection(up[c], srv[c], left[c], st, req[c], b, d, len, res, cand[c])
  BY <1>1, <1>7 DEF Connection
<1>9. Connected(c)'
  BY <1>1, <1>2, <1>5, <1>8 DEF Connected
<1>10. Current(c)'
  <2>1. Waiting(c)' => Waiting(c) BY <1>5 DEF Waiting
  <2> QED BY <1>1, <1>2, <2>1 DEF IInv, Current, Newest
<1> QED BY <1>1, <1>3, <1>4, <1>9, <1>10, ConnectionStep

(* A timeout keeps the invariant. *)
LEMMA TimeoutStep ==
  ASSUME IInv, NEW c \in Client, C_ask_timeout(c)
  PROVE  IInv'
<1>1. /\ eagain' = [eagain EXCEPT ![c] = TRUE]
      /\ UNCHANGED <<store, up, down, srv, left, cli, req, buf, pl, result, cand>>
  BY DEF C_ask_timeout, srvVars
<1>2. Types'
  BY <1>1 DEF IInv, Types
<1>3. \A d \in Client : Connected(d)' /\ Current(d)'
  BY <1>1 DEF IInv, Connected, Current, Waiting, Newest
<1> QED BY <1>2, <1>3 DEF IInv

(* So does an interrupt. *)
LEMMA InterruptStep ==
  ASSUME IInv, NEW c \in Client, C_ask_interrupt(c)
  PROVE  IInv'
<1>1. /\ Waiting(c) /\ down[c] = <<>> /\ Client_sets(c, "interrupted", <<>>, 0, NULL)
      /\ UNCHANGED <<store, up, down, srvVars, cand>>
  BY DEF C_ask_interrupt
<1>2. cli[c] # "closed"
  BY <1>1 DEF Waiting
<1>3. down' = [down EXCEPT ![c] = <<>>]
  BY <1>1 DEF IInv, Types
<1>4. Answerable => Delivers(srv[c], "interrupted", req[c], <<>>, <<>>, 0, NULL, cand[c])
  BY DEF Delivers
<1>5. <<>> \in Seq(Sym) /\ NULL \in Result
  BY DEF Result
<1> QED BY <1>1, <1>2, <1>3, <1>4, <1>5, ClientStep

(* The client's end is closed, with at most a part of the request sent. *)
LEMMA CloseStep ==
  ASSUME IInv, NEW c \in Client, cli[c] # "closed", Client_closes(c), UNCHANGED <<store, srvVars>>,
         up' \in [Client -> Seq(UpSym)], \A d \in Client \ {c} : up'[d] = up[d],
         \/ Fresh(up'[c], req[c]) /\ srv[c] = "recv"
         \/ Taken(up'[c], srv[c], left[c], req[c])
  PROVE  IInv'
<1>1. Types /\ req[c] \in Asked /\ srv' = srv /\ left' = left /\ store' = store
  BY MadeRequest DEF IInv, srvVars
<1>2. /\ cli' = [cli EXCEPT ![c] = "closed"] /\ buf' = [buf EXCEPT ![c] = <<>>]
      /\ pl' = [pl EXCEPT ![c] = 0] /\ result' = [result EXCEPT ![c] = NULL]
      /\ eagain' = [eagain EXCEPT ![c] = FALSE] /\ down' = [down EXCEPT ![c] = <<>>]
      /\ cand' = [cand EXCEPT ![c] = {}] /\ req' = req
  BY DEF Client_closes
<1>3. <<>> \in Seq(Sym) /\ NULL \in Result /\ {} \in SUBSET (Storable \cup {NULL})
  BY DEF Result
<1>4. Types'
  BY <1>1, <1>2, <1>3 DEF Types
<1>5. Others(c) /\ \A d \in Client \ {c} : cand'[d] = cand[d]
  BY <1>1, <1>2 DEF Others, Types
<1>6. /\ cli'[c] = "closed" /\ buf'[c] = <<>> /\ pl'[c] = 0 /\ result'[c] = NULL
      /\ down'[c] = <<>> /\ cand'[c] = {}
  BY <1>1, <1>2 DEF Types
<1>7. Connection(up'[c], srv[c], left[c], "closed", req[c], <<>>, <<>>, 0, NULL, {})
  BY <1>1 DEF Connection, Delivers
<1>8. Connected(c)'
  BY <1>1, <1>2, <1>6, <1>7 DEF Connected
<1>9. Current(c)'
  BY <1>6 DEF Current, Waiting
<1> QED BY <1>1, <1>4, <1>5, <1>8, <1>9, ConnectionStep

(* So does the return of C_ask. *)
LEMMA ReturnStep ==
  ASSUME IInv, NEW c \in Client, C_ask_return(c)
  PROVE  IInv'
<1>1. cli[c] = "done" /\ Client_closes(c) /\ UNCHANGED <<store, up, srvVars>>
  BY DEF C_ask_return
<1>2. Taken(up[c], srv[c], left[c], req[c])
  BY <1>1, MadeRequest DEF Connection
<1>3. up' \in [Client -> Seq(UpSym)]
  BY <1>1 DEF IInv, Types
<1> QED BY <1>1, <1>2, <1>3, CloseStep

(* So does the exit of the client's process. *)
LEMMA ExitStep ==
  ASSUME IInv, NEW c \in Client, NEW n \in 0 .. Len(up[c]), client_exits(c, n)
  PROVE  IInv'
<1> DEFINE u == up[c]
           q == req[c]
           w == Take(u, n)
<1>1. /\ cli[c] # "closed" /\ Client_closes(c) /\ UNCHANGED <<store, srvVars>>
      /\ n > 0 /\ u[1] \in Command => n >= Len(Header(q.r))
      /\ up' = [up EXCEPT ![c] = w]
  BY DEF client_exits, Waiting
<1>2. up \in [Client -> Seq(UpSym)] /\ u \in Seq(UpSym) /\ Len(u) \in Nat
  BY DEF IInv, Types
<1>3. /\ q \in Asked /\ q.r \in Request
      /\ (Fresh(u, q) /\ srv[c] = "recv") \/ Taken(u, srv[c], left[c], q)
  BY <1>1, MadeRequest DEF Connection
<1> HIDE DEF u
<1>4. w \in Seq(UpSym) /\ Len(w) = n /\ n \in Nat
  BY <1>2, TakeDrop DEF u
<1>5. CASE Taken(u, srv[c], left[c], q)
  <2>1. u \in Seq(Byte) /\ (Exact(q) => (srv[c] = "recv" => u = <<>>) /\ (srv[c] = "fetch" => Len(u) <= left[c]))
    BY <1>5 DEF Taken
  <2>2. w \in Seq(Byte) /\ n <= Len(u) BY <2>1, TakeDrop DEF u
  <2>3. u = <<>> => w = <<>>
    <3>1. u = <<>> => Len(w) = 0 BY <1>4, <2>2
    <3> QED BY <1>4, <3>1
  <2>4. left[c] \in Nat BY DEF IInv, Types
  <2>5. Len(u) <= left[c] => Len(w) <= left[c] BY <1>2, <1>4, <2>2, <2>4
  <2> HIDE DEF w
  <2>6. Taken(w, srv[c], left[c], q) BY <2>1, <2>2, <2>3, <2>5 DEF Taken
  <2>7. up' \in [Client -> Seq(UpSym)] /\ up'[c] = w /\ \A d \in Client \ {c} : up'[d] = up[d]
    BY <1>1, <1>2, <1>4
  <2> QED BY <1>1, <2>6, <2>7, CloseStep
<1>6. CASE Fresh(u, q) /\ srv[c] = "recv"
  <2> DEFINE h == Header(q.r)
             y == q.r.bytes
  <2>1. PICK m \in 0 .. Len(y) : u = h \o Take(y, m) BY <1>6 DEF Fresh
  <2>2. /\ h \in Seq(UpSym) /\ Len(h) \in Nat /\ Len(h) >= 2 /\ h[1] \in Command
        /\ y \in Seq(Byte) /\ Len(y) \in Nat
    <3>1. y \in Seq(Byte) /\ q.r.cmd \in Command BY <1>3, RequestIs
    <3>2. h \in Seq(UpSym) /\ Len(h) \in Nat /\ Len(h) >= 2 /\ h[1] = q.r.cmd BY <1>3, HeaderIs
    <3> HIDE DEF h, y
    <3> QED BY <3>1, <3>2
  <2> HIDE DEF h, y
  <2> DEFINE t == Take(y, m)
  <2>3. t \in Seq(Byte) /\ t \in Seq(UpSym) /\ Len(t) = m
    <3>1. t \in Seq(Byte) /\ Len(t) = m BY <2>2, TakeDrop
    <3>2. Byte \subseteq UpSym BY DEF UpSym
    <3> HIDE DEF t
    <3> QED BY <3>1, <3>2
  <2>4. u = h \o t BY <2>1
  <2> HIDE DEF t
  <2>5. Len(u) = Len(h) + m /\ u[1] = h[1]
    <3>1. 1 \in 1 .. Len(h) BY <2>2
    <3>2. Len(u) = Len(h) + Len(t) /\ \A i \in 1 .. Len(h) : u[i] = h[i]
      BY ONLY <2>2, <2>3, <2>4, ConcatIs, Zenon
    <3> QED BY <2>3, <3>1, <3>2
  <2>6. up' \in [Client -> Seq(UpSym)] /\ up'[c] = w /\ \A d \in Client \ {c} : up'[d] = up[d]
    <3> HIDE DEF w
    <3> QED BY <1>1, <1>2, <1>4
  <2>7. CASE n = 0
    <3>1. w = <<>> BY <1>4, <2>7
    <3>2. Taken(<<>>, srv[c], left[c], q)
      <4>1. left[c] \in Nat BY DEF IInv, Types
      <4> QED BY <4>1 DEF Taken
    <3> QED BY <1>1, <2>6, <3>1, <3>2, CloseStep
  <2>8. CASE n > 0
    <3> DEFINE j == n - Len(h)
    <3>1. n \in Len(h) .. Len(h) + Len(t) /\ j \in Nat /\ j <= m /\ j \in 0 .. Len(y)
      BY <1>1, <1>4, <2>1, <2>2, <2>3, <2>5, <2>8 DEF h, u
    <3>2. w = h \o Take(t, j)
      <4>1. Take(h \o t, n) = h \o Take(t, n - Len(h)) BY <2>2, <2>3, <3>1, CutBehind
      <4> QED BY <2>4, <4>1
    <3> HIDE DEF j
    <3>3. Take(t, j) = Take(y, j) BY <2>2, <3>1, TakeTake DEF t
    <3>4. Fresh(w, q) BY <3>1, <3>2, <3>3 DEF Fresh, h, y
    <3> QED BY <1>1, <1>6, <2>6, <3>4, CloseStep
  <2> QED BY <1>4, <2>7, <2>8
<1> QED BY <1>3, <1>5, <1>6

(* A request is sent on a connection where nothing is on its way to the client. *)
LEMMA SendStep ==
  ASSUME IInv, NEW c \in Client, NEW r \in Request, NEW sfs \in BOOLEAN, Sends(c, r, sfs),
         down[c] = <<>>, srv' \in [Client -> {"recv", "fetch", "closed"}], srv'[c] = "recv",
         \A d \in Client \ {c} : srv'[d] = srv[d], UNCHANGED <<store, down, left, eagain>>
  PROVE  IInv'
<1> DEFINE q == [r |-> r, sfs |-> sfs]
           u == Header(r) \o r.bytes
           C == IF r.cmd = "PUT" THEN {} ELSE {Newest(store, r.key)}
<1>1. /\ req' = [req EXCEPT ![c] = q] /\ up' = [up EXCEPT ![c] = u]
      /\ cli' = [cli EXCEPT ![c] = "header"] /\ buf' = [buf EXCEPT ![c] = <<>>]
      /\ pl' = [pl EXCEPT ![c] = 0] /\ result' = [result EXCEPT ![c] = NULL]
      /\ cand' = [cand EXCEPT ![c] = C]
  BY DEF Sends
<1>2. q \in Asked /\ q.r = r
  BY DEF Asked
<1>3. /\ r.key \in Key /\ r.bytes \in Seq(Byte) /\ Header(r) \in Seq(UpSym)
      /\ Len(r.bytes) \in 0 .. Len(r.bytes)
  <2>1. r.key \in Key /\ r.bytes \in Seq(Byte) BY RequestIs
  <2>2. Header(r) \in Seq(UpSym) BY HeaderIs
  <2>3. Len(r.bytes) \in 0 .. Len(r.bytes) BY <2>1
  <2> QED BY <2>1, <2>2, <2>3
<1>4. u \in Seq(UpSym) /\ Fresh(u, q)
  <2>1. r.bytes \in Seq(UpSym)
    <3>1. Byte \subseteq UpSym BY DEF UpSym
    <3> QED BY <1>3, <3>1
  <2>2. Take(r.bytes, Len(r.bytes)) = r.bytes BY <1>3, TakeIs
  <2>3. u \in Seq(UpSym) BY <1>3, <2>1
  <2>4. u = Header(q.r) \o Take(q.r.bytes, Len(r.bytes)) /\ Len(r.bytes) \in 0 .. Len(q.r.bytes)
    BY <1>2, <1>3, <2>2
  <2> HIDE DEF u, q
  <2>5. Fresh(u, q) BY <2>4 DEF Fresh
  <2> QED BY <2>3, <2>5
<1>5. C \in SUBSET (Storable \cup {NULL})
  BY <1>3, NewestStorable
<1>6. r.cmd # "PUT" => Newest(store, r.key) \in C
  OBVIOUS
<1> HIDE DEF q, u, C
<1>7. <<>> \in Seq(Sym) /\ NULL \in Result
  BY DEF Result
<1>8. Types
  BY DEF IInv
<1>9. Types'
  BY <1>1, <1>2, <1>4, <1>5, <1>7, <1>8 DEF Types
<1>10. Others(c) /\ \A d \in Client \ {c} : cand'[d] = cand[d]
  BY <1>1, <1>8 DEF Others, Types
<1>11. /\ req'[c] = q /\ up'[c] = u /\ cli'[c] = "header" /\ buf'[c] = <<>> /\ pl'[c] = 0
       /\ result'[c] = NULL /\ cand'[c] = C
  BY <1>1, <1>8 DEF Types
<1>12. Connection(u, "recv", left[c], "header", q, <<>>, <<>>, 0, NULL, C)
  <2>1. <<>> \o <<>> = <<>> /\ Len(<<>>) = 0 OBVIOUS
  <2>2. 0 <= BufSize - 8 BY OsrvAssumption
  <2>3. Replies(q, <<>> \o <<>>, C) BY <2>1 DEF Replies
  <2>4. \A i \in 1 .. 0 : FALSE OBVIOUS
  <2>5. Delivers("recv", "header", q, <<>>, <<>>, 0, NULL, C) BY DEF Delivers
  <2> QED BY <1>2, <1>4, <2>1, <2>2, <2>3, <2>4, <2>5 DEF Connection
<1>13. Connected(c)'
  BY <1>11, <1>12 DEF Connected
<1>14. Current(c)'
  BY <1>2, <1>6, <1>11 DEF Current, Newest
<1> QED BY <1>9, <1>10, <1>13, <1>14, ConnectionStep

(* So does a new request, on a new or on a kept connection. *)
LEMMA SendSteps ==
  ASSUME IInv, NEW c \in Client, NEW r \in Request,
         (\E sfs \in BOOLEAN : C_ask_send(c, r, sfs)) \/ client_sends_again(c, r)
  PROVE  IInv'
<1>1. srv \in [Client -> {"recv", "fetch", "closed"}]
  BY DEF IInv, Types
<1>2. ASSUME NEW sfs \in BOOLEAN, C_ask_send(c, r, sfs) PROVE IInv'
  <2>1. /\ cli[c] = "closed" /\ Sends(c, r, sfs) /\ srv' = [srv EXCEPT ![c] = "recv"]
        /\ UNCHANGED <<store, down, left, eagain>>
    BY <1>2 DEF C_ask_send
  <2>2. down[c] = <<>> BY <2>1 DEF IInv, Connected, Connection
  <2>3. /\ srv' \in [Client -> {"recv", "fetch", "closed"}] /\ srv'[c] = "recv"
        /\ \A d \in Client \ {c} : srv'[d] = srv[d]
    BY <1>1, <2>1
  <2> QED BY <2>1, <2>2, <2>3, SendStep
<1>3. CASE client_sends_again(c, r)
  <2>1. /\ srv[c] = "recv" /\ down[c] = <<>> /\ Sends(c, r, FALSE) /\ srv' = srv
        /\ UNCHANGED <<store, down, left, eagain>>
    BY <1>3 DEF client_sends_again, srvVars
  <2>2. FALSE \in BOOLEAN OBVIOUS
  <2> QED BY <1>1, <2>1, <2>2, SendStep
<1> QED BY <1>2, <1>3

(* What is on its way to a client that waits for a status line. *)
LEMMA ReplyShape ==
  ASSUME NEW q \in Asked, NEW C \in SUBSET (Storable \cup {NULL}), NEW s \in Seq(Sym), s # <<>>,
         Replies(q, s, C)
  PROVE  \E w \in Seq(Sym), y \in Seq(Sym), t \in Seq(Sym) :
           /\ s = Line(w) \o t /\ NoNewline(w) /\ Shape(q, w, y, C)
           /\ Exact(q) => t = y
<1>1. PICK a \in Seq(Sym), rest \in Seq(Sym) :
        s = a \o rest /\ Answers(q, a, C) /\ (Exact(q) => rest = <<>>)
  BY DEF Replies
<1>2. PICK w \in Seq(Sym), y \in Seq(Sym) : a = Line(w) \o y /\ NoNewline(w) /\ Shape(q, w, y, C)
  BY <1>1, AnswerShape
<1> DEFINE l == Line(w)
           t == y \o rest
<1>3. l \in Seq(Sym)
  BY LineIs, Letters
<1> HIDE DEF l
<1>4. t \in Seq(Sym) /\ (rest = <<>> => t = y)
  <2>1. t \in Seq(Sym) OBVIOUS
  <2>2. y \o <<>> = y OBVIOUS
  <2> QED BY <2>1, <2>2
<1>5. (l \o y) \o rest = l \o (y \o rest)
  <2>1. l \in Seq(Sym) /\ y \in Seq(Sym) /\ rest \in Seq(Sym) BY <1>3
  <2> QED BY ONLY <2>1, SMTT(30)
<1>6. s = l \o t
  BY <1>1, <1>2, <1>5 DEF l
<1> HIDE DEF t
<1> QED BY <1>1, <1>2, <1>4, <1>6 DEF l

(* Results are told apart. *)
LEMMA Results ==
  /\ \A b \in Seq(Sym) : Payload(b) \in Result /\ Payload(b) # Status(OK)
  /\ Rf_error \in Result /\ Rf_error # Status(OK) /\ NULL \in Result
  /\ \A l \in Seq(Sym) : Status(l) \in Result /\ \A m : Status(l) = Status(m) => l = m
<1> DEFINE T == Sym \cup {"error"}
<1>1. <<>> \in Seq(T) /\ <<>> \in Seq(Sym) /\ <<"error">> \in Seq(T) /\ Seq(Sym) \subseteq Seq(T)
  OBVIOUS
<1>2. \A l \in Seq(T), b \in Seq(Sym) : [status |-> l, bytes |-> b] \in Result
  BY DEF Result
<1>3. OK # <<>> /\ OK # <<"error">>
  <2>1. <<"O", "K">> \in Seq(Sym) /\ Len(<<"O", "K">>) = 2 BY Words
  <2> DEFINE w == <<"O", "K">>
  <2>2. w \in Seq(Sym) /\ Len(w) = 2 BY <2>1
  <2> HIDE DEF w
  <2>3. Len(Line(w)) = 3
    <3>1. "\n" \in Sym BY Letters
    <3>2. Len(Line(w)) = Len(w) + 1 BY ONLY <2>2, <3>1, LineIs
    <3> QED BY <2>2, <3>2
  <2>4. Len(OK) = 3 BY <2>3 DEF OK, w
  <2> QED BY <2>4
<1>4. \A l, m : Status(l) = Status(m) => l = m
  <2>1. \A l : Status(l).status = l BY DEF Status
  <2> QED BY <2>1
<1>5. \A b : Payload(b).status = <<>> /\ Status(OK).status = OK
  BY DEF Payload, Status
<1>6. \A b : Payload(b) # Status(OK)
  BY <1>3, <1>5
<1>7. Rf_error # Status(OK)
  BY <1>3, <1>4 DEF Rf_error
<1>8. NULL \in Result
  BY DEF Result
<1>9. \A b \in Seq(Sym) : Payload(b) \in Result
  BY <1>1, <1>2 DEF Payload
<1>10. \A l \in Seq(T) : Status(l) \in Result
  BY <1>1, <1>2 DEF Status
<1>11. Rf_error \in Result
  BY <1>1, <1>10 DEF Rf_error
<1> HIDE DEF T
<1> QED BY <1>1, <1>4, <1>6, <1>7, <1>8, <1>9, <1>10, <1>11

(* Receiving a part of a payload keeps the invariant. *)
LEMMA PayloadStep ==
  ASSUME IInv, NEW c \in Client, NEW n \in 1 .. Len(down[c]), C_ask_payload(c, n)
  PROVE  IInv'
<1> DEFINE b == buf[c]
           d == down[c]
           g == b \o Take(d, n)
           e == Drop(d, n)
           q == req[c]
           C == cand[c]
           m == pl[c]
<1>1. /\ cli[c] = "payload" /\ n <= m - Len(b) /\ down' = [down EXCEPT ![c] = e]
      /\ IF Len(g) = m THEN Client_sets(c, "done", <<>>, 0, Payload(g))
                       ELSE Client_sets(c, "payload", g, m, NULL)
      /\ UNCHANGED <<store, up, srvVars, cand>>
  BY DEF C_ask_payload
<1>2. /\ b \in Seq(Sym) /\ d \in Seq(Sym) /\ m \in Nat
      /\ Connection(up[c], srv[c], left[c], cli[c], q, b, d, m, result[c], C)
  BY <1>1, MadeRequest
<1>3. Taken(up[c], srv[c], left[c], q)
  BY <1>1, <1>2, MadeRequest DEF Connection
<1>4. Answerable => /\ q.r.cmd = "GET" /\ ~q.sfs
                    /\ \E v \in C \ {NULL} : m = Len(v.bytes) /\ b \o d = v.bytes
  BY <1>1, <1>2 DEF Connection, Delivers
<1>5. Waiting(c) /\ cli[c] # "closed"
  BY <1>1 DEF Waiting
<1>6. n \in 0 .. Len(d)
  BY <1>2
<1> HIDE DEF b, d
<1>7. /\ e \in Seq(Sym) /\ g \in Seq(Sym) /\ Len(g) = Len(b) + n /\ g \o e = b \o d /\ Len(b) \in Nat
  <2>1. b \in Seq(Sym) /\ d \in Seq(Sym) BY <1>2
  <2>2. g = b \o Take(d, n) /\ e = Drop(d, n) OBVIOUS
  <2> HIDE DEF g, e
  <2>3. n \in 0 .. Len(d) BY <1>6
  <2>4. Receives(Sym, b, d, n, g, e) BY ONLY <2>1, <2>2, <2>3, CutAndJoin, Zenon
  <2> QED BY <2>4 DEF Receives
<1> HIDE DEF g, e, q, C, m
<1>8. Len(g) <= m /\ Len(g) \in Nat
  BY <1>1, <1>2, <1>6, <1>7
<1>9. CASE Len(g) = m
  <2>1. ASSUME Answerable PROVE Delivers(srv[c], "done", q, <<>>, e, 0, Payload(g), C)
    <3>1. PICK v \in C \ {NULL} : m = Len(v.bytes) /\ g \o e = v.bytes BY <1>4, <1>7, <2>1
    <3>2. Len(g \o e) = Len(g) + Len(e) /\ Len(e) \in Nat BY <1>7, ConcatIs
    <3>3. Len(e) = 0 BY <1>8, <1>9, <3>1, <3>2
    <3>4. e = <<>> BY <1>7, <3>3
    <3>5. g \o <<>> = g BY <1>7
    <3>6. g = v.bytes BY <3>1, <3>4, <3>5
    <3>7. Truth(q, Payload(g), C) BY <1>4, <2>1, <3>6 DEF Truth
    <3> QED BY <3>4, <3>7 DEF Delivers
  <2>2. Client_sets(c, "done", <<>>, 0, Payload(g)) BY <1>1, <1>9
  <2>3. Payload(g) \in Result /\ Payload(g) # Status(OK) /\ <<>> \in Seq(Sym) BY <1>7, Results
  <2> QED BY <1>1, <1>3, <1>5, <1>7, <2>1, <2>2, <2>3, ClientStep DEF q, C
<1>10. CASE Len(g) # m
  <2>1. ASSUME Answerable PROVE Delivers(srv[c], "payload", q, g, e, m, NULL, C)
    BY <1>4, <1>7, <2>1 DEF Delivers
  <2>2. Client_sets(c, "payload", g, m, NULL) /\ Len(g) < m BY <1>1, <1>2, <1>8, <1>10
  <2> QED BY <1>1, <1>2, <1>3, <1>5, <1>7, <2>1, <2>2, Results, ClientStep DEF q, C
<1> QED BY <1>9, <1>10

(* So does receiving a part of an SFS stream. *)
LEMMA SfsStep ==
  ASSUME IInv, NEW c \in Client, NEW n \in 1 .. Len(down[c]), sock_restore(c, n)
  PROVE  IInv'
<1> DEFINE b == buf[c]
           d == down[c]
           g == b \o Take(d, n)
           e == Drop(d, n)
           q == req[c]
           C == cand[c]
<1>1. /\ cli[c] = "sfs" /\ down' = [down EXCEPT ![c] = e]
      /\ IF Last(g) = End THEN Client_sets(c, "done", <<>>, 0, Payload(g))
                          ELSE Client_sets(c, "sfs", g, 0, NULL)
      /\ UNCHANGED <<store, up, srvVars, cand>>
  BY DEF sock_restore
<1>2. /\ b \in Seq(Sym) /\ d \in Seq(Sym) /\ C \in SUBSET (Storable \cup {NULL})
      /\ Connection(up[c], srv[c], left[c], cli[c], q, b, d, pl[c], result[c], C)
  BY <1>1, MadeRequest
<1>3. Taken(up[c], srv[c], left[c], q)
  BY <1>1, <1>2, MadeRequest DEF Connection
<1>4. Answerable => q.r.cmd = "GET" /\ q.sfs /\ \E v \in C \ {NULL} : b \o d = v.bytes
  BY <1>1, <1>2 DEF Connection, Delivers
<1>5. Waiting(c) /\ cli[c] # "closed"
  BY <1>1 DEF Waiting
<1>6. n \in 0 .. Len(d) /\ n >= 1
  BY <1>2
<1> HIDE DEF b, d
<1>7. /\ e \in Seq(Sym) /\ g \in Seq(Sym) /\ Len(g) = Len(b) + n /\ g \o e = b \o d /\ Len(b) \in Nat
  <2>1. b \in Seq(Sym) /\ d \in Seq(Sym) BY <1>2
  <2>2. g = b \o Take(d, n) /\ e = Drop(d, n) OBVIOUS
  <2> HIDE DEF g, e
  <2>3. n \in 0 .. Len(d) BY <1>6
  <2>4. Receives(Sym, b, d, n, g, e) BY ONLY <2>1, <2>2, <2>3, CutAndJoin, Zenon
  <2> QED BY <2>4 DEF Receives
<1> HIDE DEF g, e, q, C
<1>8. ASSUME Answerable PROVE \E v \in C \ {NULL} : g \o e = v.bytes /\ (Last(g) = End <=> e = <<>>)
  <2>1. PICK v \in C \ {NULL} : g \o e = v.bytes BY <1>4, <1>7, <1>8
  <2>2. /\ v.bytes # <<>> /\ Last(v.bytes) = End
        /\ \A i \in 1 .. Len(v.bytes) - 1 : v.bytes[i] # End
    BY <1>2, <1>8, <2>1 DEF Answerable
  <2> DEFINE s == g \o e
  <2>3. /\ Len(s) = Len(g) + Len(e) /\ Len(e) \in Nat /\ Len(g) \in Nat /\ Len(g) >= 1
        /\ \A i \in 1 .. Len(g) : s[i] = g[i]
    <3>1. g \in Seq(Sym) /\ e \in Seq(Sym) BY <1>7
    <3>2. /\ Len(s) = Len(g) + Len(e) /\ Len(e) \in Nat /\ Len(g) \in Nat
          /\ \A i \in 1 .. Len(g) : s[i] = g[i]
      BY ONLY <3>1, ConcatIs
    <3>3. Len(g) >= 1 BY ONLY <1>6, <1>7
    <3> QED BY ONLY <3>2, <3>3
  <2>4. s[Len(s)] = End /\ \A i \in 1 .. Len(s) - 1 : s[i] # End BY <2>1, <2>2 DEF Last
  <2>5. s[Len(g)] = g[Len(g)] /\ Last(g) = g[Len(g)]
    <3>1. Len(g) \in 1 .. Len(g) BY <2>3
    <3> QED BY <2>3, <3>1 DEF Last
  <2>6. e = <<>> <=> Len(e) = 0 BY <1>7
  <2> HIDE DEF s
  <2>7. CASE Len(e) = 0
    <3>1. Len(s) = Len(g) BY <2>3, <2>7
    <3> QED BY <2>1, <2>4, <2>5, <2>6, <2>7, <3>1 DEF s
  <2>8. CASE Len(e) # 0
    <3>1. Len(g) \in 1 .. Len(s) - 1 BY <2>3, <2>8
    <3> QED BY <2>1, <2>4, <2>5, <2>6, <2>8, <3>1 DEF s
  <2> QED BY <2>7, <2>8
<1>9. CASE Last(g) = End
  <2>1. ASSUME Answerable PROVE Delivers(srv[c], "done", q, <<>>, e, 0, Payload(g), C)
    <3>1. PICK v \in C \ {NULL} : g \o e = v.bytes /\ e = <<>> BY <1>8, <1>9, <2>1
    <3>2. g \o <<>> = g BY <1>7
    <3>3. g = v.bytes BY <3>1, <3>2
    <3>4. Truth(q, Payload(g), C) BY <1>4, <2>1, <3>3 DEF Truth
    <3> QED BY <3>1, <3>4 DEF Delivers
  <2>2. Client_sets(c, "done", <<>>, 0, Payload(g)) BY <1>1, <1>9
  <2>3. Payload(g) \in Result /\ Payload(g) # Status(OK) /\ <<>> \in Seq(Sym) BY <1>7, Results
  <2> QED BY <1>1, <1>3, <1>5, <1>7, <2>1, <2>2, <2>3, ClientStep DEF q, C
<1>10. CASE Last(g) # End
  <2>1. ASSUME Answerable PROVE Delivers(srv[c], "sfs", q, g, e, 0, NULL, C)
    BY <1>4, <1>8, <1>10, <2>1 DEF Delivers
  <2>2. Client_sets(c, "sfs", g, 0, NULL) BY <1>1, <1>10
  <2> QED BY <1>1, <1>3, <1>5, <1>7, <2>1, <2>2, Results, ClientStep DEF q, C
<1> QED BY <1>9, <1>10

(* A line is one longer than its text. *)
LEMMA LineLength ==
  ASSUME NEW w \in Seq(Sym)
  PROVE  /\ Line(w) \in Seq(Sym) /\ Len(Line(w)) = Len(w) + 1 /\ Len(w) \in Nat
         /\ Len(w) > 0 => Line(w)[1] = w[1]
<1>1. "\n" \in Sym
  BY Letters
<1>2. /\ Line(w) \in Seq(Sym) /\ Len(Line(w)) = Len(w) + 1
      /\ \A i \in 1 .. Len(w) : Line(w)[i] = w[i]
  BY <1>1, LineIs
<1>3. Len(w) \in Nat /\ (Len(w) > 0 => 1 \in 1 .. Len(w))
  OBVIOUS
<1> QED BY <1>2, <1>3

(* The lines C_ask knows by their length. *)
LEMMA FixedLines ==
  /\ Len(OK) = 3 /\ Len(NF) = 3 /\ Len(UNSUPP) = 7 /\ UNSUPP[1] = "U"
<1> DEFINE o == <<"O", "K">>
           f == <<"N", "F">>
           u == <<"U", "N", "S", "U", "P", "P">>
<1>1. o \in Seq(Sym) /\ f \in Seq(Sym) /\ u \in Seq(Sym)
  BY Words
<1>2. Len(o) = 2 /\ Len(f) = 2 /\ Len(u) = 6 /\ u[1] = "U"
  OBVIOUS
<1> HIDE DEF o, f, u
<1>3. Len(Line(o)) = Len(o) + 1 /\ Len(Line(f)) = Len(f) + 1
  BY <1>1, LineLength
<1>4. Len(u) > 0
  BY <1>2
<1>5. Len(Line(u)) = Len(u) + 1 /\ Line(u)[1] = u[1]
  BY <1>1, <1>4, LineLength
<1>6. Len(Line(o)) = 3 /\ Len(Line(f)) = 3 /\ Len(Line(u)) = 7 /\ Line(u)[1] = "U"
  BY <1>2, <1>3, <1>5
<1> QED BY <1>6 DEF OK, NF, UNSUPP, o, f, u

(* What C_ask makes of a status line. *)
LEMMA ShapeRead ==
  ASSUME NEW q, NEW C \in SUBSET (Storable \cup {NULL}), NEW w \in Seq(Sym), NEW y, Shape(q, w, y, C)
  PROVE  /\ Len(w) = 2 \/ Line(w) = UNSUPP =>
              /\ y = <<>>
              /\ q.r.cmd \in Lookup => Truth(q, Status(Line(w)), C)
              /\ q.r.cmd = "PUT" /\ Line(w) = OK => PutObject(q.r) \in C
         /\ Len(w) >= 3 /\ Take(w, 3) = <<"O", "K", Blank>> =>
              q.r.cmd = "GET" /\ \E v \in C \ {NULL} : w = Label(v) /\ y = v.bytes
         /\ Len(w) >= 3 /\ Take(w, 3) # <<"O", "K", Blank>> => q.r.cmd \notin Lookup /\ y = <<>>
         /\ Answerable => Len(w) <= BufSize - 8
<1> DEFINE P == <<"O", "K", Blank>>
<1>1. P[1] = "O" /\ BufSize \in Nat
  BY OsrvAssumption
<1> HIDE DEF P
<1>2. Answerable => 6 <= BufSize - 8
  BY <1>1, FixedLines DEF Answerable
<1>3. /\ Line(w) \in Seq(Sym) /\ Len(Line(w)) = Len(w) + 1 /\ Len(w) \in Nat
      /\ Len(w) > 0 => Line(w)[1] = w[1]
  BY LineLength
<1>4. CASE w = <<"N", "F">> /\ y = <<>> /\ q.r.cmd \in Lookup /\ NULL \in C
  <2>1. Len(w) = 2 /\ Line(w) = NF /\ q.r.cmd # "PUT" BY <1>4 DEF NF, Lookup
  <2>2. Truth(q, Status(NF), C) BY <1>4 DEF Truth
  <2> QED BY <1>1, <1>2, <1>4, <2>1, <2>2
<1>5. CASE w = <<"O", "K">> /\ y = <<>> /\ q.r.cmd \in {"HAS", "DEL"} /\ C \ {NULL} # {}
  <2>1. Len(w) = 2 /\ Line(w) = OK /\ q.r.cmd # "PUT" BY <1>5 DEF OK
  <2>2. Truth(q, Status(OK), C) BY <1>5 DEF Truth
  <2> QED BY <1>1, <1>2, <1>5, <2>1, <2>2
<1>6. CASE w = <<"O", "K">> /\ y = <<>> /\ q.r.cmd = "PUT" /\ PutObject(q.r) \in C
  <2>1. Len(w) = 2 /\ q.r.cmd \notin Lookup BY <1>6 DEF Lookup
  <2> QED BY <1>1, <1>2, <1>6, <2>1
<1>7. ASSUME q.r.cmd = "GET", NEW v \in C \ {NULL}, w = Label(v), y = v.bytes
      PROVE  /\ Len(w) # 2 /\ Line(w) # UNSUPP /\ Take(w, 3) = P
             /\ Answerable => Len(w) <= BufSize - 8
  <2>1. v \in Storable OBVIOUS
  <2>2. /\ Len(w) >= 4 /\ Len(w) <= 3 + Len(Decimal[Len(v.bytes)]) /\ w[1] = "O" /\ Take(w, 3) = P
    BY <1>7, <2>1, LabelIs DEF P
  <2>3. Line(w)[1] = "O" BY <1>3, <2>2
  <2>4. Line(w) # UNSUPP BY <2>3, FixedLines
  <2>5. Answerable => 3 + Len(Decimal[Len(v.bytes)]) <= BufSize - 8 BY <2>1 DEF Answerable
  <2>6. Len(Decimal[Len(v.bytes)]) \in Nat
    <3>1. Len(v.bytes) \in Nat BY <2>1, StorableIs
    <3>2. Decimal[Len(v.bytes)] \in Seq(Bits) BY <3>1, DecimalIs
    <3> QED BY <3>2
  <2>7. Answerable => Len(w) <= BufSize - 8 BY <1>1, <1>3, <2>2, <2>5, <2>6
  <2>8. Len(w) # 2
    <3> DEFINE m == Len(w)
    <3>1. m \in Nat /\ m >= 4 BY <1>3, <2>2
    <3> HIDE DEF m
    <3>2. m # 2 BY <3>1
    <3> QED BY <3>2 DEF m
  <2> QED BY <2>2, <2>4, <2>7, <2>8
<1>8. ASSUME w \in {<<"U", "N", "S", "U", "P", "P">>, <<"I", "N", "V">>, <<"E", "R", "R">>},
             y = <<>>, q.r.cmd \notin Lookup
      PROVE  Len(w) # 2 /\ Line(w) # OK /\ Take(w, 3) # P /\ Len(w) <= 6
  <2>1. Len(w) \in {3, 6} /\ w[1] # "O" BY <1>8
  <2> DEFINE m == Len(w)
  <2> HIDE DEF m
  <2>0. m \in {3, 6} BY <2>1 DEF m
  <2>7. m # 2 /\ m <= 6 /\ 3 \in 0 .. m /\ 1 \in 1 .. 3 BY <2>0
  <2>2. 3 \in 0 .. Len(w) /\ 1 \in 1 .. 3 BY <2>7 DEF m
  <2>3. Take(w, 3)[1] = w[1] BY <2>2, TakeDrop
  <2>4. Take(w, 3) # P BY <1>1, <2>1, <2>3
  <2>5. Len(Line(w)) # 3 BY <1>3, <2>1
  <2>6. Line(w) # OK BY <2>5, FixedLines
  <2> QED BY <2>4, <2>6, <2>7 DEF m
<1>9. ASSUME q.r.cmd = "GET", NEW v \in C \ {NULL}, w = Label(v), y = v.bytes
      PROVE  /\ ~(Len(w) = 2 \/ Line(w) = UNSUPP) /\ Take(w, 3) = P
             /\ q.r.cmd = "GET" /\ (\E x \in C \ {NULL} : w = Label(x) /\ y = x.bytes)
             /\ Answerable => Len(w) <= BufSize - 8
  BY <1>7, <1>9
<1>10. CASE q.r.cmd = "GET" /\ \E v \in C \ {NULL} : w = Label(v) /\ y = v.bytes
  BY <1>9, <1>10 DEF P
<1>11. CASE /\ w \in {<<"U", "N", "S", "U", "P", "P">>, <<"I", "N", "V">>, <<"E", "R", "R">>}
            /\ y = <<>> /\ q.r.cmd \notin Lookup
  <2>1. Len(w) # 2 /\ Line(w) # OK /\ Take(w, 3) # P /\ Len(w) <= 6 BY <1>8, <1>11
  <2>2. Answerable => Len(w) <= BufSize - 8 BY <1>1, <1>2, <1>3, <2>1
  <2> QED BY <1>11, <2>1, <2>2 DEF P
<1> QED BY <1>4, <1>5, <1>6, <1>10, <1>11 DEF Shape

(* The end of the stream keeps the invariant. *)
LEMMA ClientEofStep ==
  ASSUME IInv, NEW c \in Client, C_ask_eof(c)
  PROVE  IInv'
<1> DEFINE b == buf[c]
           q == req[c]
           C == cand[c]
<1>1. /\ Waiting(c) /\ down[c] = <<>> /\ srv[c] = "closed"
      /\ Client_sets(c, "done", <<>>, 0, Rf_error) /\ UNCHANGED <<store, up, down, srvVars, cand>>
  BY DEF C_ask_eof
<1>2. cli[c] \in {"header", "payload", "sfs"} /\ cli[c] # "closed"
  BY <1>1 DEF Waiting
<1>3. /\ q \in Asked /\ C \in SUBSET (Storable \cup {NULL}) /\ b \in Seq(Sym)
      /\ Connection(up[c], srv[c], left[c], cli[c], q, b, <<>>, pl[c], result[c], C)
  BY <1>1, <1>2, MadeRequest
<1>4. Taken(up[c], srv[c], left[c], q)
  BY <1>1, <1>3 DEF Connection
<1>5. down' = [down EXCEPT ![c] = <<>>] /\ <<>> \in Seq(Sym)
  BY <1>1 DEF IInv, Types
<1> HIDE DEF b, q, C
<1>6. b \o <<>> = b
  BY <1>3
<1>7. ASSUME Answerable, q.r.cmd \in Lookup PROVE FALSE
  <2>1. Delivers(srv[c], cli[c], q, b, <<>>, pl[c], result[c], C) BY <1>3, <1>7 DEF Connection
  <2>2. CASE cli[c] = "header"
    <3>1. b # <<>> /\ Replies(q, b, C) /\ \A i \in 1 .. Len(b) : b[i] # "\n"
      BY <1>1, <1>3, <1>6, <1>7, <2>1, <2>2 DEF Delivers, Connection
    <3>2. PICK w \in Seq(Sym), y \in Seq(Sym), t \in Seq(Sym) :
            /\ b = Line(w) \o t /\ NoNewline(w) /\ Shape(q, w, y, C)
            /\ Exact(q) => t = y
      <4>1. q \in Asked /\ C \in SUBSET (Storable \cup {NULL}) /\ b \in Seq(Sym) BY <1>3
      <4> QED BY ONLY <3>1, <4>1, ReplyShape
    <3> DEFINE l == Line(w)
               n == Len(w)
    <3>3. l \in Seq(Sym) /\ Len(l) = n + 1 /\ l[n + 1] = "\n" /\ n \in Nat BY LineIs, Letters
    <3> HIDE DEF l, n
    <3>4. b = l \o t BY <3>2 DEF l
    <3>5. n + 1 \in 1 .. Len(l) BY <3>3
    <3>6. Len(b) = Len(l) + Len(t) /\ Len(t) \in Nat /\ b[n + 1] = l[n + 1] BY <3>3, <3>4, <3>5, ConcatIs
    <3>7. n + 1 \in 1 .. Len(b) BY <3>3, <3>6
    <3> QED BY <3>1, <3>3, <3>6, <3>7
  <2>3. CASE cli[c] = "payload"
    <3>1. Len(b) < pl[c] BY <1>3, <2>3 DEF Connection
    <3>2. PICK v \in C \ {NULL} : pl[c] = Len(v.bytes) /\ b \o <<>> = v.bytes
      BY <2>1, <2>3 DEF Delivers
    <3>3. Len(b) = pl[c] /\ Len(b) \in Nat BY <1>3, <1>6, <3>2
    <3> QED BY <3>1, <3>3
  <2>4. CASE cli[c] = "sfs" BY <2>1, <2>4 DEF Delivers
  <2> QED BY <1>2, <2>2, <2>3, <2>4
<1>8. Answerable => Delivers(srv[c], "done", q, <<>>, <<>>, 0, Rf_error, C)
  BY <1>7 DEF Delivers
<1> QED BY <1>1, <1>2, <1>4, <1>5, <1>8, Results, ClientStep DEF q, C

(* So does receiving a part of a response line. *)
LEMMA HeaderStep ==
  ASSUME IInv, NEW c \in Client, NEW n \in 1 .. Len(down[c]), C_ask_header(c, n)
  PROVE  IInv'
<1> DEFINE b == buf[c]
           d == down[c]
           g == b \o Take(d, n)
           e == Drop(d, n)
           q == req[c]
           C == cand[c]
           P == <<"O", "K", Blank>>
           nl == Newline(g)
           line == Take(g, nl - 1)
           len == atol(Drop(line, 3))
           rest == HeaderRest(Drop(g, nl), len)
<1>1. /\ cli[c] = "header" /\ n <= Need(c) /\ down' = [down EXCEPT ![c] = e]
      /\ UNCHANGED <<store, up, srvVars, cand>>
      /\ \/ nl = 0 /\ IF Len(g) <= BufSize - 8 THEN Client_sets(c, "header", g, 0, NULL)
                                               ELSE Client_sets(c, "done", <<>>, 0, Rf_error)
         \/ /\ nl > 0 /\ (Len(line) = 2 \/ Line(line) = UNSUPP)
            /\ Client_sets(c, "done", <<>>, 0, Status(Line(line)))
         \/ nl > 3 /\ Take(line, 3) = P /\ q.sfs /\ Client_sets(c, "sfs", <<>>, 0, NULL)
         \/ /\ nl > 3 /\ Take(line, 3) = P /\ ~q.sfs
            /\ IF Len(rest) = len THEN Client_sets(c, "done", <<>>, 0, Payload(rest))
                                  ELSE Client_sets(c, "payload", rest, len, NULL)
         \/ nl > 3 /\ Take(line, 3) # P /\ Client_sets(c, "done", <<>>, 0, Rf_error)
  BY DEF C_ask_header, Newline
<1>2. /\ q \in Asked /\ b \in Seq(Sym) /\ d \in Seq(Sym) /\ C \in SUBSET (Storable \cup {NULL})
      /\ Connection(up[c], srv[c], left[c], cli[c], q, b, d, pl[c], result[c], C)
  BY <1>1, MadeRequest
<1>3. Replies(q, b \o d, C) /\ \A i \in 1 .. Len(b) : b[i] # "\n"
  BY <1>1, <1>2 DEF Connection
<1>4. n \in 0 .. Len(d) /\ n >= 1 /\ d # <<>>
  BY <1>2
<1>5. Taken(up[c], srv[c], left[c], q)
  BY <1>2, <1>4 DEF Connection
<1>6. Waiting(c) /\ cli[c] # "closed"
  BY <1>1 DEF Waiting
<1>7. Need(c) = IF ~q.sfs THEN BufSize - 1 - Len(b) ELSE IF Len(b) < 5 THEN 5 - Len(b) ELSE 1
  BY DEF Need
<1> HIDE DEF b, d, q, C
<1>8. /\ e \in Seq(Sym) /\ g \in Seq(Sym) /\ Len(g) = Len(b) + n /\ g \o e = b \o d /\ Len(b) \in Nat
      /\ \A i \in 1 .. Len(b) : g[i] = b[i]
  <2>1. b \in Seq(Sym) /\ d \in Seq(Sym) BY <1>2
  <2>2. g = b \o Take(d, n) /\ e = Drop(d, n) OBVIOUS
  <2> HIDE DEF g, e
  <2>3. n \in 0 .. Len(d) BY <1>4
  <2>4. Receives(Sym, b, d, n, g, e) BY ONLY <2>1, <2>2, <2>3, CutAndJoin, Zenon
  <2> QED BY <2>4 DEF Receives
<1> HIDE DEF g, e, P
<1>9. Len(g) \in Nat /\ Len(g) >= 1 /\ g \o e \in Seq(Sym) /\ g \o e # <<>>
  <2>1. Len(g) \in Nat /\ Len(g) >= 1 BY <1>4, <1>8
  <2> DEFINE s == g \o e
  <2>2. s \in Seq(Sym) /\ Len(s) = Len(g) + Len(e) /\ Len(e) \in Nat BY <1>8, ConcatIs
  <2> HIDE DEF s
  <2>3. s # <<>> BY <2>1, <2>2
  <2> QED BY <2>1, <2>2, <2>3 DEF s
<1>10. Replies(q, g \o e, C)
  BY <1>3, <1>8
<1>11. PICK w \in Seq(Sym), y \in Seq(Sym), t \in Seq(Sym) :
         /\ g \o e = Line(w) \o t /\ NoNewline(w) /\ Shape(q, w, y, C)
         /\ Exact(q) => t = y
  <2> DEFINE s == g \o e
  <2> HIDE DEF s
  <2>1. s \in Seq(Sym) /\ s # <<>> /\ Replies(q, s, C) BY <1>9, <1>10 DEF s
  <2>2. \E w \in Seq(Sym), y \in Seq(Sym), t \in Seq(Sym) :
          /\ s = Line(w) \o t /\ NoNewline(w) /\ Shape(q, w, y, C)
          /\ Exact(q) => t = y
    BY <1>2, <2>1, ReplyShape
  <2> QED BY <2>2 DEF s
<1>12. /\ nl = 0 => Len(g) <= Len(w)
       /\ nl > 0 => nl = Len(w) + 1 /\ line = w /\ Drop(g, nl) \o e = t
  <2>1. "\n" \in Sym BY Letters
  <2>2. w \in Seq(Sym) /\ t \in Seq(Sym) OBVIOUS
  <2>3. g \in Seq(Sym) /\ e \in Seq(Sym) /\ NoNewline(w) /\ g \o e = Line(w) \o t BY ONLY <1>8, <1>11
  <2>4. /\ Newline(g) = 0 => Len(g) <= Len(w)
        /\ Newline(g) > 0 => /\ Newline(g) = Len(w) + 1 /\ Take(g, Newline(g) - 1) = w
                             /\ Drop(g, Newline(g)) \o e = t
    BY ONLY <2>1, <2>2, <2>3, FirstLine
  <2> QED BY ONLY <2>4 DEF nl, line
<1>13. nl \in 0 .. Len(g) /\ (nl = 0 => \A i \in 1 .. Len(g) : g[i] # "\n") /\ (nl > 0 => g[nl] = "\n")
  BY <1>8, NewlineIs
<1>14. Len(w) \in Nat /\ BufSize \in Nat /\ <<>> \in Seq(Sym)
  BY OsrvAssumption
<1>15. q.r.cmd \in Lookup => Exact(q)
  BY <1>2, ExtraIsPut
<1>16. /\ Len(w) = 2 \/ Line(w) = UNSUPP =>
            /\ y = <<>>
            /\ q.r.cmd \in Lookup => Truth(q, Status(Line(w)), C)
            /\ q.r.cmd = "PUT" /\ Line(w) = OK => PutObject(q.r) \in C
       /\ Len(w) >= 3 /\ Take(w, 3) = P =>
            q.r.cmd = "GET" /\ \E v \in C \ {NULL} : w = Label(v) /\ y = v.bytes
       /\ Len(w) >= 3 /\ Take(w, 3) # P => q.r.cmd \notin Lookup /\ y = <<>>
       /\ Answerable => Len(w) <= BufSize - 8
  BY <1>2, <1>11, ShapeRead DEF P
<1> HIDE DEF nl, line
<1> DEFINE f == Drop(g, nl)
<1>17. f \in Seq(Sym) /\ Len(f) = Len(g) - nl /\ Len(f) \in Nat
  <2>1. f \in Seq(Sym) /\ Len(f) = Len(g) - nl BY ONLY <1>8, <1>13, TakeDrop, ZenonT(40)
  <2> HIDE DEF f
  <2> QED BY <2>1
<1>18. ASSUME nl > 0, Exact(q), y = <<>> PROVE e = <<>>
  <2>1. f \o e = <<>> BY <1>11, <1>12, <1>18
  <2> HIDE DEF f
  <2>2. Len(f \o e) = Len(f) + Len(e) /\ Len(e) \in Nat BY <1>8, <1>17, ConcatIs
  <2>3. Len(e) = 0 BY <1>17, <2>1, <2>2
  <2> QED BY <1>8, <2>3
<1>19. CASE nl = 0 /\ Len(g) <= BufSize - 8 /\ Client_sets(c, "header", g, 0, NULL)
  <2>1. Delivers(srv[c], "header", q, g, e, 0, NULL, C) BY <1>9 DEF Delivers
  <2>2. \A i \in 1 .. Len(g) : g[i] # "\n" BY <1>13, <1>19
  <2> QED BY <1>1, <1>5, <1>6, <1>8, <1>10, <1>19, <2>1, <2>2, Results, ClientStep DEF q, C
<1>20. CASE nl = 0 /\ ~(Len(g) <= BufSize - 8) /\ Client_sets(c, "done", <<>>, 0, Rf_error)
  <2>1. ~Answerable BY <1>9, <1>12, <1>14, <1>16, <1>20
  <2>2. Rf_error \in Result /\ Rf_error # Status(OK) /\ NULL \in Result BY Results
  <2> QED BY <1>1, <1>5, <1>6, <1>8, <1>14, <1>20, <2>1, <2>2, ClientStep DEF q, C
<1>21. CASE /\ nl > 0 /\ (Len(line) = 2 \/ Line(line) = UNSUPP)
            /\ Client_sets(c, "done", <<>>, 0, Status(Line(line)))
  <2>1. line = w BY <1>12, <1>21
  <2>2. Line(w) \in Seq(Sym) BY LineLength
  <2>3. Status(Line(w)) \in Result /\ (Status(Line(w)) = Status(OK) => Line(w) = OK) BY <2>2, Results
  <2>4. Delivers(srv[c], "done", q, <<>>, e, 0, Status(Line(w)), C)
    BY <1>16, <1>18, <1>21, <2>1 DEF Delivers
  <2>5. q.r.cmd = "PUT" /\ Status(Line(w)) = Status(OK) => PutObject(q.r) \in C
    BY <1>16, <1>21, <2>1, <2>3
  <2>6. Client_sets(c, "done", <<>>, 0, Status(Line(w))) BY <1>21, <2>1
  <2> QED BY <1>1, <1>5, <1>6, <1>8, <1>14, <2>3, <2>4, <2>5, <2>6, ClientStep DEF q, C
<1>22. ASSUME nl > 3 PROVE line = w /\ Len(w) >= 3 /\ nl = Len(w) + 1 /\ f \o e = t
  BY <1>12, <1>13, <1>14, <1>22
<1>23. CASE nl > 3 /\ Take(line, 3) # P /\ Client_sets(c, "done", <<>>, 0, Rf_error)
  <2>1. q.r.cmd \notin Lookup /\ y = <<>> BY <1>16, <1>22, <1>23
  <2>2. Delivers(srv[c], "done", q, <<>>, e, 0, Rf_error, C)
    <3>1. Exact(q) => e = <<>> BY <1>13, <1>18, <1>23, <2>1
    <3> QED BY <2>1, <3>1 DEF Delivers
  <2> QED BY <1>1, <1>5, <1>6, <1>8, <1>14, <1>23, <2>2, Results, ClientStep DEF q, C
<1>24. ASSUME nl > 3, Take(line, 3) = P
       PROVE  /\ q.r.cmd = "GET"
              /\ \E v \in C \ {NULL} : v \in Storable /\ w = Label(v) /\ f \o e = v.bytes
  <2>1. q.r.cmd = "GET" /\ \E v \in C \ {NULL} : w = Label(v) /\ y = v.bytes BY <1>16, <1>22, <1>24
  <2>2. t = y BY <1>11, <1>15, <2>1 DEF Lookup
  <2>3. f \o e = y BY <1>22, <1>24, <2>2
  <2> HIDE DEF f
  <2>4. \A v \in C \ {NULL} : v \in Storable BY <1>2
  <2> QED BY <2>1, <2>3, <2>4
<1>25. CASE nl > 3 /\ Take(line, 3) = P /\ q.sfs /\ Client_sets(c, "sfs", <<>>, 0, NULL)
  <2>1. ASSUME Answerable PROVE Delivers(srv[c], "sfs", q, <<>>, e, 0, NULL, C)
    <3>1. PICK v \in C \ {NULL} : v \in Storable /\ w = Label(v) /\ f \o e = v.bytes BY <1>24, <1>25
    <3>2. Len(w) >= 4 BY <3>1, LabelIs
    <3>3. nl > Len(b)
      <4>1. ASSUME nl <= Len(b) PROVE FALSE
        <5>1. nl \in 1 .. Len(b) BY <1>8, <1>13, <1>25, <4>1
        <5>2. g[nl] = "\n" BY <1>13, <1>25
        <5> QED BY <1>3, <1>8, <5>1, <5>2
      <4> QED BY <1>8, <1>13, <4>1
    <3>4. n <= IF Len(b) < 5 THEN 5 - Len(b) ELSE 1 BY <1>1, <1>7, <1>25
    <3>5. nl = Len(w) + 1 BY <1>22, <1>25
    <3>6. Len(g) = nl BY <1>4, <1>8, <1>9, <1>13, <1>14, <3>2, <3>3, <3>4, <3>5
    <3>7. f = <<>>
      <4>1. Len(f) = 0 BY <1>13, <1>17, <3>6
      <4> QED BY <1>17, <4>1
    <3> HIDE DEF f
    <3>8. <<>> \o e = e BY <1>8
    <3>9. e = v.bytes BY <3>1, <3>7, <3>8
    <3>10. e # <<>> BY <2>1, <3>1, <3>9 DEF Answerable
    <3> QED BY <1>24, <1>25, <3>8, <3>9, <3>10 DEF Delivers
  <2> QED BY <1>1, <1>5, <1>6, <1>8, <1>14, <1>25, <2>1, Results, ClientStep DEF q, C
<1>26. CASE /\ nl > 3 /\ Take(line, 3) = P /\ ~q.sfs
            /\ IF Len(rest) = len THEN Client_sets(c, "done", <<>>, 0, Payload(rest))
                                  ELSE Client_sets(c, "payload", rest, len, NULL)
  <2>1. Drop(line, 3) \in Seq(Sym)
    <3>1. 3 \in 0 .. Len(w) BY <1>14, <1>22, <1>26
    <3> QED BY <1>22, <1>26, <3>1, TakeDrop
  <2>2. len \in Nat BY <2>1, AtolIs
  <2> HIDE DEF len
  <2>3. rest \in Seq(Sym) /\ Len(rest) <= len /\ Len(rest) \in Nat /\ (Len(f) <= len => rest = f)
        /\ (len = 0 => rest = <<>>)
    <3> HIDE DEF f
    <3>1. rest = IF Len(f) > len THEN Take(f, len) ELSE f BY DEF HeaderRest, f
    <3> HIDE DEF rest
    <3>2. CASE Len(f) > len
      <4>1. len \in 0 .. Len(f) BY <1>17, <2>2, <3>2
      <4>2. Take(f, len) \in Seq(Sym) /\ Len(Take(f, len)) = len BY <1>17, <4>1, TakeDrop
      <4>3. rest = Take(f, len) BY <3>1, <3>2
      <4>4. rest \in Seq(Sym) /\ Len(rest) = len BY <4>2, <4>3
      <4> QED BY <1>17, <2>2, <3>2, <4>4
    <3>3. CASE ~(Len(f) > len)
      <4>1. rest = f BY <3>1, <3>3
      <4> QED BY <1>17, <2>2, <3>3, <4>1
    <3> QED BY <3>2, <3>3
  <2> HIDE DEF rest
  <2>4. ASSUME Answerable
        PROVE  /\ q.r.cmd = "GET"
               /\ \/ /\ Len(rest) = len /\ rest = <<>>
                     /\ \E v \in C \ {NULL} : v.kind = "sfs"
                  \/ \E v \in C \ {NULL} : len = Len(v.bytes) /\ rest \o e = v.bytes
    <3>1. q.r.cmd = "GET" BY <1>24, <1>26
    <3>2. PICK v \in C \ {NULL} : v \in Storable /\ w = Label(v) /\ f \o e = v.bytes BY <1>24, <1>26
    <3>3. len = IF v.kind = "raw" THEN Len(v.bytes) ELSE 0
      <4>1. len = atol(Drop(w, 3)) BY <1>22, <1>26 DEF len
      <4> QED BY <3>2, <4>1, LabelIs
    <3>4. v.kind \in {"raw", "sfs"} BY <3>2, StorableIs
    <3>5. CASE v.kind = "sfs" BY <2>2, <2>3, <3>1, <3>3, <3>5
    <3>6. CASE v.kind = "raw"
      <4> HIDE DEF f
      <4>1. Len(f \o e) = Len(f) + Len(e) /\ Len(e) \in Nat BY <1>8, <1>17, ConcatIs
      <4>2. len = Len(v.bytes) /\ Len(v.bytes) = Len(f) + Len(e) BY <3>2, <3>3, <3>6, <4>1
      <4>3. Len(f) <= len BY <1>17, <4>1, <4>2
      <4>4. rest = f BY <2>3, <4>3
      <4> QED BY <3>1, <3>2, <4>2, <4>4
    <3> QED BY <3>4, <3>5, <3>6
  <2>5. CASE Len(rest) = len
    <3>1. ASSUME Answerable PROVE Delivers(srv[c], "done", q, <<>>, e, 0, Payload(rest), C)
      <4>1. CASE rest = <<>> /\ q.r.cmd = "GET" /\ \E v \in C \ {NULL} : v.kind = "sfs"
        BY <1>26, <4>1 DEF Delivers, Truth
      <4>2. ASSUME q.r.cmd = "GET", NEW v \in C \ {NULL}, len = Len(v.bytes), rest \o e = v.bytes
            PROVE  Delivers(srv[c], "done", q, <<>>, e, 0, Payload(rest), C)
        <5>1. Len(rest \o e) = Len(rest) + Len(e) /\ Len(e) \in Nat BY <1>8, <2>3, ConcatIs
        <5>2. Len(e) = 0 BY <2>2, <2>5, <4>2, <5>1
        <5>3. e = <<>> BY <1>8, <5>2
        <5>4. rest \o <<>> = rest BY <2>3
        <5>5. rest = v.bytes BY <4>2, <5>3, <5>4
        <5>6. Truth(q, Payload(rest), C) BY <4>2, <5>5 DEF Truth
        <5> QED BY <5>3, <5>6 DEF Delivers
      <4> QED BY <2>4, <3>1, <4>1, <4>2
    <3>2. Client_sets(c, "done", <<>>, 0, Payload(rest)) BY <1>26, <2>5
    <3>3. Payload(rest) \in Result /\ Payload(rest) # Status(OK) BY <2>3, Results
    <3> QED BY <1>1, <1>5, <1>6, <1>8, <1>14, <3>1, <3>2, <3>3, ClientStep DEF q, C
  <2>6. CASE Len(rest) # len
    <3>1. Len(rest) < len BY <2>2, <2>3, <2>6
    <3>2. ASSUME Answerable PROVE Delivers(srv[c], "payload", q, rest, e, len, NULL, C)
      BY <1>26, <2>4, <2>6, <3>2 DEF Delivers
    <3>3. Client_sets(c, "payload", rest, len, NULL) BY <1>26, <2>6
    <3> QED BY <1>1, <1>5, <1>6, <1>8, <2>2, <2>3, <3>1, <3>2, <3>3, Results, ClientStep DEF q, C
  <2> QED BY <2>5, <2>6
<1> QED BY <1>1, <1>19, <1>20, <1>21, <1>23, <1>25, <1>26

(* Every step keeps the invariant. *)
LEMMA NextIInv == IInv /\ [Next]_vars => IInv'
<1> SUFFICES ASSUME IInv, [Next]_vars PROVE IInv'
  OBVIOUS
<1>1. ASSUME NEW c \in Client, C_ask(c) PROVE IInv'
  BY <1>1, HeaderStep, PayloadStep, SfsStep, ClientEofStep, ReturnStep DEF C_ask
<1>2. CASE UNCHANGED vars
  <2>1. UNCHANGED <<store, up, down, srv, left, cli, req, buf, pl, eagain, result, cand>>
    BY <1>2 DEF vars, srvVars, cliVars
  <2>2. Types' BY <2>1 DEF IInv, Types
  <2>3. \A c \in Client : Connected(c)' /\ Current(c)'
    BY <2>1 DEF IInv, Connected, Current, Waiting, Newest
  <2> QED BY <2>2, <2>3 DEF IInv
<1> QED BY <1>1, <1>2, ServerSteps, TimeoutStep, InterruptStep, ExitStep, SendSteps, RSessionStep DEF Next

-----------------------------------------------------------------------------
(* What the invariant says.                                                *)

(* The invariant implies type correctness. *)
LEMMA IInvTypeOK == IInv => TypeOK
<1> SUFFICES ASSUME IInv PROVE TypeOK
  OBVIOUS
<1>1. Types /\ \A c \in Client : Connected(c)
  BY DEF IInv
<1>2. ASSUME NEW k \in Key, NEW o \in Range(store[k]) PROVE o.kind \in {"raw", "sfs"}
  <2>1. store[k] \in Seq(Storable) BY <1>1 DEF Types
  <2>2. o \in Storable BY <2>1 DEF Range
  <2> QED BY <2>2, StorableIs
<1>3. ASSUME NEW c \in Client, req[c] # NULL PROVE req[c].r \in Request /\ req[c].sfs \in BOOLEAN
  BY <1>1, <1>3 DEF Types, Asked
<1>4. ASSUME NEW c \in Client
      PROVE  /\ cli[c] = "header" => Len(buf[c]) < BufSize
             /\ cli[c] = "payload" => Len(buf[c]) < pl[c]
  <2>1. buf[c] \in Seq(Sym) /\ Len(buf[c]) \in Nat BY <1>1 DEF Types
  <2>2. /\ cli[c] = "header" => Len(buf[c]) <= BufSize - 8
        /\ cli[c] = "payload" => Len(buf[c]) < pl[c]
    BY <1>1 DEF Connected, Connection
  <2> QED BY <2>1, <2>2, OsrvAssumption
<1> QED BY <1>1, <1>2, <1>3, <1>4 DEF TypeOK, Types

(* It implies that PUT stores what it announced. *)
LEMMA IInvPutStored == IInv => PutStored
<1> SUFFICES ASSUME IInv PROVE PutStored
  OBVIOUS
<1>1. ASSUME NEW c \in Client, Done(c), req[c].r.cmd = "PUT", result[c] = Status(OK)
      PROVE  \E v \in cand[c] \ {NULL} :
               v.kind = "raw" /\ v.bytes = Take(req[c].r.bytes, atol(req[c].r.size))
  <2> DEFINE v == PutObject(req[c].r)
  <2>1. v \in cand[c] BY <1>1 DEF IInv, Connected, Connection, Done
  <2>2. v.kind = "raw" /\ v.bytes = Take(req[c].r.bytes, atol(req[c].r.size)) BY DEF PutObject
  <2>3. cli[c] # "closed" BY <1>1 DEF Done
  <2>4. req[c].r \in Request BY <2>3, MadeRequest
  <2>5. v \in Object
    <3>1. Take(req[c].r.bytes, atol(req[c].r.size)) \in Seq(Byte) BY <2>4, RequestIs, TakeIs
    <3> QED BY <3>1 DEF PutObject, Object
  <2>6. v # NULL BY <2>5, OsrvAssumption
  <2> QED BY <2>1, <2>2, <2>6
<1>2. ASSUME NEW k \in Key, NEW i \in DOMAIN store[k]
      PROVE  \/ store[k][i] \in Value
             \/ \E r \in Request : r.cmd = "PUT" /\ store[k][i].bytes = Take(r.bytes, atol(r.size))
  <2>1. store[k] \in Seq(Storable) BY DEF IInv, Types
  <2>2. store[k][i] \in Storable BY <2>1
  <2> QED BY <2>2 DEF Storable, PutObject
<1> QED BY <1>1, <1>2 DEF PutStored

(* It implies that answers are true. *)
LEMMA IInvAnswerTrue == IInv => AnswerTrue
<1> SUFFICES ASSUME IInv, NEW c \in Client, Done(c), req[c].r.cmd \in Lookup
             PROVE  Truth(req[c], result[c], cand[c])
  BY DEF AnswerTrue, Truth, Mismatch, Lookup
<1>1. cli[c] = "done"
  BY DEF Done
<1>2. Delivers(srv[c], cli[c], req[c], buf[c], down[c], pl[c], result[c], cand[c])
  BY AnswerAssumption DEF IInv, Connected, Connection
<1> QED BY <1>1, <1>2 DEF Delivers

(* It implies that both ends agree where a response ends. *)
LEMMA IInvInStep == IInv => InStep
<1> SUFFICES ASSUME IInv, NEW c \in Client, Done(c), ~Mismatch(c), Exact(req[c])
             PROVE  down[c] = <<>>
  BY DEF InStep, Exact
<1>1. cli[c] = "done"
  BY DEF Done
<1>2. Delivers(srv[c], cli[c], req[c], buf[c], down[c], pl[c], result[c], cand[c])
  BY AnswerAssumption DEF IInv, Connected, Connection
<1> QED BY <1>1, <1>2 DEF Delivers, Mismatch

(* The invariant of the connections and the store is inductive. *)
THEOREM InvariantHolds == Spec => []IInv
<1>1. Init => IInv
  BY InitIInv
<1>2. IInv /\ [Next]_vars => IInv'
  BY NextIInv
<1> QED BY <1>1, <1>2, PTL DEF Spec

(* Type correctness, with the bounds of C_ask's buffers: at no moment has it
   more of a response line than buf holds, nor as much of a payload as it still
   waits for, whatever the server sends and however recv cuts it. *)
THEOREM TypeCorrect == Spec => []TypeOK
<1>1. IInv => TypeOK
  BY IInvTypeOK
<1> QED BY <1>1, InvariantHolds, PTL

(* A PUT that os.ask sees answered with OK has stored the announced bytes under
   its key, and nothing in the store is a part of what was to be stored. *)
THEOREM PutsAreStored == Spec => []PutStored
<1>1. IInv => PutStored
  BY IInvPutStored
<1> QED BY <1>1, InvariantHolds, PTL

(* What os.ask returns for GET, HAS and DEL was true of the store between the
   request and the answer. *)
THEOREM AnswersAreTrue == Spec => []AnswerTrue
<1>1. IInv => AnswerTrue
  BY IInvAnswerTrue
<1> QED BY <1>1, InvariantHolds, PTL

(* When C_ask has a response nothing of it is left on the connection, so that
   the next request is answered from its own response. *)
THEOREM StaysInStep == Spec => []InStep
<1>1. IInv => InStep
  BY IInvInStep
<1> QED BY <1>1, InvariantHolds, PTL
=============================================================================
