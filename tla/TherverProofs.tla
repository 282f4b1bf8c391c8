--------------------------- MODULE TherverProofs ---------------------------
(***************************************************************************)
(* The threaded server is right for any number of clients, descriptors,    *)
(* entries and workers: proofs about module Therver.                       *)
(*                                                                         *)
(* The circular list (Ring) and the descriptors (Sockets) are argued about *)
(* separately, as facts on functions; what a step does to the list does    *)
(* not change which entries are live, and what it does to a descriptor     *)
(* does not touch the list.  Threads ties the places of the threads to the *)
(* entries they hold.                                                      *)
(***************************************************************************)
EXTENDS Therver, ListLemmas, FiniteSetTheorems

-----------------------------------------------------------------------------
(* The circular list.                                                      *)

(* The i-th element of the circular list of o, the sentinel at both ends. *)
Element(o, i) == IF i \in DOMAIN o THEN o[i] ELSE ROOT

(* The pointers nx, pv form the circular list of o. *)
Ring(nx, pv, o) ==
  \A i \in 0 .. Len(o) : /\ nx[Element(o, i)] = Element(o, i + 1)
                         /\ pv[Element(o, i + 1)] = Element(o, i)

Pointers == [Ent \cup {ROOT} -> Ent \cup {ROOT, NULL}]

(* Going once around the circular list meets every element once. *)
LEMMA ElementOnce ==
  ASSUME NEW o \in Seq(Ent), IsInjective(o)
  PROVE  /\ Len(o) \in Nat /\ DOMAIN o = 1 .. Len(o)
         /\ Element(o, 0) = ROOT
         /\ Element(o, Len(o) + 1) = ROOT
         /\ \A i \in 1 .. Len(o) : /\ Element(o, i) = o[i]
                                   /\ Element(o, i) \in Range(o)
                                   /\ Element(o, i) \in Ent
                                   /\ Element(o, i) # ROOT
         /\ \A i, j \in 0 .. Len(o) : Element(o, i) = Element(o, j) => i = j
<1>1. Len(o) \in Nat /\ DOMAIN o = 1 .. Len(o)
  OBVIOUS
<1>2. Element(o, 0) = ROOT /\ Element(o, Len(o) + 1) = ROOT
  BY <1>1 DEF Element
<1>3. ASSUME NEW i \in 1 .. Len(o)
      PROVE  /\ Element(o, i) = o[i]
             /\ Element(o, i) \in Range(o)
             /\ Element(o, i) \in Ent
             /\ Element(o, i) # ROOT
  <2>1. Element(o, i) = o[i] BY <1>1 DEF Element
  <2>2. o[i] \in Ent OBVIOUS
  <2>3. o[i] \in Range(o) BY <1>1 DEF Range
  <2> QED BY <2>1, <2>2, <2>3, TherverAssumption
<1>4. ASSUME NEW i \in 0 .. Len(o), NEW j \in 0 .. Len(o), Element(o, i) = Element(o, j)
      PROVE  i = j
  <2>1. CASE i = 0 \/ j = 0
    BY <1>1, <1>2, <1>3, <1>4, <2>1
  <2>2. CASE i # 0 /\ j # 0
    <3>1. i \in 1 .. Len(o) /\ j \in 1 .. Len(o) BY <1>1, <2>2
    <3>2. o[i] = o[j] BY <1>3, <1>4, <3>1
    <3> QED BY <1>1, <3>1, <3>2 DEF IsInjective
  <2> QED BY <2>1, <2>2
<1> QED BY <1>1, <1>2, <1>3, <1>4

(* Pointers of entries that are not on the list do not matter to it. *)
LEMMA RingFrame ==
  ASSUME NEW o \in Seq(Ent), IsInjective(o),
         NEW nx, NEW pv, NEW nx2, NEW pv2, Ring(nx, pv, o),
         \A x \in Range(o) \cup {ROOT} : nx2[x] = nx[x] /\ pv2[x] = pv[x]
  PROVE  Ring(nx2, pv2, o)
<1> SUFFICES ASSUME NEW i \in 0 .. Len(o)
             PROVE  /\ nx2[Element(o, i)] = Element(o, i + 1)
                    /\ pv2[Element(o, i + 1)] = Element(o, i)
  BY DEF Ring
<1>1. Element(o, i) \in Range(o) \cup {ROOT}
  <2>1. CASE i = 0 BY <2>1, ElementOnce
  <2>2. CASE i # 0 BY <2>2, ElementOnce
  <2> QED BY <2>1, <2>2
<1>2. Element(o, i + 1) \in Range(o) \cup {ROOT}
  <2>0. Len(o) \in Nat BY ElementOnce
  <2>1. CASE i = Len(o) BY <2>1, ElementOnce
  <2>2. CASE i # Len(o)
    <3>1. i + 1 \in 1 .. Len(o) BY <2>0, <2>2
    <3> QED BY <3>1, ElementOnce
  <2> QED BY <2>1, <2>2
<1> QED BY <1>1, <1>2 DEF Ring

(* The list is empty exactly when the sentinel points at itself; otherwise it
   points at the first and back at the last entry. *)
LEMMA RingEnds ==
  ASSUME NEW o \in Seq(Ent), IsInjective(o), NEW nx, NEW pv, Ring(nx, pv, o)
  PROVE  /\ nx[ROOT] = ROOT <=> o = <<>>
         /\ o # <<>> => nx[ROOT] = Head(o) /\ Head(o) \in Ent
         /\ pv[ROOT] = Element(o, Len(o))
<1>0. Len(o) \in Nat /\ Element(o, 0) = ROOT /\ Element(o, Len(o) + 1) = ROOT
  BY ElementOnce
<1>1. nx[ROOT] = Element(o, 1)
  <2>1. nx[Element(o, 0)] = Element(o, 0 + 1) BY <1>0 DEF Ring
  <2> QED BY <1>0, <2>1
<1>2. pv[ROOT] = Element(o, Len(o))
  BY <1>0 DEF Ring
<1>3. CASE o = <<>>
  BY <1>1, <1>2, <1>3 DEF Element
<1>4. CASE o # <<>>
  <2>1. 1 \in 1 .. Len(o) /\ Head(o) = o[1] BY <1>4
  <2>2. Element(o, 1) = Head(o) /\ Element(o, 1) # ROOT /\ Element(o, 1) \in Ent
    BY <2>1, ElementOnce
  <2> QED BY <1>1, <1>2, <1>4, <2>2
<1> QED BY <1>3, <1>4

(* add_task puts an entry that is not on the list before the sentinel. *)
LEMMA RingAppend ==
  ASSUME NEW o \in Seq(Ent), IsInjective(o), NEW e \in Ent, e \notin Range(o),
         NEW nx \in Pointers, NEW pv \in Pointers, Ring(nx, pv, o)
  PROVE  Ring([nx EXCEPT ![e] = ROOT, ![pv[ROOT]] = e],
              [pv EXCEPT ![e] = pv[ROOT], ![ROOT] = e], Append(o, e))
<1> DEFINE last == pv[ROOT]
           n == Len(o)
           t == Append(o, e)
           nx2 == [nx EXCEPT ![e] = ROOT, ![last] = e]
           pv2 == [pv EXCEPT ![e] = last, ![ROOT] = e]
<1>1. n \in Nat /\ last = Element(o, n)
  BY ElementOnce, RingEnds
<1>2. last \in Ent \cup {ROOT} /\ last # e /\ e # ROOT
  <2>1. CASE n = 0 BY <1>1, <2>1, ElementOnce, TherverAssumption
  <2>2. CASE n # 0
    <3>1. n \in 1 .. n BY <1>1, <2>2
    <3>2. last \in Ent /\ last \in Range(o) BY <1>1, <3>1, ElementOnce
    <3> QED BY <3>2, TherverAssumption
  <2> QED BY <2>1, <2>2
<1>3. /\ nx2[e] = ROOT /\ nx2[last] = e
      /\ \A x \in Ent \cup {ROOT} : x # e /\ x # last => nx2[x] = nx[x]
      /\ pv2[e] = last /\ pv2[ROOT] = e
      /\ \A x \in Ent \cup {ROOT} : x # e /\ x # ROOT => pv2[x] = pv[x]
  BY <1>2 DEF Pointers
<1>4. Len(t) = n + 1 /\ t[n + 1] = e /\ \A i \in 1 .. n : t[i] = o[i]
  OBVIOUS
<1>5. DOMAIN t = 1 .. n + 1 /\ DOMAIN o = 1 .. n
  BY <1>1, <1>4
<1>6. /\ \A i \in 0 .. n : Element(t, i) = Element(o, i)
      /\ Element(t, n + 1) = e
      /\ Element(t, n + 2) = ROOT
  BY <1>1, <1>4, <1>5 DEF Element
<1> HIDE DEF t, nx2, pv2, last, n
<1> SUFFICES ASSUME NEW i \in 0 .. n + 1
             PROVE  nx2[Element(t, i)] = Element(t, i + 1) /\ pv2[Element(t, i + 1)] = Element(t, i)
  BY <1>4 DEF Ring, t, nx2, pv2, last
<1>7. CASE i = n + 1
  BY <1>1, <1>3, <1>6, <1>7
<1>8. CASE i = n
  BY <1>1, <1>3, <1>6, <1>8
<1>9. CASE i < n
  <2>1. i \in 0 .. n /\ i + 1 \in 1 .. n /\ i + 1 \in 0 .. n /\ n \in 0 .. n /\ i # n
    BY <1>1, <1>9
  <2>2. Element(t, i) = Element(o, i) /\ Element(t, i + 1) = Element(o, i + 1)
    BY <1>6, <2>1
  <2>3. Element(o, i) # last
    BY <1>1, <2>1, ElementOnce DEF n
  <2>4. Element(o, i) \in Ent \cup {ROOT} /\ Element(o, i) # e
    <3>1. CASE i = 0 BY <3>1, <1>2, ElementOnce
    <3>2. CASE i # 0
      <4>1. i \in 1 .. n BY <1>1, <2>1, <3>2
      <4> QED BY <4>1, ElementOnce DEF n
    <3> QED BY <3>1, <3>2
  <2>5. Element(o, i + 1) \in Ent /\ Element(o, i + 1) # e /\ Element(o, i + 1) # ROOT
    BY <2>1, ElementOnce DEF n
  <2>6. nx[Element(o, i)] = Element(o, i + 1) /\ pv[Element(o, i + 1)] = Element(o, i)
    BY <2>1 DEF Ring, n
  <2> QED BY <1>3, <2>2, <2>3, <2>4, <2>5, <2>6
<1> QED BY <1>1, <1>7, <1>8, <1>9

(* worker_take unlinks the first entry. *)
LEMMA RingPop ==
  ASSUME NEW o \in Seq(Ent), IsInjective(o), o # <<>>,
         NEW nx \in Pointers, NEW pv \in Pointers, Ring(nx, pv, o)
  PROVE  /\ nx[nx[ROOT]] \in Ent \cup {ROOT}
         /\ Ring([nx EXCEPT ![ROOT] = nx[nx[ROOT]]],
                 [pv EXCEPT ![nx[nx[ROOT]]] = ROOT], Tail(o))
<1> DEFINE n == Len(o)
           second == nx[nx[ROOT]]
           t == Tail(o)
           nx2 == [nx EXCEPT ![ROOT] = second]
           pv2 == [pv EXCEPT ![second] = ROOT]
<1>1. n \in Nat /\ n >= 1 /\ 1 \in 1 .. n /\ 1 \in 0 .. n
  OBVIOUS
<1>2. second = Element(o, 2)
  <2>1. nx[ROOT] = Element(o, 1)
    BY <1>1, RingEnds, ElementOnce
  <2>2. nx[Element(o, 1)] = Element(o, 1 + 1)
    BY <1>1 DEF Ring
  <2> QED BY <2>1, <2>2
<1>3. second \in Ent \cup {ROOT}
  <2> HIDE DEF n, second
  <2>1. CASE n = 1
    <3>1. Element(o, 2) = ROOT BY <2>1, ElementOnce DEF n
    <3> QED BY <1>2, <3>1
  <2>2. CASE n # 1
    <3>1. 2 \in 1 .. n BY <1>1, <2>2
    <3> QED BY <1>2, <3>1, ElementOnce DEF n
  <2> QED BY <2>1, <2>2
<1>4. /\ nx2[ROOT] = second
      /\ \A x \in Ent \cup {ROOT} : x # ROOT => nx2[x] = nx[x]
      /\ pv2[second] = ROOT
      /\ \A x \in Ent \cup {ROOT} : x # second => pv2[x] = pv[x]
  BY <1>3 DEF Pointers
<1>5. Len(t) = n - 1 /\ \A i \in 1 .. n - 1 : t[i] = o[i + 1]
  OBVIOUS
<1>6. DOMAIN t = 1 .. n - 1 /\ DOMAIN o = 1 .. n
  BY <1>1, <1>5
<1>7. Element(t, 0) = ROOT /\ \A i \in 1 .. n : Element(t, i) = Element(o, i + 1)
  BY <1>1, <1>5, <1>6 DEF Element
<1> HIDE DEF t, nx2, pv2, second, n
<1>8. ASSUME NEW i \in 0 .. n - 1
      PROVE  nx2[Element(t, i)] = Element(t, i + 1) /\ pv2[Element(t, i + 1)] = Element(t, i)
  <2>1. CASE i = 0
    <3>1. Element(t, 1) = second BY <1>1, <1>2, <1>7
    <3> QED BY <1>4, <1>7, <2>1, <3>1
  <2>2. CASE i # 0
    <3>1. i \in 1 .. n /\ i + 1 \in 1 .. n /\ i + 1 \in 0 .. n /\ 2 \in 1 .. n /\ 2 \in 0 .. n
      BY <1>1, <2>2
    <3>2. Element(t, i) = Element(o, i + 1) /\ Element(t, i + 1) = Element(o, i + 2)
      BY <1>7, <3>1
    <3>3. Element(o, i + 1) \in Ent /\ Element(o, i + 1) # ROOT
      BY <3>1, ElementOnce DEF n
    <3>4. Element(o, i + 2) \in Ent \cup {ROOT} /\ Element(o, i + 2) # second
      <4>1. CASE i + 1 = n
        <5>1. Element(o, i + 2) = ROOT BY <4>1, ElementOnce DEF n
        <5>2. second # ROOT BY <1>2, <3>1, ElementOnce DEF n
        <5> QED BY <5>1, <5>2
      <4>2. CASE i + 1 # n
        <5>1. i + 2 \in 1 .. n /\ i + 2 \in 0 .. n /\ i + 2 # 2 BY <1>1, <2>2, <3>1, <4>2
        <5>2. Element(o, i + 2) \in Ent BY <5>1, ElementOnce DEF n
        <5>3. Element(o, i + 2) # Element(o, 2) BY <3>1, <5>1, ElementOnce DEF n
        <5> QED BY <1>2, <5>2, <5>3
      <4> QED BY <4>1, <4>2
    <3>5. nx[Element(o, i + 1)] = Element(o, i + 2) /\ pv[Element(o, i + 2)] = Element(o, i + 1)
      BY <3>1 DEF Ring, n
    <3> QED BY <1>4, <3>2, <3>3, <3>4, <3>5
  <2> QED BY <2>1, <2>2
<1> QED BY <1>3, <1>5, <1>8 DEF Ring, t, nx2, pv2, second

-----------------------------------------------------------------------------
(* Descriptors.                                                            *)

Files == [FD -> Client \cup {NULL}]
Socks == [Ent -> FD \cup {NULL}]

(* The entries of L own the open descriptors: the socket of an entry is its
   client's connection, no two entries have the same one, and an open connection
   has an owner unless it is one of those given up, lo, which have none. *)
Owns(L, so, fi, pe, lo) ==
  /\ \A e \in L : so[e] # NULL => fi[so[e]] = pe[e] /\ pe[e] # NULL
  /\ \A e, d \in L : e # d /\ so[e] # NULL => so[e] # so[d]
  /\ \A f \in FD : fi[f] # NULL => f \in lo \/ \E e \in L : so[e] = f
  /\ \A f \in lo : fi[f] # NULL /\ \A e \in L : so[e] # f

(* accept: a new entry gets a free descriptor. *)
LEMMA SocketOpened ==
  ASSUME NEW L \in SUBSET Ent, NEW so \in Socks, NEW fi \in Files,
         NEW pe \in [Ent -> Client \cup {NULL}], NEW lo \in SUBSET FD,
         Owns(L, so, fi, pe, lo),
         NEW e \in Ent, e \notin L, NEW f \in FD, fi[f] = NULL, NEW c \in Client
  PROVE  Owns(L \cup {e}, [so EXCEPT ![e] = f], [fi EXCEPT ![f] = c], [pe EXCEPT ![e] = c], lo)
<1> DEFINE so2 == [so EXCEPT ![e] = f]
           fi2 == [fi EXCEPT ![f] = c]
           pe2 == [pe EXCEPT ![e] = c]
<1>1. /\ so2[e] = f /\ \A x \in L : so2[x] = so[x]
      /\ fi2[f] = c /\ \A g \in FD : g # f => fi2[g] = fi[g]
      /\ pe2[e] = c /\ \A x \in L : pe2[x] = pe[x]
      /\ f # NULL /\ c # NULL
  BY TherverAssumption DEF Socks, Files
<1>2. \A x \in L : so[x] # NULL => so[x] \in FD /\ so[x] # f
  BY DEF Owns, Socks
<1> HIDE DEF so2, fi2, pe2
<1>3. ASSUME NEW x \in L \cup {e}, so2[x] # NULL
      PROVE  fi2[so2[x]] = pe2[x] /\ pe2[x] # NULL
  BY <1>1, <1>2, <1>3 DEF Owns
<1>4. ASSUME NEW x \in L \cup {e}, NEW y \in L \cup {e}, x # y, so2[x] # NULL
      PROVE  so2[x] # so2[y]
  BY <1>1, <1>2, <1>4 DEF Owns
<1>5. ASSUME NEW g \in FD, fi2[g] # NULL
      PROVE  g \in lo \/ \E x \in L \cup {e} : so2[x] = g
  BY <1>1, <1>5 DEF Owns
<1>6. ASSUME NEW g \in lo
      PROVE  fi2[g] # NULL /\ \A x \in L \cup {e} : so2[x] # g
  <2>1. g \in FD /\ g # f BY DEF Owns
  <2> QED BY <1>1, <2>1 DEF Owns
<1> QED BY <1>3, <1>4, <1>5, <1>6 DEF Owns, so2, fi2, pe2

(* The callback closes the socket of its entry and says so. *)
LEMMA SocketClosed ==
  ASSUME NEW L \in SUBSET Ent, NEW so \in Socks, NEW fi \in Files,
         NEW pe \in [Ent -> Client \cup {NULL}], NEW lo \in SUBSET FD,
         Owns(L, so, fi, pe, lo),
         NEW e \in L, so[e] # NULL
  PROVE  Owns(L, [so EXCEPT ![e] = NULL], [fi EXCEPT ![so[e]] = NULL], pe, lo)
<1> DEFINE so2 == [so EXCEPT ![e] = NULL]
           fi2 == [fi EXCEPT ![so[e]] = NULL]
<1>1. /\ so2[e] = NULL /\ \A x \in L : x # e => so2[x] = so[x]
      /\ fi2[so[e]] = NULL /\ \A g \in FD : g # so[e] => fi2[g] = fi[g]
      /\ \A x \in L : so[x] # NULL => so[x] \in FD
  BY DEF Socks, Files
<1> HIDE DEF so2, fi2
<1>2. ASSUME NEW x \in L, so2[x] # NULL
      PROVE  fi2[so2[x]] = pe[x] /\ pe[x] # NULL
  BY <1>1, <1>2 DEF Owns
<1>3. ASSUME NEW x \in L, NEW y \in L, x # y, so2[x] # NULL
      PROVE  so2[x] # so2[y]
  BY <1>1, <1>3 DEF Owns
<1>4. ASSUME NEW g \in FD, fi2[g] # NULL
      PROVE  g \in lo \/ \E x \in L : so2[x] = g
  BY <1>1, <1>4 DEF Owns
<1>5. ASSUME NEW g \in lo
      PROVE  fi2[g] # NULL /\ \A x \in L : so2[x] # g
  <2>1. g \in FD /\ g # so[e] /\ g # NULL BY TherverAssumption DEF Owns
  <2> QED BY <1>1, <2>1 DEF Owns
<1> QED BY <1>2, <1>3, <1>4, <1>5 DEF Owns, so2, fi2

(* The callback of ohsrv.c says so without having closed it. *)
LEMMA SocketLost ==
  ASSUME NEW L \in SUBSET Ent, NEW so \in Socks, NEW fi, NEW pe,
         NEW lo \in SUBSET FD, Owns(L, so, fi, pe, lo),
         NEW e \in L, so[e] # NULL, pe[e] # NULL
  PROVE  Owns(L, [so EXCEPT ![e] = NULL], fi, pe, lo \cup {so[e]})
<1> DEFINE so2 == [so EXCEPT ![e] = NULL]
           lo2 == lo \cup {so[e]}
<1>1. so2[e] = NULL /\ \A x \in L : x # e => so2[x] = so[x]
  BY DEF Socks
<1>2. NULL \notin lo2
  BY TherverAssumption
<1> HIDE DEF so2
<1>3. \A x \in L : so2[x] # NULL => fi[so2[x]] = pe[x] /\ pe[x] # NULL
  BY <1>1 DEF Owns
<1>4. \A x, y \in L : x # y /\ so2[x] # NULL => so2[x] # so2[y]
  BY <1>1 DEF Owns
<1>5. \A f \in FD : fi[f] # NULL => f \in lo2 \/ \E x \in L : so2[x] = f
  BY <1>1 DEF Owns
<1>6. ASSUME NEW f \in lo2
      PROVE  fi[f] # NULL /\ \A x \in L : so2[x] # f
  BY <1>1, <1>2 DEF Owns
<1> QED BY <1>3, <1>4, <1>5, <1>6 DEF Owns, so2

(* The clean-up frees an entry whose socket the callback has closed ... *)
LEMMA EntryFreed ==
  ASSUME NEW L \in SUBSET Ent, NEW so \in Socks, NEW fi, NEW pe, NEW lo \in SUBSET FD,
         Owns(L, so, fi, pe, lo), NEW e \in L, so[e] = NULL
  PROVE  Owns(L \ {e}, so, fi, pe, lo)
<1>1. ASSUME NEW g \in FD, fi[g] # NULL
      PROVE  g \in lo \/ \E x \in L \ {e} : so[x] = g
  <2>1. CASE g \in lo BY <2>1
  <2>2. CASE g \notin lo
    <3>1. PICK x \in L : so[x] = g BY <1>1, <2>2 DEF Owns
    <3>2. g # NULL BY TherverAssumption
    <3> QED BY <3>1, <3>2
  <2> QED BY <2>1, <2>2
<1> QED BY <1>1 DEF Owns

(* ... and closes the socket of one that still has it. *)
LEMMA EntryClosed ==
  ASSUME NEW L \in SUBSET Ent, NEW so \in Socks, NEW fi \in Files,
         NEW pe \in [Ent -> Client \cup {NULL}], NEW lo \in SUBSET FD,
         Owns(L, so, fi, pe, lo),
         NEW e \in L, so[e] # NULL
  PROVE  Owns(L \ {e}, so, [fi EXCEPT ![so[e]] = NULL], pe, lo)
<1> DEFINE fi2 == [fi EXCEPT ![so[e]] = NULL]
<1>1. /\ fi2[so[e]] = NULL /\ \A g \in FD : g # so[e] => fi2[g] = fi[g]
      /\ \A x \in L : so[x] # NULL => so[x] \in FD
  BY DEF Socks, Files
<1> HIDE DEF fi2
<1>2. ASSUME NEW x \in L \ {e}, so[x] # NULL
      PROVE  fi2[so[x]] = pe[x] /\ pe[x] # NULL
  BY <1>1, <1>2 DEF Owns
<1>3. ASSUME NEW g \in FD, fi2[g] # NULL
      PROVE  g \in lo \/ \E x \in L \ {e} : so[x] = g
  BY <1>1, <1>3 DEF Owns
<1>4. ASSUME NEW g \in lo
      PROVE  fi2[g] # NULL /\ \A x \in L \ {e} : so[x] # g
  <2>1. g \in FD /\ g # so[e] BY DEF Owns
  <2> QED BY <1>1, <2>1 DEF Owns
<1> QED BY <1>2, <1>3, <1>4 DEF Owns, fi2

-----------------------------------------------------------------------------
(* The entries of the workers.                                             *)

Serves(m) == {m[w] : w \in Worker} \ {NULL}

(* A worker that has none takes an entry. *)
LEMMA ServesOneMore ==
  ASSUME NEW m \in [Worker -> Ent \cup {NULL}], NEW w \in Worker, m[w] = NULL, NEW e \in Ent
  PROVE  Serves([m EXCEPT ![w] = e]) = Serves(m) \cup {e}
<1> DEFINE m2 == [m EXCEPT ![w] = e]
<1>1. m2[w] = e /\ \A v \in Worker : v # w => m2[v] = m[v]
  OBVIOUS
<1>2. e # NULL
  BY TherverAssumption
<1> HIDE DEF m2
<1>3. Serves(m2) = Serves(m) \cup {e}
  BY <1>1, <1>2 DEF Serves
<1> QED BY <1>3 DEF m2

(* A worker gives up the entry it alone has. *)
LEMMA ServesOneLess ==
  ASSUME NEW m \in [Worker -> Ent \cup {NULL}], NEW w \in Worker, m[w] # NULL,
         \A v, u \in Worker : v # u /\ m[v] # NULL => m[v] # m[u]
  PROVE  Serves([m EXCEPT ![w] = NULL]) = Serves(m) \ {m[w]}
<1> DEFINE m2 == [m EXCEPT ![w] = NULL]
<1>1. m2[w] = NULL /\ \A v \in Worker : v # w => m2[v] = m[v]
  OBVIOUS
<1> HIDE DEF m2
<1>2. Serves(m2) = Serves(m) \ {m[w]}
  BY <1>1 DEF Serves
<1> QED BY <1>2 DEF m2

-----------------------------------------------------------------------------
(* The inductive invariant.                                                *)

(* A thread has an entry exactly at the places where the code has one in a
   local variable; an entry that no callback has seen has its socket. *)
Threads ==
  /\ acceptor.pc = "add" <=> acceptor.e # NULL
  /\ \A w \in Worker : /\ wpc[w] \in {"process", "cleanup"} <=> me[w] # NULL
                       /\ wpc[w] = "process" => s[me[w]] # NULL
  /\ \A e \in Held \cup Range(order) : s[e] # NULL

Sockets == Owns(Live, s, file, peer, lost)

(* No entry is in two places. *)
Apart ==
  /\ Range(order) \cap (Serving \cup Held) = {}
  /\ Serving \cap Held = {}
  /\ \A w, v \in Worker : w # v /\ me[w] # NULL => me[w] # me[v]

IInv == TypeOK /\ ListRep /\ Threads /\ Sockets /\ NoIdleWorker

(* ListRep in terms of Ring. *)
LEMMA ListIsRing ==
  /\ ListRep <=> Ring(next, prev, order) /\ IsInjective(order) /\ Apart
  /\ ListRep' <=> Ring(next', prev', order') /\ IsInjective(order') /\ Apart'
  BY DEF ListRep, Ring, Element, At, Apart

(* The live entries are entries. *)
LEMMA LiveEntries ==
  ASSUME TypeOK
  PROVE  Live \in SUBSET Ent /\ Range(order) \subseteq Ent /\ Serving \subseteq Ent /\ Held \subseteq Ent
<1>1. Range(order) \subseteq Ent
  BY DEF TypeOK, Range
<1>2. Serving \subseteq Ent /\ Held \subseteq Ent
  BY DEF TypeOK, Serving, Held
<1> QED BY <1>1, <1>2 DEF Live

(* The invariant holds initially. *)
LEMMA InitIInv == Init => IInv
<1> SUFFICES ASSUME Init PROVE IInv
  OBVIOUS
<1>1. TypeOK
  BY DEF Init, TypeOK
<1>2. order = <<>> /\ Range(order) = {} /\ IsInjective(order)
  BY DEF Init, Range, IsInjective
<1>3. Serving = {} /\ Held = {} /\ Live = {}
  BY <1>2 DEF Init, Serving, Held, Live
<1>4. ListRep
  <2>1. Apart BY <1>2, <1>3 DEF Init, Apart
  <2>2. Ring(next, prev, order) BY <1>2 DEF Init, Ring, Element
  <2> QED BY <1>2, <2>1, <2>2, ListIsRing
<1>5. Threads
  BY <1>2, <1>3 DEF Init, Threads
<1>6. Sockets
  BY <1>3 DEF Init, Sockets, Owns
<1>7. NoIdleWorker
  BY <1>2 DEF NoIdleWorker
<1> QED BY <1>1, <1>4, <1>5, <1>6, <1>7 DEF IInv

(* Steps that move the accept thread between places where it has no entry. *)
LEMMA AcceptorStep ==
  ASSUME IInv, acceptor.pc # "add",
         NEW pc \in {"loop", "accept", "done"}, AcceptorGoes(pc),
         UNCHANGED <<file, lists, s, peer, wpc, me, inherited, lost>>,
         active' \in BOOLEAN, listening' \in BOOLEAN, backlog' \in SUBSET Client
  PROVE  IInv'
<1> USE DEF IInv
<1>1. TypeOK'
  BY DEF TypeOK, AcceptorGoes, lists
<1>2. Held' = Held /\ Serving' = Serving /\ order' = order /\ Live' = Live
  BY DEF Threads, Held, Serving, Live, AcceptorGoes, lists
<1>3. ListRep'
  BY <1>2, ListIsRing DEF Apart, lists
<1>4. Threads'
  BY <1>2 DEF Threads, AcceptorGoes
<1>5. Sockets'
  BY <1>2 DEF Sockets
<1>6. NoIdleWorker'
  BY <1>2 DEF NoIdleWorker
<1> QED BY <1>1, <1>3, <1>4, <1>5, <1>6

(* Steps of a worker that only move it. *)
LEMMA WorkerStep ==
  ASSUME IInv, NEW w \in Worker,
         NEW pc \in {"check", "wait", "cleanup", "exit"}, wpc' = [wpc EXCEPT ![w] = pc],
         wpc[w] \in {"process", "cleanup"} <=> pc = "cleanup",
         pc = "wait" => order = <<>>,
         UNCHANGED <<active, listening, backlog, file, lists, s, peer, acceptor, me, inherited, lost>>
  PROVE  IInv'
<1> USE DEF IInv
<1>0. wpc'[w] = pc /\ \A v \in Worker : v # w => wpc'[v] = wpc[v]
  BY DEF TypeOK
<1>1. TypeOK'
  BY DEF TypeOK, lists
<1>2. Held' = Held /\ Serving' = Serving /\ order' = order /\ Live' = Live
  BY DEF Held, Serving, Live, lists
<1>3. ListRep'
  BY <1>2, ListIsRing DEF Apart, lists
<1>4. Threads'
  BY <1>0, <1>2 DEF Threads
<1>5. Sockets'
  BY <1>2 DEF Sockets
<1>6. NoIdleWorker'
  BY <1>0, <1>2 DEF NoIdleWorker
<1> QED BY <1>1, <1>3, <1>4, <1>5, <1>6

(* Steps that touch neither threads nor entries. *)
LEMMA OutsideStep ==
  ASSUME IInv, UNCHANGED <<file, lists, s, peer, acceptor, wpc, me, lost>>,
         active' \in BOOLEAN, listening' \in BOOLEAN, backlog' \in SUBSET Client,
         inherited' \in SUBSET Client
  PROVE  IInv'
<1> USE DEF IInv
<1>1. TypeOK'
  BY DEF TypeOK, lists
<1>2. Held' = Held /\ Serving' = Serving /\ order' = order /\ Live' = Live
  BY DEF Held, Serving, Live, lists
<1>3. ListRep'
  BY <1>2, ListIsRing DEF Apart, lists
<1>4. Threads'
  BY <1>2 DEF Threads
<1>5. Sockets'
  BY <1>2 DEF Sockets
<1>6. NoIdleWorker'
  BY <1>2 DEF NoIdleWorker
<1> QED BY <1>1, <1>3, <1>4, <1>5, <1>6

(* accept keeps the invariant. *)
LEMMA AcceptStep ==
  ASSUME IInv, NEW c \in Client, NEW f \in FD, NEW e \in Ent, accept(c, f, e)
  PROVE  IInv'
<1> USE DEF IInv
<1>0. e \notin Live /\ file[f] = NULL /\ acceptor.pc = "accept" /\ acceptor' = [pc |-> "add", e |-> e]
  BY DEF accept, AcceptorAt
<1>1. TypeOK'
  BY DEF TypeOK, accept
<1>2. /\ order' = order /\ me' = me /\ wpc' = wpc
      /\ Held = {} /\ Held' = {e} /\ Serving' = Serving /\ Live' = Live \cup {e}
      /\ e # NULL
  BY <1>0, TherverAssumption DEF accept, Threads, Held, Serving, Live
<1>3. ListRep'
  <2>1. Ring(next, prev, order) /\ IsInjective(order) /\ Apart
    BY ListIsRing
  <2>2. \A x \in Range(order) \cup {ROOT} : next'[x] = next[x] /\ prev'[x] = prev[x]
    <3>1. \A x \in Range(order) \cup {ROOT} : x \in Ent \cup {ROOT} /\ x # e
      BY <1>0, LiveEntries, TherverAssumption DEF Live
    <3> QED BY <3>1 DEF accept, TypeOK
  <2>3. Ring(next', prev', order')
    BY <1>2, <2>1, <2>2, RingFrame DEF TypeOK
  <2>4. Apart'
    BY <1>0, <1>2, <2>1 DEF Apart, Live
  <2> QED BY <1>2, <2>1, <2>3, <2>4, ListIsRing
<1>4. Threads'
  <2>1. s'[e] = f /\ f # NULL /\ \A x \in Ent : x # e => s'[x] = s[x]
    BY TherverAssumption DEF accept, TypeOK
  <2>2. \A w \in Worker : me[w] # NULL => me[w] \in Ent /\ me[w] # e
    BY <1>0 DEF TypeOK, Live, Serving
  <2>3. \A x \in Range(order) : x \in Ent /\ x # e
    BY <1>0, LiveEntries DEF Live
  <2>4. acceptor'.pc = "add" <=> acceptor'.e # NULL
    BY <1>0, <1>2
  <2>5. ASSUME NEW w \in Worker
        PROVE  /\ wpc'[w] \in {"process", "cleanup"} <=> me'[w] # NULL
               /\ wpc'[w] = "process" => s'[me'[w]] # NULL
    BY <1>2, <2>1, <2>2 DEF Threads
  <2>6. \A x \in Held' \cup Range(order') : s'[x] # NULL
    BY <1>2, <2>1, <2>3 DEF Threads
  <2> QED BY <2>4, <2>5, <2>6 DEF Threads
<1>5. Sockets'
  BY <1>0, <1>2, LiveEntries, SocketOpened DEF Sockets, TypeOK, Socks, Files, accept
<1>6. NoIdleWorker'
  BY <1>2 DEF NoIdleWorker
<1> QED BY <1>1, <1>3, <1>4, <1>5, <1>6

(* So does add_task. *)
LEMMA AddTaskStep ==
  ASSUME IInv, add_task
  PROVE  IInv'
<1> USE DEF IInv
<1> DEFINE e == acceptor.e
<1>0. /\ acceptor.pc = "add" /\ e # NULL /\ e \in Ent /\ Held = {e}
      /\ acceptor' = [pc |-> "loop", e |-> NULL]
      /\ UNCHANGED <<active, listening, backlog, file, s, peer, me, inherited, lost>>
      /\ order' = Append(order, e)
  BY DEF add_task, AcceptorAt, AcceptorGoes, Threads, TypeOK, Held
<1>1. Ring(next, prev, order) /\ IsInjective(order) /\ Apart
  BY ListIsRing
<1>2. e \notin Range(order) /\ e \notin Serving
  BY <1>0, <1>1 DEF Apart
<1>3. order' \in Seq(Ent) /\ Range(order') = Range(order) \cup {e} /\ IsInjective(order')
  BY <1>0, <1>1, <1>2, AppendList DEF TypeOK
<1>4. Held' = {} /\ Serving' = Serving /\ Live' = Live
  BY <1>0, <1>3 DEF Held, Serving, Live
<1>5. prev[ROOT] \in Ent \cup {ROOT}
  <2>1. prev[ROOT] = Element(order, Len(order))
    BY <1>1, RingEnds DEF TypeOK
  <2>2. CASE order = <<>>
    BY <2>1, <2>2 DEF Element
  <2>3. CASE order # <<>>
    <3>1. Len(order) \in 1 .. Len(order) BY <2>3 DEF TypeOK
    <3> QED BY <1>1, <2>1, <3>1, ElementOnce DEF TypeOK
  <2> QED BY <2>2, <2>3
<1>6. /\ next' = [next EXCEPT ![e] = ROOT, ![prev[ROOT]] = e]
      /\ prev' = [prev EXCEPT ![e] = prev[ROOT], ![ROOT] = e]
      /\ wpc' = [w \in Worker |-> IF wpc[w] = "wait" THEN "check" ELSE wpc[w]]
  BY DEF add_task, Broadcast
<1> HIDE DEF e
<1>7. TypeOK'
  <2>1. next' \in [Ent \cup {ROOT} -> Ent \cup {ROOT, NULL}]
    BY <1>0, <1>5, <1>6 DEF TypeOK
  <2>2. prev' \in [Ent \cup {ROOT} -> Ent \cup {ROOT, NULL}]
    BY <1>0, <1>5, <1>6 DEF TypeOK
  <2>3. wpc' \in [Worker -> {"check", "wait", "process", "cleanup", "exit"}]
    BY <1>6 DEF TypeOK
  <2>4. acceptor' \in [pc : {"loop", "accept", "add", "done"}, e : Ent \cup {NULL}]
    BY <1>0
  <2> QED BY <1>0, <1>3, <2>1, <2>2, <2>3, <2>4 DEF TypeOK
<1>8. ListRep'
  <2>1. Ring(next', prev', order')
    BY <1>0, <1>1, <1>2, <1>6, RingAppend DEF TypeOK, Pointers
  <2>2. Apart'
    BY <1>0, <1>1, <1>2, <1>3, <1>4 DEF Apart
  <2> QED BY <1>3, <2>1, <2>2, ListIsRing
<1>9. Threads'
  BY <1>0, <1>3, <1>4, <1>6 DEF Threads
<1>10. Sockets'
  BY <1>0, <1>4 DEF Sockets
<1>11. NoIdleWorker'
  BY <1>6 DEF NoIdleWorker
<1> QED BY <1>7, <1>8, <1>9, <1>10, <1>11

(* So does a worker that takes a connection or goes to sleep. *)
LEMMA TakeStep ==
  ASSUME IInv, NEW w \in Worker, worker_take(w)
  PROVE  IInv'
<1> USE DEF IInv
<1> DEFINE e == next[ROOT]
<1>0. /\ wpc[w] = "check" /\ e # ROOT
      /\ next' = [next EXCEPT ![ROOT] = next[e]]
      /\ prev' = [prev EXCEPT ![next[e]] = ROOT]
      /\ order' = Tail(order)
      /\ me' = [me EXCEPT ![w] = e]
      /\ wpc' = [wpc EXCEPT ![w] = "process"]
      /\ UNCHANGED <<active, listening, backlog, file, s, peer, acceptor, inherited, lost>>
  BY DEF worker_take
<1>1. Ring(next, prev, order) /\ IsInjective(order) /\ Apart
  BY ListIsRing
<1>2. order # <<>> /\ e = Head(order) /\ e \in Ent
  BY <1>0, <1>1, RingEnds DEF TypeOK
<1>3. /\ order' \in Seq(Ent) /\ Range(order') = Range(order) \ {e} /\ IsInjective(order')
      /\ e \in Range(order)
  BY <1>0, <1>1, <1>2, TailList DEF TypeOK
<1>4. /\ next[e] \in Ent \cup {ROOT}
      /\ Ring(next', prev', order')
  BY <1>0, <1>1, <1>2, RingPop DEF TypeOK, Pointers
<1> HIDE DEF e
<1>5. me[w] = NULL /\ e # NULL
  BY <1>0, <1>2, TherverAssumption DEF Threads
<1>6. Serving' = Serving \cup {e} /\ Held' = Held /\ Live' = Live
  <2>1. Serving' = Serving \cup {e}
    BY <1>0, <1>2, <1>5, ServesOneMore DEF Serving, Serves, TypeOK
  <2> QED BY <1>0, <1>3, <2>1 DEF Held, Live
<1>7. me'[w] = e /\ wpc'[w] = "process" /\ \A v \in Worker : v # w => me'[v] = me[v] /\ wpc'[v] = wpc[v]
  BY <1>0 DEF TypeOK
<1>8. TypeOK'
  <2>1. next' \in [Ent \cup {ROOT} -> Ent \cup {ROOT, NULL}]
    BY <1>0, <1>4 DEF TypeOK
  <2>2. prev' \in [Ent \cup {ROOT} -> Ent \cup {ROOT, NULL}]
    BY <1>0, <1>4 DEF TypeOK
  <2>3. wpc' \in [Worker -> {"check", "wait", "process", "cleanup", "exit"}]
    BY <1>0 DEF TypeOK
  <2>4. me' \in [Worker -> Ent \cup {NULL}]
    BY <1>0, <1>2 DEF TypeOK
  <2> QED BY <1>0, <1>3, <2>1, <2>2, <2>3, <2>4 DEF TypeOK
<1>9. ListRep'
  <2>1. e \notin Serving /\ e \notin Held
    BY <1>1, <1>3 DEF Apart
  <2>2. \A v \in Worker : me[v] # e
    BY <1>5, <2>1 DEF Serving
  <2>3. Apart'
    BY <1>1, <1>3, <1>5, <1>6, <1>7, <2>1, <2>2 DEF Apart
  <2> QED BY <1>3, <1>4, <2>3, ListIsRing
<1>10. Threads'
  BY <1>0, <1>3, <1>5, <1>6, <1>7 DEF Threads
<1>11. Sockets'
  BY <1>0, <1>6 DEF Sockets
<1>12. NoIdleWorker'
  BY <1>2, <1>7 DEF NoIdleWorker
<1> QED BY <1>8, <1>9, <1>10, <1>11, <1>12

(* So does the callback, whether it closes the socket or loses it. *)
LEMMA ProcessStep ==
  ASSUME IInv, NEW w \in Worker, do_process(w) \/ http_connected_no_memory(w)
  PROVE  IInv'
<1> USE DEF IInv
<1> DEFINE e == me[w]
<1>0. /\ wpc[w] = "process" /\ e # NULL /\ e \in Ent /\ s[e] # NULL /\ s[e] \in FD
      /\ \/ file' = [file EXCEPT ![s[e]] = NULL] /\ lost' = lost
         \/ file' = file /\ lost' = lost \cup {s[e]}
      /\ s' = [s EXCEPT ![e] = NULL]
      /\ wpc' = [wpc EXCEPT ![w] = "cleanup"]
      /\ UNCHANGED <<active, listening, backlog, lists, peer, acceptor, me, inherited>>
  BY DEF do_process, http_connected_no_memory, close, Threads, TypeOK, lists
<1> HIDE DEF e
<1>1. Held' = Held /\ Serving' = Serving /\ order' = order /\ Live' = Live /\ e \in Serving
  BY <1>0 DEF Held, Serving, Live, lists, e
<1>2. wpc'[w] = "cleanup" /\ \A v \in Worker : v # w => wpc'[v] = wpc[v]
  BY <1>0 DEF TypeOK
<1>3. TypeOK'
  BY <1>0 DEF TypeOK, lists
<1>4. ListRep'
  BY <1>0, <1>1, ListIsRing DEF Apart, lists
<1>5. Threads'
  <2>1. \A x \in Ent : x # e => s'[x] = s[x]
    BY <1>0 DEF TypeOK
  <2>2. \A x \in Held \cup Range(order) : x \in Ent /\ x # e
    BY <1>1, LiveEntries DEF ListRep
  <2>3. \A v \in Worker : v # w /\ me[v] # NULL => me[v] \in Ent /\ me[v] # e
    BY DEF ListRep, TypeOK, e
  <2>4. ASSUME NEW v \in Worker
        PROVE  /\ wpc'[v] \in {"process", "cleanup"} <=> me'[v] # NULL
               /\ wpc'[v] = "process" => s'[me'[v]] # NULL
    <3>1. CASE v = w BY <1>0, <1>2, <3>1 DEF e
    <3>2. CASE v # w BY <1>0, <1>2, <2>1, <2>3, <3>2 DEF Threads
    <3> QED BY <3>1, <3>2
  <2>5. acceptor'.pc = "add" <=> acceptor'.e # NULL
    BY <1>0 DEF Threads
  <2>6. \A x \in Held' \cup Range(order') : s'[x] # NULL
    BY <1>1, <2>1, <2>2 DEF Threads
  <2> QED BY <2>4, <2>5, <2>6 DEF Threads
<1>6. Sockets'
  <2>1. e \in Live BY <1>1 DEF Live
  <2>2. Owns(Live, s', file', peer, lost')
    <3>1. CASE file' = [file EXCEPT ![s[e]] = NULL] /\ lost' = lost
      BY <1>0, <2>1, <3>1, LiveEntries, SocketClosed DEF Sockets, TypeOK, Socks, Files
    <3>2. CASE file' = file /\ lost' = lost \cup {s[e]}
      <4>1. peer[e] # NULL BY <1>0, <2>1 DEF Sockets, Owns
      <4> QED BY <4>1, <1>0, <2>1, <3>2, LiveEntries, SocketLost DEF Sockets, TypeOK, Socks
    <3> QED BY <1>0, <3>1, <3>2
  <2> QED BY <1>0, <1>1, <2>2 DEF Sockets
<1>7. NoIdleWorker'
  BY <1>1, <1>2 DEF NoIdleWorker
<1> QED BY <1>3, <1>4, <1>5, <1>6, <1>7

(* So does the cleanup after it. *)
LEMMA CleanupStep ==
  ASSUME IInv, NEW w \in Worker, worker_cleanup(w)
  PROVE  IInv'
<1> USE DEF IInv
<1> DEFINE e == me[w]
<1>0. /\ wpc[w] = "cleanup" /\ e # NULL /\ e \in Ent /\ s[e] \in FD \cup {NULL}
      /\ file' = IF s[e] # NULL THEN [file EXCEPT ![s[e]] = NULL] ELSE file
      /\ me' = [me EXCEPT ![w] = NULL]
      /\ wpc' = [wpc EXCEPT ![w] = "check"]
      /\ UNCHANGED <<active, listening, backlog, lists, s, peer, acceptor, inherited, lost>>
  BY DEF worker_cleanup, close, Threads, TypeOK
<1>1. Ring(next, prev, order) /\ IsInjective(order) /\ Apart
  BY ListIsRing
<1>2. Serving' = Serving \ {e} /\ e \in Serving /\ Held' = Held /\ order' = order
  <2>1. Serving' = Serving \ {e}
    BY <1>0, <1>1, ServesOneLess DEF Serving, Serves, TypeOK, Apart
  <2> QED BY <1>0, <2>1 DEF Held, lists, Serving
<1>3. Live' = Live \ {e} /\ e \in Live
  BY <1>1, <1>2 DEF Live, Apart
<1> HIDE DEF e
<1>4. /\ me'[w] = NULL /\ wpc'[w] = "check"
      /\ \A v \in Worker : v # w => me'[v] = me[v] /\ wpc'[v] = wpc[v]
  BY <1>0 DEF TypeOK
<1>5. TypeOK'
  BY <1>0 DEF TypeOK, lists
<1>6. ListRep'
  <2>1. Apart' BY <1>1, <1>2, <1>4 DEF Apart
  <2>2. next' = next /\ prev' = prev BY <1>0 DEF lists
  <2> QED BY <1>1, <1>2, <2>1, <2>2, ListIsRing
<1>7. Threads'
  BY <1>0, <1>2, <1>4 DEF Threads
<1>8. Sockets'
  <2>1. Owns(Live \ {e}, s, file', peer, lost)
    <3>1. CASE s[e] = NULL
      BY <1>0, <1>3, <3>1, LiveEntries, EntryFreed DEF Sockets, TypeOK, Socks
    <3>2. CASE s[e] # NULL
      BY <1>0, <1>3, <3>2, LiveEntries, EntryClosed DEF Sockets, TypeOK, Socks, Files
    <3> QED BY <3>1, <3>2
  <2> QED BY <1>0, <1>3, <2>1 DEF Sockets
<1>9. NoIdleWorker'
  BY <1>2, <1>4 DEF NoIdleWorker
<1> QED BY <1>5, <1>6, <1>7, <1>8, <1>9

(* Every step preserves the invariant. *)
LEMMA NextIInv == IInv /\ [Next]_vars => IInv'
<1> SUFFICES ASSUME IInv, [Next]_vars PROVE IInv'
  OBVIOUS
<1>1. CASE accept_loop
  BY <1>1, AcceptorStep DEF accept_loop, AcceptorAt, IInv, TypeOK
<1>2. CASE accept_end
  BY <1>2, AcceptorStep DEF accept_end, AcceptorAt, IInv, TypeOK
<1>3. ASSUME NEW c \in Client, NEW f \in FD, NEW e \in Ent, accept(c, f, e)
      PROVE  IInv'
  BY <1>3, AcceptStep
<1>4. ASSUME NEW c \in Client, NEW f \in FD, accept_no_memory(c, f)
      PROVE  IInv'
  BY <1>4, AcceptorStep DEF accept_no_memory, AcceptorAt, IInv, TypeOK
<1>5. CASE accept_error
  BY <1>5, AcceptorStep DEF accept_error, AcceptorAt, IInv, TypeOK
<1>6. CASE add_task
  BY <1>6, AddTaskStep
<1>7. ASSUME NEW w \in Worker, worker_thread(w) \/ worker_spurious(w)
      PROVE  IInv'
  <2>1. CASE worker_exit(w)
    BY <2>1, WorkerStep DEF worker_exit
  <2>2. CASE worker_wait(w)
    <3>1. order = <<>>
      BY <2>2, ListIsRing, RingEnds DEF worker_wait, IInv, TypeOK
    <3> QED BY <2>2, <3>1, WorkerStep DEF worker_wait
  <2>3. CASE worker_take(w)
    BY <2>3, TakeStep
  <2>4. CASE do_process(w) \/ http_connected_no_memory(w)
    BY <2>4, ProcessStep
  <2>5. CASE do_process_no_memory(w)
    BY <2>5, WorkerStep DEF do_process_no_memory
  <2>6. CASE worker_cleanup(w)
    BY <2>6, CleanupStep
  <2>7. CASE worker_spurious(w)
    BY <2>7, WorkerStep DEF worker_spurious
  <2> QED BY <1>7, <2>1, <2>2, <2>3, <2>4, <2>5, <2>6, <2>7 DEF worker_thread
<1>8. CASE therver_shutdown
  BY <1>8, OutsideStep DEF therver_shutdown, IInv, TypeOK
<1>9. CASE fork
  <2>1. Connected \subseteq Client
    BY DEF IInv, TypeOK, Connected
  <2> QED BY <1>9, <2>1, OutsideStep DEF fork, IInv, TypeOK
<1>10. CASE child_exit
  BY <1>10, OutsideStep DEF child_exit, IInv, TypeOK
<1>11. ASSUME NEW c \in Client, connect(c)
       PROVE  IInv'
  BY <1>11, OutsideStep DEF connect, IInv, TypeOK
<1>12. CASE UNCHANGED vars
  BY <1>12, OutsideStep DEF vars, lists, IInv, TypeOK
<1> QED
  BY <1>1, <1>2, <1>3, <1>4, <1>5, <1>6, <1>7, <1>8, <1>9, <1>10, <1>11, <1>12
  DEF Next, accept_thread_run, Environment

(* The inductive invariant of the threaded server. *)
LEMMA IInvHolds == Spec => []IInv
  BY InitIInv, NextIInv, PTL DEF Spec

-----------------------------------------------------------------------------
(* The theorems.                                                           *)

(* All variables keep their types; in particular no worker ever takes the
   sentinel off the list for a connection, whatever wakes it. *)
THEOREM TypeCorrect == Spec => []TypeOK
<1>1. IInv => TypeOK
  BY DEF IInv
<1> QED BY <1>1, IInvHolds, PTL

(* The pointers that add_task and worker_thread write form the circular list
   of the queued entries in the order of their arrival, and no entry is in the
   hands of two threads. *)
THEOREM ListAlwaysRing == Spec => []ListRep
<1>1. IInv => ListRep
  BY DEF IInv
<1> QED BY <1>1, IInvHolds, PTL

(* No thread ever closes somebody else's connection, however descriptors are
   closed and reused. *)
THEOREM SocketsAreOwn == Spec => []OwnSocket
<1>1. IInv => OwnSocket
  BY DEF IInv, Sockets, Owns, OwnSocket
<1> QED BY <1>1, IInvHolds, PTL

(* An open connection has exactly one owner on every path, so it is closed
   exactly once, but for those that http_connected leaves open when it finds no
   memory: they have none, and stay open. *)
THEOREM NoConnectionLost == Spec => []NoSocketLeak
<1>1. IInv => NoSocketLeak
  <2> SUFFICES ASSUME IInv, NEW f \in FD
               PROVE  /\ file[f] # NULL =>
                           Cardinality({e \in Live : s[e] = f}) = IF f \in lost THEN 0 ELSE 1
                      /\ f \in lost => file[f] # NULL
    BY DEF NoSocketLeak
  <2>1. CASE f \in lost
    <3>1. file[f] # NULL /\ {e \in Live : s[e] = f} = {}
      BY <2>1 DEF IInv, Sockets, Owns
    <3> QED BY <2>1, <3>1, FS_EmptySet
  <2>2. CASE f \notin lost
    <3> SUFFICES ASSUME file[f] # NULL
                 PROVE  Cardinality({e \in Live : s[e] = f}) = 1
      BY <2>2
    <3>1. PICK e \in Live : s[e] = f
      BY <2>2 DEF IInv, Sockets, Owns
    <3>2. f # NULL
      BY TherverAssumption
    <3>3. \A d \in Live : s[d] = f => d = e
      BY <3>1, <3>2 DEF IInv, Sockets, Owns
    <3>4. {d \in Live : s[d] = f} = {e}
      BY <3>1, <3>3
    <3> QED BY <3>4, FS_Singleton
  <2> QED BY <2>1, <2>2
<1> QED BY <1>1, IInvHolds, PTL

(* No wake-up is lost: a worker sleeps only while the list is empty. *)
THEOREM NoWakeupLost == Spec => []NoIdleWorker
<1>1. IInv => NoIdleWorker
  BY DEF IInv
<1> QED BY <1>1, IInvHolds, PTL

(* When a fork is done, the child has no socket open that the parent's list
   holds: every connection it keeps is one that is served or being queued, or
   one that a callback has given up. *)
THEOREM ForkKeepsServed == Spec => ChildKeepsServed
<1> DEFINE open == {e \in Serving \cup Held : s[e] # NULL}
           A == inherited' \subseteq inherited \cup {file[s[e]] : e \in open} \cup Forgotten
<1>1. ASSUME IInv, [Next]_vars PROVE A
  <2>1. CASE UNCHANGED inherited
    BY <2>1
  <2>2. CASE child_exit
    BY <2>2 DEF child_exit
  <2>3. CASE fork
    <3> SUFFICES ASSUME NEW c \in inherited', c \notin Forgotten
                 PROVE  \E e \in open : c = file[s[e]]
      OBVIOUS
    <3>1. c \in Connected /\ \A e \in Range(order) : c # file[s[e]]
      BY <2>3 DEF fork
    <3>2. PICK f \in FD : c = file[f] /\ file[f] # NULL
      BY <3>1 DEF Connected
    <3>3. f \notin lost
      BY <3>2 DEF Forgotten
    <3>4. PICK e \in Live : s[e] = f
      BY <1>1, <3>2, <3>3 DEF IInv, Sockets, Owns
    <3>5. f # NULL
      BY TherverAssumption
    <3>6. e \notin Range(order)
      BY <3>1, <3>2, <3>4
    <3>7. e \in open
      BY <3>4, <3>5, <3>6 DEF Live
    <3> QED BY <3>2, <3>4, <3>7
  <2>4. \/ UNCHANGED inherited \/ child_exit \/ fork
    BY <1>1 DEF Next, vars, accept_thread_run, worker_thread, Environment,
       accept_loop, accept_end, accept, accept_no_memory, accept_error, add_task,
       worker_exit, worker_wait, worker_take, worker_spurious, do_process,
       do_process_no_memory, http_connected_no_memory, worker_cleanup, therver_shutdown, connect
  <2> QED BY <2>1, <2>2, <2>3, <2>4
<1>2. IInv /\ [Next]_vars => [A]_vars
  BY <1>1
<1> QED BY <1>2, IInvHolds, PTL DEF Spec, ChildKeepsServed
=============================================================================
