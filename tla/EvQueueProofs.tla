--------------------------- MODULE EvQueueProofs ---------------------------
(***************************************************************************)
(* The event queue is right for any number of queues, entries and          *)
(* consumers: proofs about module EvQueue.                                 *)
(*                                                                         *)
(* Ownership (OwnedOnce) is what makes the pointer manipulation local: a   *)
(* pushed entry is on no list, and lists share no entry, so ev_push and    *)
(* ev_rm_ on one queue cannot disturb another.  With it the pointers       *)
(* represent the promised order (ListRep).  NoLostWakeup needs ListRep,    *)
(* since the loop of ev_pop_wait looks at the head pointer.                *)
(***************************************************************************)
EXTENDS EvQueue, ListLemmas, FiniteSetTheorems

(* The pointers hd, tl, pv, nx represent the list s. *)
Rep(hd, tl, pv, nx, s) ==
  /\ hd = Neighbour(s, 1)
  /\ tl = Neighbour(s, Len(s))
  /\ \A i \in DOMAIN s : /\ pv[s[i]] = Neighbour(s, i - 1)
                         /\ nx[s[i]] = Neighbour(s, i + 1)

(* Pointers of entries that are not on the list do not matter to it. *)
LEMMA RepFrame ==
  ASSUME NEW hd, NEW tl, NEW pv, NEW nx, NEW pv2, NEW nx2, NEW s,
         Rep(hd, tl, pv, nx, s),
         \A x \in Range(s) : pv2[x] = pv[x] /\ nx2[x] = nx[x]
  PROVE  Rep(hd, tl, pv2, nx2, s)
  BY DEF Rep, Range

(* A list is empty exactly when its head pointer is NULL; otherwise head and
   tail point at its ends. *)
LEMMA RepEnds ==
  ASSUME NEW hd, NEW tl, NEW pv, NEW nx, NEW s \in Seq(Entry), Rep(hd, tl, pv, nx, s)
  PROVE  /\ hd = NULL <=> s = <<>>
         /\ s # <<>> => hd = s[1] /\ tl = s[Len(s)] /\ 1 \in DOMAIN s /\ Len(s) \in DOMAIN s
<1>1. CASE s = <<>>
  BY <1>1 DEF Rep, Neighbour
<1>2. CASE s # <<>>
  <2>1. 1 \in DOMAIN s /\ Len(s) \in DOMAIN s BY <1>2
  <2>2. s[1] \in Entry BY <2>1
  <2>3. hd = s[1] /\ tl = s[Len(s)] BY <2>1 DEF Rep, Neighbour
  <2> QED BY <1>2, <2>1, <2>2, <2>3, EvQueueAssumption
<1> QED BY <1>1, <1>2

(* ev_push into an empty queue. *)
LEMMA RepFirst ==
  ASSUME NEW pv, NEW nx, NEW e \in Entry, pv[e] = NULL, nx[e] = NULL
  PROVE  Rep(e, e, pv, nx, <<e>>)
<1>1. Len(<<e>>) = 1 /\ DOMAIN <<e>> = {1} /\ <<e>>[1] = e
  OBVIOUS
<1>2. 0 \notin DOMAIN <<e>> /\ 2 \notin DOMAIN <<e>>
  BY <1>1
<1>3. /\ Neighbour(<<e>>, 1) = e
      /\ Neighbour(<<e>>, 1 - 1) = NULL
      /\ Neighbour(<<e>>, 1 + 1) = NULL
  BY <1>1, <1>2 DEF Neighbour
<1> QED BY <1>1, <1>3 DEF Rep

(* ev_push before the head of a non-empty queue. *)
LEMMA RepPrepend ==
  ASSUME NEW hd \in Entry, NEW tl, NEW s \in Seq(Entry), s # <<>>, IsInjective(s),
         NEW pv \in [Entry -> Entry \cup {NULL}], NEW nx \in [Entry -> Entry \cup {NULL}],
         Rep(hd, tl, pv, nx, s),
         NEW e \in Entry, e \notin Range(s), pv[e] = NULL
  PROVE  Rep(e, tl, [pv EXCEPT ![hd] = e], [nx EXCEPT ![e] = hd], <<e>> \o s)
<1> DEFINE t   == <<e>> \o s
           pv2 == [pv EXCEPT ![hd] = e]
           nx2 == [nx EXCEPT ![e] = hd]
<1>1. /\ t \in Seq(Entry)
      /\ Len(t) = Len(s) + 1
      /\ t[1] = e
      /\ \A i \in 1 .. Len(s) : t[i + 1] = s[i]
      /\ \A i \in 2 .. Len(t) : t[i] = s[i - 1]
  OBVIOUS
<1>2. hd = s[1] /\ tl = s[Len(s)] /\ Len(s) \in Nat /\ Len(s) >= 1
  BY RepEnds
<1>3. /\ \A i \in 1 .. Len(s) : s[i] \in Entry /\ s[i] # e
      /\ \A i \in 2 .. Len(s) : s[i] # hd
      /\ hd # e
  BY <1>2 DEF Range, IsInjective
<1>4. /\ pv2[e] = NULL /\ nx2[e] = hd
      /\ pv2[hd] = e
      /\ \A x \in Entry : x # hd => pv2[x] = pv[x]
      /\ \A x \in Entry : x # e => nx2[x] = nx[x]
  BY <1>3
<1>5. \A i \in 1 .. Len(s) : /\ pv[s[i]] = Neighbour(s, i - 1)
                             /\ nx[s[i]] = Neighbour(s, i + 1)
  BY DEF Rep
<1>6. DOMAIN t = 1 .. Len(t) /\ DOMAIN s = 1 .. Len(s)
  BY <1>1
<1> HIDE DEF t, pv2, nx2
<1>7. /\ e = Neighbour(t, 1)
      /\ tl = Neighbour(t, Len(t))
  BY <1>1, <1>2, <1>6 DEF Neighbour
<1>8. ASSUME NEW i \in 1 .. Len(t)
      PROVE  pv2[t[i]] = Neighbour(t, i - 1) /\ nx2[t[i]] = Neighbour(t, i + 1)
  <2>1. CASE i = 1
    <3>1. t[i] = e /\ i - 1 \notin 1 .. Len(t) /\ i + 1 \in 1 .. Len(t) /\ t[i + 1] = hd
      BY <1>1, <1>2, <2>1
    <3> QED BY <1>4, <1>6, <3>1 DEF Neighbour
  <2>2. CASE i = 2
    <3>1. t[i] = hd /\ t[i - 1] = e /\ i - 1 \in 1 .. Len(t)
      BY <1>1, <1>2, <2>2
    <3>2. pv2[t[i]] = Neighbour(t, i - 1)
      BY <1>4, <1>6, <3>1 DEF Neighbour
    <3>3. nx2[t[i]] = Neighbour(s, 2)
      <4>1. nx[s[1]] = Neighbour(s, 1 + 1) BY <1>2, <1>5
      <4> QED BY <1>2, <1>3, <1>4, <3>1, <4>1
    <3>4. Neighbour(s, 2) = Neighbour(t, 3)
      BY <1>1, <1>2, <1>6 DEF Neighbour
    <3> QED BY <2>2, <3>2, <3>3, <3>4
  <2>3. CASE i > 2
    <3> DEFINE j == i - 1
    <3>1. j \in 2 .. Len(s) /\ t[i] = s[j] BY <1>1, <1>2, <2>3
    <3> HIDE DEF j
    <3>2. s[j] \in Entry /\ s[j] # e /\ s[j] # hd BY <1>3, <3>1
    <3>3. pv2[t[i]] = Neighbour(s, j - 1) /\ nx2[t[i]] = Neighbour(s, j + 1)
      BY <1>4, <1>5, <3>1, <3>2
    <3>4. Neighbour(s, j - 1) = Neighbour(t, j)
      BY <1>1, <1>2, <1>6, <3>1 DEF Neighbour
    <3>5. Neighbour(s, j + 1) = Neighbour(t, j + 2)
      BY <1>1, <1>2, <1>6, <3>1 DEF Neighbour
    <3> QED BY <3>3, <3>4, <3>5 DEF j
  <2> QED BY <1>1, <1>2, <2>1, <2>2, <2>3
<1> QED BY <1>6, <1>7, <1>8 DEF Rep, t, pv2, nx2

(* ev_push after the tail of a non-empty queue. *)
LEMMA RepAppend ==
  ASSUME NEW hd, NEW tl \in Entry, NEW s \in Seq(Entry), s # <<>>, IsInjective(s),
         NEW pv \in [Entry -> Entry \cup {NULL}], NEW nx \in [Entry -> Entry \cup {NULL}],
         Rep(hd, tl, pv, nx, s),
         NEW e \in Entry, e \notin Range(s), nx[e] = NULL
  PROVE  Rep(hd, e, [pv EXCEPT ![e] = tl], [nx EXCEPT ![tl] = e], Append(s, e))
<1> DEFINE t   == Append(s, e)
           pv2 == [pv EXCEPT ![e] = tl]
           nx2 == [nx EXCEPT ![tl] = e]
           n   == Len(s)
<1>1. /\ t \in Seq(Entry)
      /\ Len(t) = n + 1
      /\ t[n + 1] = e
      /\ \A i \in 1 .. n : t[i] = s[i]
  OBVIOUS
<1>2. hd = s[1] /\ tl = s[n] /\ n \in Nat /\ n >= 1
  BY RepEnds
<1>3. /\ \A i \in 1 .. n : s[i] \in Entry /\ s[i] # e
      /\ \A i \in 1 .. n - 1 : s[i] # tl
      /\ tl # e
  BY <1>2 DEF Range, IsInjective
<1>4. /\ pv2[e] = tl /\ nx2[e] = NULL
      /\ nx2[tl] = e
      /\ \A x \in Entry : x # e => pv2[x] = pv[x]
      /\ \A x \in Entry : x # tl => nx2[x] = nx[x]
  BY <1>3
<1>5. \A i \in 1 .. n : /\ pv[s[i]] = Neighbour(s, i - 1)
                        /\ nx[s[i]] = Neighbour(s, i + 1)
  BY DEF Rep
<1>6. DOMAIN t = 1 .. n + 1 /\ DOMAIN s = 1 .. n
  BY <1>1
<1> HIDE DEF t, pv2, nx2, n
<1>7. /\ hd = Neighbour(t, 1)
      /\ e = Neighbour(t, n + 1)
  BY <1>1, <1>2, <1>6 DEF Neighbour
<1>8. ASSUME NEW i \in 1 .. n + 1
      PROVE  pv2[t[i]] = Neighbour(t, i - 1) /\ nx2[t[i]] = Neighbour(t, i + 1)
  <2>1. CASE i = n + 1
    <3>1. t[i] = e /\ i - 1 \in 1 .. n + 1 /\ i + 1 \notin 1 .. n + 1 /\ t[i - 1] = tl
      BY <1>1, <1>2, <2>1
    <3> QED BY <1>4, <1>6, <3>1 DEF Neighbour
  <2>2. CASE i = n
    <3>1. t[i] = tl /\ t[i + 1] = e /\ i + 1 \in 1 .. n + 1
      BY <1>1, <1>2, <2>2
    <3>2. nx2[t[i]] = Neighbour(t, i + 1)
      BY <1>4, <1>6, <3>1 DEF Neighbour
    <3>3. pv2[t[i]] = Neighbour(s, n - 1)
      <4>1. pv[s[n]] = Neighbour(s, n - 1) BY <1>2, <1>5
      <4> QED BY <1>2, <1>3, <1>4, <3>1, <4>1
    <3>4. Neighbour(s, n - 1) = Neighbour(t, n - 1)
      BY <1>1, <1>2, <1>6 DEF Neighbour
    <3> QED BY <2>2, <3>2, <3>3, <3>4
  <2>3. CASE i < n
    <3>1. i \in 1 .. n - 1 /\ t[i] = s[i] BY <1>1, <1>2, <2>3
    <3>2. s[i] \in Entry /\ s[i] # e /\ s[i] # tl BY <1>3, <1>2, <3>1
    <3>3. pv2[t[i]] = Neighbour(s, i - 1) /\ nx2[t[i]] = Neighbour(s, i + 1)
      <4>1. pv[s[i]] = Neighbour(s, i - 1) /\ nx[s[i]] = Neighbour(s, i + 1)
        BY <1>2, <1>5, <3>1
      <4>2. pv2[s[i]] = pv[s[i]] /\ nx2[s[i]] = nx[s[i]]
        BY <1>4, <3>2
      <4> QED BY <3>1, <4>1, <4>2
    <3>4. Neighbour(s, i - 1) = Neighbour(t, i - 1)
      BY <1>1, <1>2, <1>6, <3>1 DEF Neighbour
    <3>5. Neighbour(s, i + 1) = Neighbour(t, i + 1)
      BY <1>1, <1>2, <1>6, <3>1 DEF Neighbour
    <3> QED BY <3>3, <3>4, <3>5
  <2> QED BY <1>2, <2>1, <2>2, <2>3
<1>9. Len(t) = n + 1 BY <1>1
<1> QED BY <1>6, <1>7, <1>8, <1>9 DEF Rep, t, pv2, nx2

(* ev_rm_ of the head. *)
LEMMA RepPop ==
  ASSUME NEW hd, NEW tl, NEW s \in Seq(Entry), s # <<>>, IsInjective(s),
         NEW pv \in [Entry -> Entry \cup {NULL}], NEW nx \in [Entry -> Entry \cup {NULL}],
         Rep(hd, tl, pv, nx, s)
  PROVE  /\ hd \in Entry /\ pv[hd] = NULL /\ nx[hd] \in Range(s) \cup {NULL}
         /\ Rep(nx[hd], IF hd = tl THEN pv[hd] ELSE tl,
                [x \in Entry |-> IF x = hd THEN NULL
                                 ELSE IF x = nx[hd] THEN pv[hd] ELSE pv[x]],
                [x \in Entry |-> IF x = hd THEN NULL
                                 ELSE IF x = pv[hd] THEN nx[hd] ELSE nx[x]],
                Tail(s))
<1> DEFINE t   == Tail(s)
           pv2 == [x \in Entry |-> IF x = hd THEN NULL
                                   ELSE IF x = nx[hd] THEN pv[hd] ELSE pv[x]]
           nx2 == [x \in Entry |-> IF x = hd THEN NULL
                                   ELSE IF x = pv[hd] THEN nx[hd] ELSE nx[x]]
           tl2 == IF hd = tl THEN pv[hd] ELSE tl
           n   == Len(s)
<1>1. /\ t \in Seq(Entry) /\ Len(t) = n - 1
      /\ \A i \in 1 .. n - 1 : t[i] = s[i + 1]
  BY HeadTailProperties
<1>2. hd = s[1] /\ tl = s[n] /\ n \in Nat /\ n >= 1
  BY RepEnds
<1>3. \A i \in 1 .. n : /\ pv[s[i]] = Neighbour(s, i - 1)
                        /\ nx[s[i]] = Neighbour(s, i + 1)
  BY DEF Rep
<1>4. DOMAIN t = 1 .. n - 1 /\ DOMAIN s = 1 .. n
  BY <1>1
<1>5. /\ \A i \in 1 .. n : s[i] \in Entry
      /\ \A i, j \in 1 .. n : s[i] = s[j] => i = j
  BY DEF IsInjective
<1> HIDE DEF t, n
<1>6. hd \in Entry /\ pv[hd] = NULL /\ nx[hd] = Neighbour(s, 2)
  <2>1. pv[s[1]] = Neighbour(s, 1 - 1) /\ nx[s[1]] = Neighbour(s, 1 + 1)
    BY <1>2, <1>3
  <2>2. Neighbour(s, 0) = NULL BY <1>4 DEF Neighbour
  <2> QED BY <1>2, <1>5, <2>1, <2>2
<1>7. nx[hd] \in Range(s) \cup {NULL}
  BY <1>4, <1>6 DEF Neighbour, Range
<1>8. \A x \in Entry :
        x # hd => /\ pv2[x] = IF x = nx[hd] THEN NULL ELSE pv[x]
                  /\ nx2[x] = nx[x]
  BY <1>6, EvQueueAssumption
<1> HIDE DEF pv2, nx2
<1>9. nx[hd] = Neighbour(t, 1)
  BY <1>1, <1>2, <1>4, <1>6 DEF Neighbour
<1>10. tl2 = Neighbour(t, Len(t))
  <2>1. CASE n = 1
    <3>1. hd = tl /\ Len(t) \notin 1 .. n - 1 BY <1>1, <1>2, <2>1
    <3> QED BY <1>4, <1>6, <3>1 DEF Neighbour
  <2>2. CASE n # 1
    <3>1. hd # tl BY <1>2, <1>5, <2>2
    <3>2. Len(t) \in 1 .. n - 1 /\ t[Len(t)] = s[n] BY <1>1, <1>2, <2>2
    <3> QED BY <1>2, <1>4, <3>1, <3>2 DEF Neighbour
  <2> QED BY <2>1, <2>2
<1> HIDE DEF tl2
<1>11. ASSUME NEW i \in 1 .. n - 1
       PROVE  pv2[t[i]] = Neighbour(t, i - 1) /\ nx2[t[i]] = Neighbour(t, i + 1)
  <2>1. i + 1 \in 1 .. n /\ t[i] = s[i + 1] /\ s[i + 1] \in Entry /\ s[i + 1] # hd
    BY <1>1, <1>2, <1>5
  <2>2. nx2[t[i]] = Neighbour(s, (i + 1) + 1)
    BY <1>3, <1>8, <2>1
  <2>3. Neighbour(s, (i + 1) + 1) = Neighbour(t, i + 1)
    BY <1>1, <1>2, <1>4 DEF Neighbour
  <2>4. CASE i = 1
    <3>1. t[i] = nx[hd] BY <1>4, <1>9, <2>4 DEF Neighbour
    <3>2. pv2[t[i]] = NULL BY <1>8, <2>1, <3>1
    <3>3. Neighbour(t, i - 1) = NULL BY <1>4, <2>4 DEF Neighbour
    <3> QED BY <2>2, <2>3, <3>2, <3>3
  <2>5. CASE i # 1
    <3>1. 2 \in 1 .. n /\ nx[hd] = s[2] BY <1>2, <1>4, <1>6, <2>5 DEF Neighbour
    <3>2. s[i + 1] # s[2] BY <1>5, <2>1, <2>5, <3>1
    <3>3. pv2[t[i]] = Neighbour(s, (i + 1) - 1)
      BY <1>3, <1>8, <2>1, <3>1, <3>2
    <3>4. Neighbour(s, (i + 1) - 1) = Neighbour(t, i - 1)
      BY <1>1, <1>2, <1>4, <2>5 DEF Neighbour
    <3> QED BY <2>2, <2>3, <3>3, <3>4
  <2> QED BY <2>4, <2>5
<1>12. Rep(nx[hd], tl2, pv2, nx2, t)
  BY <1>4, <1>9, <1>10, <1>11 DEF Rep
<1> QED BY <1>6, <1>7, <1>12 DEF t, pv2, nx2, tl2

-----------------------------------------------------------------------------
Inv == TypeOK /\ OwnedOnce /\ ListRep /\ NoLostWakeup

(* Entries on no queue have no neighbours. *)
FreeEntriesUnlinked ==
  \A e \in Entry :
    (\A q \in Queue : e \notin Queued(q)) => prev[e] = NULL /\ next[e] = NULL

(* ListRep in terms of Rep. *)
LEMMA ListRepSplit ==
  ListRep <=> /\ \A q \in Queue : Rep(head[q], tail[q], prev, next, order[q])
              /\ FreeEntriesUnlinked
  BY DEF ListRep, Rep, FreeEntriesUnlinked

(* The part of the type invariant that pushing and popping change. *)
ListTypeOK ==
  /\ head \in [Queue -> Entry \cup {NULL}]
  /\ tail \in [Queue -> Entry \cup {NULL}]
  /\ prev \in [Entry -> Entry \cup {NULL}]
  /\ next \in [Entry -> Entry \cup {NULL}]
  /\ order \in [Queue -> Seq(Entry)]

(* ev_push of an entry that is on no queue adds it to one list and disturbs
   no other; a sleeping consumer is woken for it. *)
LEMMA PushKeeps ==
  ASSUME Inv, NEW q \in Queue, NEW e \in Entry, NEW front \in BOOLEAN,
         \A r \in Queue : e \notin Queued(r),
         ev_push(q, e, front), UNCHANGED on
  PROVE  /\ ListTypeOK' /\ ListRep' /\ NoLostWakeup'
         /\ pc' \in [Consumer -> {"idle", "sleep", "awake"}]
         /\ \A r \in Queue : /\ IsInjective(order'[r])
                             /\ Queued(r)' = IF r = q THEN Queued(q) \cup {e} ELSE Queued(r)
<1> DEFINE s == order[q]
           t == order'[q]
<1>1. /\ TypeOK
      /\ \A r \in Queue : Rep(head[r], tail[r], prev, next, order[r])
      /\ prev[e] = NULL /\ next[e] = NULL
      /\ \A r \in Queue : IsInjective(order[r])
      /\ \A r \in Queue : r # q => Queued(q) \cap Queued(r) = {}
  BY ListRepSplit DEF Inv, FreeEntriesUnlinked, OwnedOnce
<1>2. /\ s \in Seq(Entry) /\ e \notin Range(s) /\ IsInjective(s)
      /\ head[q] \in Entry \cup {NULL} /\ tail[q] \in Entry \cup {NULL}
      /\ prev \in [Entry -> Entry \cup {NULL}]
      /\ next \in [Entry -> Entry \cup {NULL}]
  BY <1>1 DEF TypeOK, Queued
<1>3. /\ t = IF front THEN <<e>> \o s ELSE Append(s, e)
      /\ order' = [order EXCEPT ![q] = IF front THEN <<e>> \o s ELSE Append(s, e)]
      /\ \A r \in Queue : r # q => order'[r] = order[r]
  BY <1>1 DEF ev_push, TypeOK
<1>4. t \in Seq(Entry) /\ Range(t) = Range(s) \cup {e} /\ IsInjective(t)
  BY <1>2, <1>3, PrependList, AppendList
<1>5. \A r \in Queue : /\ IsInjective(order'[r])
                       /\ Queued(r)' = IF r = q THEN Queued(q) \cup {e} ELSE Queued(r)
  <2>1. ASSUME NEW r \in Queue
        PROVE  /\ IsInjective(order'[r])
               /\ Queued(r)' = IF r = q THEN Queued(q) \cup {e} ELSE Queued(r)
    <3>1. CASE r = q BY <1>4, <3>1 DEF Queued
    <3>2. CASE r # q BY <1>1, <1>3, <3>2 DEF Queued
    <3> QED BY <3>1, <3>2
  <2> QED BY <2>1
<1>6. /\ head[q] = NULL <=> s = <<>>
      /\ s # <<>> => head[q] \in Range(s) /\ tail[q] \in Range(s)
                     /\ head[q] \in Entry /\ tail[q] \in Entry
  BY <1>1, <1>2, RepEnds DEF Range
<1>7. \* what the step does to the pointers
      /\ head' = [head EXCEPT ![q] = head'[q]] /\ tail' = [tail EXCEPT ![q] = tail'[q]]
      /\ head'[q] \in Entry /\ tail'[q] \in Entry
      /\ prev' \in [Entry -> Entry \cup {NULL}]
      /\ next' \in [Entry -> Entry \cup {NULL}]
      /\ \A x \in Entry : x # e /\ x \notin Range(s) => prev'[x] = prev[x] /\ next'[x] = next[x]
      /\ Rep(head'[q], tail'[q], prev', next', t)
  <2>1. CASE head[q] = NULL
    <3>1. s = <<>> /\ t = <<e>>
      <4>1. s = <<>> BY <1>6, <2>1
      <4>2. <<e>> \o <<>> = <<e>> /\ Append(<<>>, e) = <<e>> OBVIOUS
      <4> QED BY <1>3, <4>1, <4>2
    <3>2. /\ head' = [head EXCEPT ![q] = e] /\ tail' = [tail EXCEPT ![q] = e]
          /\ prev' = prev /\ next' = next
      BY <2>1 DEF ev_push, Link
    <3>3. head'[q] = e /\ tail'[q] = e BY <1>1, <3>2 DEF TypeOK
    <3>4. Rep(e, e, prev, next, <<e>>) BY <1>1, RepFirst
    <3> QED BY <1>2, <3>1, <3>2, <3>3, <3>4
  <2>2. CASE head[q] # NULL /\ front
    <3>1. s # <<>> /\ t = <<e>> \o s BY <1>3, <1>6, <2>2
    <3>2. /\ head' = [head EXCEPT ![q] = e] /\ tail' = tail
          /\ prev' = [prev EXCEPT ![head[q]] = e]
          /\ next' = [next EXCEPT ![e] = head[q]]
      BY <2>2 DEF ev_push, Link
    <3>3. head'[q] = e /\ tail'[q] = tail[q] /\ tail' = [tail EXCEPT ![q] = tail'[q]]
      BY <1>1, <3>2 DEF TypeOK
    <3>4. Rep(e, tail[q], prev', next', t)
      <4>1. head[q] \in Entry /\ Rep(head[q], tail[q], prev, next, s) BY <1>1, <1>6, <3>1
      <4>2. Rep(e, tail[q], [prev EXCEPT ![head[q]] = e], [next EXCEPT ![e] = head[q]],
                <<e>> \o s)
        <5> HIDE DEF s, t
        <5> QED BY <1>1, <1>2, <3>1, <4>1, RepPrepend
      <4> QED BY <3>1, <3>2, <4>2
    <3>5. /\ prev' \in [Entry -> Entry \cup {NULL}]
          /\ next' \in [Entry -> Entry \cup {NULL}]
          /\ \A x \in Entry : x # e /\ x \notin Range(s) => prev'[x] = prev[x] /\ next'[x] = next[x]
      BY <1>2, <1>6, <3>1, <3>2
    <3> QED BY <1>6, <3>1, <3>2, <3>3, <3>4, <3>5
  <2>3. CASE head[q] # NULL /\ ~front
    <3>1. s # <<>> /\ t = Append(s, e) BY <1>3, <1>6, <2>3
    <3>2. /\ tail' = [tail EXCEPT ![q] = e] /\ head' = head
          /\ prev' = [prev EXCEPT ![e] = tail[q]]
          /\ next' = [next EXCEPT ![tail[q]] = e]
      BY <2>3 DEF ev_push, Link
    <3>3. tail'[q] = e /\ head'[q] = head[q] /\ head' = [head EXCEPT ![q] = head'[q]]
      BY <1>1, <3>2 DEF TypeOK
    <3>4. Rep(head[q], e, prev', next', t)
      <4>1. tail[q] \in Entry /\ Rep(head[q], tail[q], prev, next, s) BY <1>1, <1>6, <3>1
      <4>2. Rep(head[q], e, [prev EXCEPT ![e] = tail[q]], [next EXCEPT ![tail[q]] = e],
                Append(s, e))
        <5> HIDE DEF s, t
        <5> QED BY <1>1, <1>2, <3>1, <4>1, RepAppend
      <4> QED BY <3>1, <3>2, <4>2
    <3>5. /\ prev' \in [Entry -> Entry \cup {NULL}]
          /\ next' \in [Entry -> Entry \cup {NULL}]
          /\ \A x \in Entry : x # e /\ x \notin Range(s) => prev'[x] = prev[x] /\ next'[x] = next[x]
      BY <1>2, <1>6, <3>1, <3>2
    <3> QED BY <1>6, <3>1, <3>2, <3>3, <3>4, <3>5
  <2> QED BY <2>1, <2>2, <2>3
<1>8. ListTypeOK'
  BY <1>1, <1>3, <1>4, <1>7 DEF ListTypeOK, TypeOK
<1>9. ListRep'
  <2>1. ASSUME NEW r \in Queue
        PROVE  Rep(head'[r], tail'[r], prev', next', order'[r])
    <3>1. CASE r = q BY <1>7, <3>1
    <3>2. CASE r # q
      <4>1. head'[r] = head[r] /\ tail'[r] = tail[r] /\ order'[r] = order[r]
        BY <1>1, <1>3, <1>7, <3>2 DEF TypeOK
      <4>2. \A x \in Range(order[r]) : x \in Entry /\ x # e /\ x \notin Range(s)
        <5>1. order[r] \in Seq(Entry) BY <1>1 DEF TypeOK
        <5>2. Range(order[r]) \subseteq Entry BY <5>1 DEF Range
        <5>3. Queued(r) = Range(order[r]) /\ Queued(q) = Range(s) BY DEF Queued
        <5> QED BY <1>1, <3>2, <5>2, <5>3
      <4> QED BY <1>1, <1>7, <4>1, <4>2, RepFrame
    <3> QED BY <3>1, <3>2
  <2>2. ASSUME NEW x \in Entry, \A r \in Queue : x \notin Queued(r)'
        PROVE  prev'[x] = NULL /\ next'[x] = NULL
    <3>1. x # e /\ x \notin Range(s) /\ \A r \in Queue : x \notin Queued(r)
      BY <1>5, <2>2 DEF Queued
    <3>2. prev[x] = NULL /\ next[x] = NULL
      BY <3>1, ListRepSplit DEF Inv, FreeEntriesUnlinked
    <3> QED BY <1>7, <3>1, <3>2
  <2> QED BY <2>1, <2>2, ListRepSplit DEF ListRep, Rep
<1>10. Len(t) = Len(s) + 1 /\ Len(s) \in Nat
  BY <1>2, <1>3
<1> HIDE DEF s, t
<1>11. pc' \in [Consumer -> {"idle", "sleep", "awake"}]
  <2>1. Signal(q) BY DEF ev_push
  <2>2. pc \in [Consumer -> {"idle", "sleep", "awake"}] BY <1>1 DEF TypeOK
  <2> QED BY ONLY <2>1, <2>2 DEF Signal
<1>12. ASSUME NEW r \in Queue, Sleepers(r)' # {}
       PROVE  Len(order'[r]) <= Cardinality(Awake(r)')
  <2>0. IsFiniteSet(Awake(r)) /\ Cardinality(Awake(r)) \in Nat
    BY EvQueueAssumption, FS_Subset, FS_CardinalityType DEF Awake
  <2>1. CASE Sleepers(q) = {}
    <3>1. pc' = pc BY <2>1 DEF ev_push, Signal
    <3>2. Sleepers(r)' = Sleepers(r) /\ Awake(r)' = Awake(r)
      BY <3>1 DEF Sleepers, Awake
    <3>3. r # q BY <1>12, <2>1, <3>2
    <3>4. order'[r] = order[r] BY <1>3, <3>3
    <3> QED BY <1>12, <3>2, <3>4 DEF Inv, NoLostWakeup
  <2>2. CASE Sleepers(q) # {}
    <3>1. PICK c \in Sleepers(q) : pc' = [pc EXCEPT ![c] = "awake"]
      BY <2>2 DEF ev_push, Signal
    <3>2. c \in Consumer /\ on[c] = q /\ pc[c] = "sleep" BY DEF Sleepers
    <3>3. CASE r = q
      <4>1. Awake(q)' = Awake(q) \cup {c} /\ c \notin Awake(q)
        BY <1>1, <3>1, <3>2 DEF Awake, TypeOK
      <4>2. Cardinality(Awake(q) \cup {c}) = Cardinality(Awake(q)) + 1
        BY <2>0, <3>3, <4>1, FS_AddElement
      <4>3. Len(s) <= Cardinality(Awake(q))
        BY <2>2 DEF Inv, NoLostWakeup, s
      <4> QED BY <1>10, <2>0, <3>3, <4>1, <4>2, <4>3 DEF t
    <3>4. CASE r # q
      <4>1. Sleepers(r)' = Sleepers(r) /\ Awake(r)' = Awake(r)
        BY <1>1, <3>1, <3>2, <3>4 DEF Sleepers, Awake, TypeOK
      <4>2. order'[r] = order[r] BY <1>3, <3>4
      <4> QED BY <1>12, <4>1, <4>2 DEF Inv, NoLostWakeup
    <3> QED BY <3>3, <3>4
  <2> QED BY <2>1, <2>2
<1>13. NoLostWakeup'
  BY <1>12 DEF NoLostWakeup
<1> QED BY <1>5, <1>8, <1>9, <1>11, <1>13

(* Taking the head off one queue gives it one owner and disturbs no other
   list. *)
LEMMA TakeKeeps ==
  ASSUME Inv, NEW c \in Consumer, NEW q \in Queue, TakeHead(c, q)
  PROVE  /\ ListTypeOK' /\ ListRep'
         /\ head[q] \in Entry /\ head[q] \in Queued(q)
         /\ ref' = ref \cup {head[q]}
         /\ got' \in {got, [got EXCEPT ![c] = head[q]]}
         /\ Len(order'[q]) = Len(order[q]) - 1
         /\ \A r \in Queue : /\ IsInjective(order'[r])
                             /\ r # q => order'[r] = order[r]
                             /\ Queued(r)' = IF r = q THEN Queued(q) \ {head[q]} ELSE Queued(r)
<1> DEFINE s == order[q]
           t == order'[q]
           e == head[q]
<1>1. /\ TypeOK
      /\ \A r \in Queue : Rep(head[r], tail[r], prev, next, order[r])
      /\ \A r \in Queue : IsInjective(order[r])
      /\ \A r \in Queue : r # q => Queued(q) \cap Queued(r) = {}
  BY ListRepSplit DEF Inv, OwnedOnce
<1>2. /\ s \in Seq(Entry) /\ IsInjective(s)
      /\ prev \in [Entry -> Entry \cup {NULL}]
      /\ next \in [Entry -> Entry \cup {NULL}]
      /\ Rep(e, tail[q], prev, next, s)
  BY <1>1 DEF TypeOK
<1>3. /\ e # NULL
      /\ ev_rm_(q, e)
      /\ order' = [order EXCEPT ![q] = Tail(s)]
      /\ ref' = ref \cup {e}
      /\ got' \in {got, [got EXCEPT ![c] = e]}
  BY DEF TakeHead
<1>4. s # <<>> /\ e = s[1] /\ tail[q] = s[Len(s)]
  <2> HIDE DEF s, e
  <2> QED BY <1>2, <1>3, RepEnds
<1>5. t = Tail(s) /\ \A r \in Queue : r # q => order'[r] = order[r]
  BY <1>1, <1>3 DEF TypeOK
<1>6. /\ e \in Range(s)
      /\ t \in Seq(Entry) /\ Range(t) = Range(s) \ {e} /\ IsInjective(t)
  <2>1. Head(s) = e BY <1>2, <1>4
  <2> HIDE DEF s, e, t
  <2> QED BY <1>2, <1>4, <1>5, <2>1, TailList
<1>7. Len(t) = Len(s) - 1
  <2> HIDE DEF s, e, t
  <2> QED BY <1>2, <1>4, <1>5, HeadTailProperties
<1>8. \A r \in Queue : /\ IsInjective(order'[r])
                       /\ Queued(r)' = IF r = q THEN Queued(q) \ {e} ELSE Queued(r)
  <2>1. ASSUME NEW r \in Queue
        PROVE  /\ IsInjective(order'[r])
               /\ Queued(r)' = IF r = q THEN Queued(q) \ {e} ELSE Queued(r)
    <3>1. CASE r = q BY <1>6, <3>1 DEF Queued
    <3>2. CASE r # q BY <1>1, <1>5, <3>2 DEF Queued
    <3> QED BY <3>1, <3>2
  <2> QED BY <2>1
<1> DEFINE tl2 == IF e = tail[q] THEN prev[e] ELSE tail[q]
           pv2 == [x \in Entry |-> IF x = e THEN NULL
                                   ELSE IF x = next[e] THEN prev[e] ELSE prev[x]]
           nx2 == [x \in Entry |-> IF x = e THEN NULL
                                   ELSE IF x = prev[e] THEN next[e] ELSE next[x]]
<1>9. /\ e \in Entry /\ prev[e] = NULL /\ next[e] \in Range(s) \cup {NULL}
      /\ Rep(next[e], tl2, pv2, nx2, Tail(s))
  <2> HIDE DEF s, e
  <2> QED BY <1>2, <1>4, RepPop
<1>10. /\ head' = [head EXCEPT ![q] = next[e]]
       /\ tail' = [tail EXCEPT ![q] = tl2]
       /\ prev' = pv2 /\ next' = nx2
  <2>1. tail' = IF e = tail[q] THEN [tail EXCEPT ![q] = prev[e]] ELSE tail
    BY <1>3 DEF ev_rm_
  <2>2. tail = [tail EXCEPT ![q] = tail[q]]
    BY <1>1 DEF TypeOK
  <2>3. tail' = [tail EXCEPT ![q] = tl2]
    BY <2>1, <2>2
  <2> QED BY <1>3, <2>3 DEF ev_rm_
<1>11. /\ next[e] \in Entry \cup {NULL} /\ tl2 \in Entry \cup {NULL}
       /\ pv2 \in [Entry -> Entry \cup {NULL}] /\ nx2 \in [Entry -> Entry \cup {NULL}]
  BY <1>1, <1>2, <1>9 DEF TypeOK
<1>12. head'[q] = next[e] /\ tail'[q] = tl2
  BY <1>1, <1>10 DEF TypeOK
<1>13. ListTypeOK'
  BY <1>1, <1>3, <1>5, <1>6, <1>10, <1>11 DEF ListTypeOK, TypeOK
<1>14. \A x \in Entry : x \notin Range(s) => prev'[x] = prev[x] /\ next'[x] = next[x]
  BY <1>6, <1>9, <1>10, EvQueueAssumption
<1>15. prev'[e] = NULL /\ next'[e] = NULL
  BY <1>9, <1>10
<1> HIDE DEF tl2, pv2, nx2
<1>16. ListRep'
  <2>1. ASSUME NEW r \in Queue
        PROVE  Rep(head'[r], tail'[r], prev', next', order'[r])
    <3>1. CASE r = q
      BY <1>5, <1>9, <1>10, <1>12, <3>1
    <3>2. CASE r # q
      <4>1. head'[r] = head[r] /\ tail'[r] = tail[r] /\ order'[r] = order[r]
        BY <1>1, <1>5, <1>10, <3>2 DEF TypeOK
      <4>2. \A x \in Range(order[r]) : x \in Entry /\ x \notin Range(s)
        <5>1. order[r] \in Seq(Entry) BY <1>1 DEF TypeOK
        <5>2. Range(order[r]) \subseteq Entry BY <5>1 DEF Range
        <5>3. Queued(r) = Range(order[r]) /\ Queued(q) = Range(s) BY DEF Queued
        <5> QED BY <1>1, <3>2, <5>2, <5>3
      <4> QED BY <1>1, <1>14, <4>1, <4>2, RepFrame
    <3> QED BY <3>1, <3>2
  <2>2. ASSUME NEW x \in Entry, \A r \in Queue : x \notin Queued(r)'
        PROVE  prev'[x] = NULL /\ next'[x] = NULL
    <3>1. CASE x = e BY <1>15, <3>1
    <3>2. CASE x # e
      <4>1. x \notin Range(s) /\ \A r \in Queue : x \notin Queued(r)
        BY <1>8, <2>2, <3>2 DEF Queued
      <4>2. prev[x] = NULL /\ next[x] = NULL
        BY <4>1, ListRepSplit DEF Inv, FreeEntriesUnlinked
      <4> QED BY <1>14, <4>1, <4>2
    <3> QED BY <3>1, <3>2
  <2> QED BY <2>1, <2>2, ListRepSplit DEF ListRep, Rep
<1>17. e \in Queued(q) BY <1>6 DEF Queued
<1> QED BY <1>3, <1>5, <1>7, <1>8, <1>9, <1>13, <1>16, <1>17

(* A step that leaves lists, order and queues of waiting alone. *)
LEMMA ListsUnchanged ==
  ASSUME Inv, UNCHANGED <<pointers, order>>
  PROVE  /\ ListTypeOK' /\ ListRep'
         /\ \A r \in Queue : /\ IsInjective(order'[r])
                             /\ order'[r] = order[r]
                             /\ Queued(r)' = Queued(r)
  BY DEF Inv, TypeOK, OwnedOnce, ListTypeOK, ListRep, pointers, Queued

(* Waking consumers is always harmless. *)
LEMMA MoreAwake ==
  ASSUME Inv, NEW r \in Queue,
         Sleepers(r)' \subseteq Sleepers(r), Awake(r) \subseteq Awake(r)',
         Len(order'[r]) <= Len(order[r]), Len(order'[r]) \in Nat
  PROVE  Sleepers(r)' # {} => Len(order'[r]) <= Cardinality(Awake(r)')
<1>1. IsFiniteSet(Awake(r)')
  BY EvQueueAssumption, FS_Subset DEF Awake
<1>2. /\ Cardinality(Awake(r)) <= Cardinality(Awake(r)')
      /\ Cardinality(Awake(r)) \in Nat /\ Cardinality(Awake(r)') \in Nat
  BY <1>1, FS_Subset, FS_CardinalityType
<1>3. Len(order[r]) \in Nat BY DEF Inv, TypeOK
<1> QED BY <1>2, <1>3 DEF Inv, NoLostWakeup

(* All queues are empty at the start. *)
LEMMA InitInv == Init => Inv
<1> SUFFICES ASSUME Init PROVE Inv
  OBVIOUS
<1>1. TypeOK
  BY DEF Init, TypeOK
<1>2. \A q \in Queue : order[q] = <<>> /\ Queued(q) = {} /\ IsInjective(order[q])
  BY DEF Init, Queued, Range, IsInjective
<1>3. OwnedOnce
  BY <1>2 DEF Init, OwnedOnce
<1>4. ListRep
  BY <1>2 DEF Init, ListRep, Neighbour
<1>5. NoLostWakeup
  <2>1. \A q \in Queue : Sleepers(q) = {} BY DEF Init, Sleepers
  <2> QED BY <2>1 DEF NoLostWakeup
<1> QED BY <1>1, <1>3, <1>4, <1>5 DEF Inv

(* A queue whose head pointer is NULL holds nothing. *)
LEMMA EmptyQueue ==
  ASSUME Inv, NEW q \in Queue, head[q] = NULL
  PROVE  Len(order[q]) = 0
<1>1. Rep(head[q], tail[q], prev, next, order[q]) /\ order[q] \in Seq(Entry)
  BY ListRepSplit DEF Inv, TypeOK
<1>2. order[q] = <<>> BY <1>1, RepEnds
<1> QED BY <1>2

(* The number of awake consumers is a natural number. *)
LEMMA AwakeFinite ==
  ASSUME NEW r PROVE IsFiniteSet(Awake(r)) /\ Cardinality(Awake(r)) \in Nat
  BY EvQueueAssumption, FS_Subset, FS_CardinalityType DEF Awake

(* Pushing keeps the invariant ... *)
LEMMA PushKeepsInv ==
  ASSUME NEW q \in Queue, NEW e \in Entry, NEW front \in BOOLEAN,
         Inv, PushNew(q, e, front) \/ C_evq_push(q, e, front)
  PROVE  Inv'
<1>1. /\ \A r \in Queue : e \notin Queued(r)
      /\ ev_push(q, e, front)
      /\ UNCHANGED <<on, late, got>>
  BY DEF Inv, OwnedOnce, PushNew, C_evq_push
<1>2. /\ ListTypeOK' /\ ListRep' /\ NoLostWakeup'
      /\ pc' \in [Consumer -> {"idle", "sleep", "awake"}]
      /\ \A r \in Queue : /\ IsInjective(order'[r])
                          /\ Queued(r)' = IF r = q THEN Queued(q) \cup {e} ELSE Queued(r)
  BY <1>1, PushKeeps
<1>3. allocated' \in SUBSET Entry /\ ref' \in SUBSET Entry
  BY DEF Inv, TypeOK, PushNew, C_evq_push
<1>4. TypeOK'
  BY <1>1, <1>2, <1>3 DEF Inv, TypeOK, ListTypeOK
<1>5. allocated' = allocated \cup {e} /\ ref' = ref \ {e} /\ \A c \in Consumer : got[c] # e
  BY EvQueueAssumption DEF PushNew, C_evq_push, Inv, OwnedOnce
<1>6. OwnedOnce'
  <2>1. \A r \in Queue : IsInjective(order'[r]) /\ Queued(r)' \cap ref' = {}
    BY <1>2, <1>5 DEF Inv, OwnedOnce
  <2>2. \A r, p \in Queue : r # p => Queued(r)' \cap Queued(p)' = {}
    BY <1>1, <1>2 DEF Inv, OwnedOnce
  <2>3. allocated' = ref' \cup UNION {Queued(r)' : r \in Queue}
    BY <1>2, <1>5 DEF Inv, OwnedOnce
  <2>4. /\ \A c \in Consumer : got'[c] # NULL => got'[c] \in ref'
        /\ \A c, d \in Consumer : c # d /\ got'[c] # NULL => got'[c] # got'[d]
    BY <1>1, <1>5 DEF Inv, OwnedOnce
  <2> QED BY <2>1, <2>2, <2>3, <2>4 DEF OwnedOnce
<1> QED BY <1>2, <1>4, <1>6 DEF Inv

(* ... taking the head does ... *)
LEMMA TakeKeepsInv ==
  ASSUME NEW c \in Consumer, NEW q \in Queue, Inv,
         ev_pop(c, q) \/ (Resume_take(c) /\ q = on[c])
  PROVE  Inv'
<1>1. TakeHead(c, q) /\ UNCHANGED <<allocated, on, late>>
  BY DEF ev_pop, Resume_take
<1> DEFINE e == head[q]
<1>2. /\ ListTypeOK' /\ ListRep'
      /\ e \in Entry /\ e \in Queued(q)
      /\ ref' = ref \cup {e}
      /\ got' \in {got, [got EXCEPT ![c] = e]}
      /\ Len(order'[q]) = Len(order[q]) - 1
      /\ \A r \in Queue : /\ IsInjective(order'[r])
                          /\ r # q => order'[r] = order[r]
                          /\ Queued(r)' = IF r = q THEN Queued(q) \ {e} ELSE Queued(r)
  BY <1>1, TakeKeeps
<1> HIDE DEF e
<1>3. pc' \in [Consumer -> {"idle", "sleep", "awake"}]
  BY DEF ev_pop, Resume_take, Inv, TypeOK
<1>4. TypeOK'
  BY <1>1, <1>2, <1>3 DEF Inv, TypeOK, ListTypeOK
<1>5. OwnedOnce'
  <2>1. \A r \in Queue : IsInjective(order'[r]) /\ Queued(r)' \cap ref' = {}
    BY <1>2 DEF Inv, OwnedOnce
  <2>2. \A r, p \in Queue : r # p => Queued(r)' \cap Queued(p)' = {}
    BY <1>2 DEF Inv, OwnedOnce
  <2>3. allocated' = ref' \cup UNION {Queued(r)' : r \in Queue}
    BY <1>1, <1>2 DEF Inv, OwnedOnce
  <2>4. e \notin ref /\ \A d \in Consumer : got[d] # e
    BY <1>2, EvQueueAssumption DEF Inv, OwnedOnce
  <2>5. /\ \A d \in Consumer : got'[d] # NULL => got'[d] \in ref'
        /\ \A a, d \in Consumer : a # d /\ got'[a] # NULL => got'[a] # got'[d]
    <3>1. CASE got' = got BY <1>2, <3>1 DEF Inv, OwnedOnce
    <3>2. CASE got' = [got EXCEPT ![c] = e]
      BY <1>2, <2>4, <3>2 DEF Inv, OwnedOnce, TypeOK
    <3> QED BY <1>2, <3>1, <3>2
  <2> QED BY <2>1, <2>2, <2>3, <2>5 DEF OwnedOnce
<1>6. ASSUME NEW r \in Queue, Sleepers(r)' # {}
      PROVE  Len(order'[r]) <= Cardinality(Awake(r)')
  <2>1. Len(order'[r]) \in Nat /\ Len(order[r]) \in Nat
    BY <1>4 DEF Inv, TypeOK
  <2>2. CASE ev_pop(c, q)
    <3>1. Sleepers(r)' = Sleepers(r) /\ Awake(r)' = Awake(r)
      BY <2>2 DEF ev_pop, Sleepers, Awake
    <3>2. Len(order'[r]) <= Len(order[r])
      BY <1>2, <2>1
    <3> QED BY <1>6, <2>1, <3>1, <3>2, MoreAwake
  <2>3. CASE Resume_take(c) /\ q = on[c]
    <3>1. /\ Sleepers(r)' = Sleepers(r)
          /\ Awake(r)' = IF r = q THEN Awake(r) \ {c} ELSE Awake(r)
          /\ r = q => c \in Awake(r)
      BY <2>3 DEF Resume_take, Sleepers, Awake, Inv, TypeOK
    <3>2. Len(order[r]) <= Cardinality(Awake(r))
      BY <1>6, <3>1 DEF Inv, NoLostWakeup
    <3>3. CASE r = q
      <4>1. Cardinality(Awake(r) \ {c}) = Cardinality(Awake(r)) - 1
        BY <3>1, <3>3, AwakeFinite, FS_RemoveElement
      <4> QED BY <1>2, <2>1, <3>1, <3>2, <3>3, <4>1, AwakeFinite
    <3>4. CASE r # q
      BY <1>2, <3>1, <3>2, <3>4
    <3> QED BY <3>3, <3>4
  <2> QED BY <2>2, <2>3
<1> QED BY <1>2, <1>4, <1>5, <1>6 DEF Inv, NoLostWakeup

(* ... and so do waiting, waking up and going on ... *)
LEMMA WaitKeepsInv ==
  ASSUME NEW c \in Consumer, Inv,
         \/ \E q \in Queue : ev_pop_wait(c, q)
         \/ Deadline(c) \/ Wakeup(c) \/ Resume_empty(c)
  PROVE  Inv'
<1>1. UNCHANGED <<pointers, allocated, ref, got, order>>
  BY DEF ev_pop_wait, Deadline, Wakeup, Resume_empty
<1>2. /\ ListTypeOK' /\ ListRep'
      /\ \A r \in Queue : /\ IsInjective(order'[r])
                          /\ order'[r] = order[r]
                          /\ Queued(r)' = Queued(r)
  BY <1>1, ListsUnchanged
<1>3. /\ pc' \in [Consumer -> {"idle", "sleep", "awake"}]
      /\ on' \in [Consumer -> Queue]
      /\ late' \in [Consumer -> BOOLEAN]
  BY DEF ev_pop_wait, Deadline, Wakeup, Resume_empty, Inv, TypeOK
<1>4. TypeOK'
  BY <1>1, <1>2, <1>3 DEF Inv, TypeOK, ListTypeOK
<1>5. OwnedOnce'
  BY <1>1, <1>2 DEF Inv, OwnedOnce
<1>6. ASSUME NEW r \in Queue, Sleepers(r)' # {}
      PROVE  Len(order'[r]) <= Cardinality(Awake(r)')
  <2>0. Len(order[r]) \in Nat /\ Cardinality(Awake(r)') \in Nat
    BY FS_Subset, FS_CardinalityType, EvQueueAssumption DEF Inv, TypeOK, Awake
  <2>1. ASSUME NEW q \in Queue, ev_pop_wait(c, q)
        PROVE  Len(order'[r]) <= Cardinality(Awake(r)')
    <3>1. CASE r = q
      BY <1>2, <2>0, <2>1, <3>1, EmptyQueue DEF ev_pop_wait
    <3>2. CASE r # q
      <4>1. Sleepers(r)' = Sleepers(r) /\ Awake(r)' = Awake(r)
        BY <2>1, <3>2 DEF ev_pop_wait, CanCall, Sleepers, Awake, Inv, TypeOK
      <4> QED BY <1>2, <1>6, <2>0, <4>1, MoreAwake
    <3> QED BY <3>1, <3>2
  <2>2. CASE Deadline(c) \/ Wakeup(c)
    <3>1. Sleepers(r)' \subseteq Sleepers(r) /\ Awake(r) \subseteq Awake(r)'
      BY <2>2 DEF Deadline, Wakeup, Sleepers, Awake, Inv, TypeOK
    <3> QED BY <1>2, <1>6, <2>0, <3>1, MoreAwake
  <2>3. CASE Resume_empty(c)
    <3>1. CASE r = on[c]
      BY <1>2, <2>0, <2>3, <3>1, EmptyQueue DEF Resume_empty
    <3>2. CASE r # on[c]
      <4>1. Sleepers(r)' = Sleepers(r) /\ Awake(r)' = Awake(r)
        BY <2>3, <3>2 DEF Resume_empty, Sleepers, Awake, Inv, TypeOK
      <4> QED BY <1>2, <1>6, <2>0, <4>1, MoreAwake
    <3> QED BY <3>1, <3>2
  <2> QED BY <2>1, <2>2, <2>3
<1> QED BY <1>2, <1>4, <1>5, <1>6 DEF Inv, NoLostWakeup

(* ... and releasing entries. *)
LEMMA ReleaseKeepsInv ==
  ASSUME Inv,
         \/ \E c \in Consumer : C_evq_pop_copy(c) \/ C_evq_pop_error(c)
         \/ \E e \in Entry : eventry_R_free(e)
         \/ UNCHANGED vars
  PROVE  Inv'
<1>1. UNCHANGED <<pointers, pc, on, late, order>>
  BY DEF C_evq_pop_copy, C_evq_pop_error, eventry_R_free, vars, pointers
<1>2. /\ ListTypeOK' /\ ListRep'
      /\ \A r \in Queue : /\ IsInjective(order'[r])
                          /\ order'[r] = order[r]
                          /\ Queued(r)' = Queued(r)
  BY <1>1, ListsUnchanged
<1>3. NoLostWakeup'
  BY <1>1 DEF Inv, NoLostWakeup, Sleepers, Awake
<1>4. TypeOK'
  <2>1. /\ allocated' \in SUBSET Entry /\ ref' \in SUBSET Entry
        /\ got' \in [Consumer -> Entry \cup {NULL}]
    BY DEF C_evq_pop_copy, C_evq_pop_error, eventry_R_free, vars, Inv, TypeOK
  <2> QED BY <1>1, <1>2, <2>1 DEF Inv, TypeOK, ListTypeOK
<1>5. OwnedOnce'
  <2>1. ASSUME NEW c \in Consumer, C_evq_pop_copy(c) PROVE OwnedOnce'
    <3> DEFINE e == got[c]
    <3>1. /\ e # NULL /\ e \in ref /\ \A r \in Queue : e \notin Queued(r)
          /\ \A d \in Consumer : d # c => got[d] # e
          /\ allocated' = allocated \ {e} /\ ref' = ref \ {e}
          /\ got' = [got EXCEPT ![c] = NULL]
      BY <2>1 DEF C_evq_pop_copy, Inv, OwnedOnce
    <3> HIDE DEF e
    <3>2. allocated' = ref' \cup UNION {Queued(r)' : r \in Queue}
      BY <1>2, <3>1 DEF Inv, OwnedOnce
    <3>3. /\ \A d \in Consumer : got'[d] # NULL => got'[d] \in ref'
          /\ \A a, d \in Consumer : a # d /\ got'[a] # NULL => got'[a] # got'[d]
      BY <3>1 DEF Inv, OwnedOnce, TypeOK
    <3> QED BY <1>2, <3>1, <3>2, <3>3 DEF Inv, OwnedOnce
  <2>2. ASSUME NEW c \in Consumer, C_evq_pop_error(c) PROVE OwnedOnce'
    <3>1. /\ got' = [got EXCEPT ![c] = NULL] /\ allocated' = allocated /\ ref' = ref
      BY <2>2 DEF C_evq_pop_error
    <3>2. /\ \A d \in Consumer : got'[d] # NULL => got'[d] \in ref'
          /\ \A a, d \in Consumer : a # d /\ got'[a] # NULL => got'[a] # got'[d]
      BY <3>1 DEF Inv, OwnedOnce, TypeOK
    <3> QED BY <1>2, <3>1, <3>2 DEF Inv, OwnedOnce
  <2>3. ASSUME NEW e \in Entry, eventry_R_free(e) PROVE OwnedOnce'
    <3>1. /\ e \in ref /\ \A r \in Queue : e \notin Queued(r)
          /\ \A d \in Consumer : got[d] # e
          /\ allocated' = allocated \ {e} /\ ref' = ref \ {e} /\ got' = got
      BY <2>3 DEF eventry_R_free, Inv, OwnedOnce
    <3>2. allocated' = ref' \cup UNION {Queued(r)' : r \in Queue}
      BY <1>2, <3>1 DEF Inv, OwnedOnce
    <3> QED BY <1>2, <3>1, <3>2 DEF Inv, OwnedOnce
  <2>4. CASE UNCHANGED vars
    BY <1>2, <2>4 DEF vars, Inv, OwnedOnce
  <2> QED BY <2>1, <2>2, <2>3, <2>4
<1> QED BY <1>2, <1>3, <1>4, <1>5 DEF Inv

(* Every step keeps the invariant. *)
LEMMA NextKeepsInv == Inv /\ [Next]_vars => Inv'
<1> SUFFICES ASSUME Inv, [Next]_vars PROVE Inv'
  OBVIOUS
<1>1. CASE Push
  BY <1>1, PushKeepsInv DEF Push
<1>2. ASSUME NEW c \in Consumer, Consume(c) PROVE Inv'
  <2>1. on[c] \in Queue BY DEF Inv, TypeOK
  <2>2. ASSUME NEW q \in Queue, ev_pop(c, q) PROVE Inv'
    BY <2>2, TakeKeepsInv
  <2>3. CASE Resume_take(c)
    BY <2>1, <2>3, TakeKeepsInv
  <2>4. CASE \/ \E q \in Queue : ev_pop_wait(c, q)
             \/ Deadline(c) \/ Wakeup(c) \/ Resume_empty(c)
    BY <2>4, WaitKeepsInv
  <2>5. CASE C_evq_pop_copy(c) \/ C_evq_pop_error(c)
    BY <2>5, ReleaseKeepsInv
  <2> QED BY <1>2, <2>2, <2>3, <2>4, <2>5 DEF Consume, Resume, TimedOut, Spurious
<1>3. CASE (\E e \in Entry : eventry_R_free(e)) \/ UNCHANGED vars
  BY <1>3, ReleaseKeepsInv
<1> QED BY <1>1, <1>2, <1>3 DEF Next

(* The inductive invariant holds in every behaviour of the queues. *)
THEOREM InvHolds == Spec => []Inv
  BY InitInv, NextKeepsInv, PTL DEF Spec

(* Type correctness of the queues (evqueue.c, revq.c). *)
THEOREM TypeCorrect == Spec => []TypeOK
<1>1. Inv => TypeOK BY DEF Inv
<1> QED BY <1>1, InvHolds, PTL

(* No entry has two owners or is used after ev_free, for any number of
   queues, entries and consumers. *)
THEOREM AlwaysOwnedOnce == Spec => []OwnedOnce
<1>1. Inv => OwnedOnce BY DEF Inv
<1> QED BY <1>1, InvHolds, PTL

(* The pointer manipulation of ev_push and ev_rm_ implements a list that
   grows at both ends and shrinks at the front, re-insertion included. *)
THEOREM ListAlwaysRepresented == Spec => []ListRep
<1>1. Inv => ListRep BY DEF Inv
<1> QED BY <1>1, InvHolds, PTL

(* One pthread_cond_signal per push is enough: no consumer sleeps while an
   entry waits that nobody is on the way to. *)
THEOREM WakeupNeverLost == Spec => []NoLostWakeup
<1>1. Inv => NoLostWakeup BY DEF Inv
<1> QED BY <1>1, InvHolds, PTL
=============================================================================
